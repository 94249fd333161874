--------------------------- MODULE SelectionsProofs ---------------------------
(***************************************************************************)
(* Proofs about the two selections, for every grid, every list of          *)
(* candidates and every threshold: SpatialReliability's components, region *)
(* and cap, and BalancedSelection's rounds.                                *)
(*                                                                         *)
(* Both cut sorted lists off after n entries.  The models say of which     *)
(* entries fewer than n others come first; that there are n of them is the *)
(* lemma FirstN, on which the theorems about counts rest.                  *)
(***************************************************************************)
EXTENDS SpatialReliability, BalancedSelection, FiniteSetTheorems, TLAPS

-------------------------------------------------------------------------------
(* Sets and orders *)

StrictOrder(R, S) ==
    /\ \A x \in S : <<x, x>> \notin R
    /\ \A x, y, z \in S : <<x, y>> \in R /\ <<y, z>> \in R => <<x, z>> \in R
    /\ \A x, y \in S : x # y => <<x, y>> \in R \/ <<y, x>> \in R

Ahead(x, R, S) == {y \in S : <<y, x>> \in R}

\* Who comes earlier has fewer others before him.
LEMMA RankGrows ==
  ASSUME NEW S, NEW R, IsFiniteSet(S), StrictOrder(R, S),
         NEW x \in S, NEW y \in S, <<x, y>> \in R
  PROVE  /\ Cardinality(Ahead(x, R, S)) \in Nat
         /\ Cardinality(Ahead(y, R, S)) \in Nat
         /\ Cardinality(Ahead(x, R, S)) < Cardinality(Ahead(y, R, S))
<1>1. /\ Ahead(x, R, S) \subseteq Ahead(y, R, S)
      /\ x \in Ahead(y, R, S) /\ x \notin Ahead(x, R, S)
  BY DEF Ahead, StrictOrder
<1>2. IsFiniteSet(Ahead(y, R, S)) /\ IsFiniteSet(Ahead(x, R, S))
  BY FS_Subset DEF Ahead
<1>3. /\ Cardinality(Ahead(x, R, S)) \in Nat
      /\ Cardinality(Ahead(y, R, S)) \in Nat
  BY <1>2, FS_CardinalityType
<1>4. /\ Cardinality(Ahead(x, R, S)) <= Cardinality(Ahead(y, R, S))
      /\ Cardinality(Ahead(x, R, S)) # Cardinality(Ahead(y, R, S))
  BY <1>1, <1>2, FS_Subset
<1>5. QED
  BY <1>3, <1>4

LEMMA IntervalSize ==
  ASSUME NEW n \in Nat
  PROVE  IsFiniteSet(0 .. n - 1) /\ Cardinality(0 .. n - 1) = n
<1>1. 0 \in Int /\ n - 1 \in Int
  OBVIOUS
<1>2. QED
  BY <1>1, FS_Interval

\* The ranks of a finite set with a strict order are 0 .. Cardinality - 1.
LEMMA Ranks ==
  ASSUME NEW S, NEW R, IsFiniteSet(S), StrictOrder(R, S)
  PROVE  LET rank == [x \in S |-> Cardinality(Ahead(x, R, S))]
         IN  rank \in Bijection(S, 0 .. Cardinality(S) - 1)
<1> DEFINE rank == [x \in S |-> Cardinality(Ahead(x, R, S))]
           T == 0 .. Cardinality(S) - 1
<1>1. Cardinality(S) \in Nat
  BY FS_CardinalityType
<1>2. ASSUME NEW x \in S PROVE rank[x] \in T
  <2>1. Ahead(x, R, S) \subseteq S /\ x \notin Ahead(x, R, S)
    BY DEF Ahead, StrictOrder
  <2>2. /\ Cardinality(Ahead(x, R, S)) \in Nat
        /\ Cardinality(Ahead(x, R, S)) <= Cardinality(S)
        /\ Cardinality(Ahead(x, R, S)) # Cardinality(S)
    <3>1. IsFiniteSet(Ahead(x, R, S))
      BY <2>1, FS_Subset
    <3>2. QED
      BY <2>1, <3>1, FS_Subset, FS_CardinalityType
  <2>3. QED
    BY <1>1, <2>2
<1>3. ASSUME NEW x \in S, NEW y \in S, rank[x] = rank[y] PROVE x = y
  <2>1. CASE <<x, y>> \in R
    BY <1>3, <2>1, RankGrows
  <2>2. CASE <<y, x>> \in R
    BY <1>3, <2>2, RankGrows
  <2>3. QED
    BY <2>1, <2>2 DEF StrictOrder
<1>4. rank \in Injection(S, T)
  BY <1>2, <1>3 DEF Injection, IsInjective
<1>5. IsFiniteSet(T) /\ Cardinality(T) = Cardinality(S)
  BY <1>1, IntervalSize
<1>6. rank \in Surjection(S, T)
  BY <1>4, <1>5, FS_Injection
<1>7. QED
  BY <1>4, <1>6 DEF Bijection

\* Of a finite set with a strict order, the elements that fewer than n others
\* precede are n (or all, if there are fewer), and nothing else precedes them.
LEMMA FirstN ==
  ASSUME NEW S, NEW R, IsFiniteSet(S), StrictOrder(R, S), NEW n \in Nat
  PROVE  LET first == {x \in S : Cardinality(Ahead(x, R, S)) < n}
         IN  /\ IsFiniteSet(first)
             /\ Cardinality(S) \in Nat
             /\ Cardinality(first) = IF Cardinality(S) < n THEN Cardinality(S)
                                     ELSE n
             /\ \A x \in first, y \in S \ first : <<x, y>> \in R
<1> DEFINE rank == [x \in S |-> Cardinality(Ahead(x, R, S))]
           first == {x \in S : Cardinality(Ahead(x, R, S)) < n}
           m == IF Cardinality(S) < n THEN Cardinality(S) ELSE n
           f == [x \in first |-> rank[x]]
<1>1. Cardinality(S) \in Nat /\ m \in Nat
  BY FS_CardinalityType
<1>2. /\ rank \in [S -> 0 .. Cardinality(S) - 1]
      /\ \A x, y \in S : rank[x] = rank[y] => x = y
      /\ \A r \in 0 .. Cardinality(S) - 1 : \E x \in S : rank[x] = r
  <2>1. rank \in Bijection(S, 0 .. Cardinality(S) - 1)
    BY Ranks
  <2> HIDE DEF rank
  <2>2. QED
    BY <2>1 DEF Bijection, Injection, Surjection, IsInjective
<1>3. IsFiniteSet(first)
  BY FS_Subset
<1>4. f \in Bijection(first, 0 .. m - 1)
  <2>1. \A x \in first : f[x] \in 0 .. m - 1
    <3> TAKE x \in first
    <3>1. rank[x] \in 0 .. Cardinality(S) - 1 /\ rank[x] < n /\ f[x] = rank[x]
      BY <1>2
    <3>2. QED
      BY <1>1, <3>1
  <2>2. \A r \in 0 .. m - 1 : \E x \in first : f[x] = r
    <3> TAKE r \in 0 .. m - 1
    <3>1. r \in 0 .. Cardinality(S) - 1 /\ r < n
      BY <1>1
    <3>2. PICK x \in S : rank[x] = r
      BY <1>2, <3>1
    <3>3. x \in first
      BY <3>1, <3>2
    <3>4. QED
      BY <3>2, <3>3
  <2>3. f \in Injection(first, 0 .. m - 1)
    BY <1>2, <2>1 DEF Injection, IsInjective
  <2>4. f \in Surjection(first, 0 .. m - 1)
    BY <2>1, <2>2 DEF Surjection
  <2>5. QED
    BY <2>3, <2>4 DEF Bijection
<1>5. Cardinality(first) = m
  <2>1. Cardinality(0 .. m - 1) = m
    <3> HIDE DEF m
    <3>1. QED
      BY <1>1, IntervalSize
  <2>2. ExistsBijection(first, 0 .. m - 1)
    BY <1>4 DEF ExistsBijection
  <2>3. QED
    BY <1>3, <2>1, <2>2, FS_Bijection
<1>6. ASSUME NEW x \in first, NEW y \in S \ first PROVE <<x, y>> \in R
  <2>1. x # y
    BY <1>6
  <2>2. CASE <<y, x>> \in R
    BY <1>6, <2>2, RankGrows
  <2>3. QED
    BY <2>1, <2>2 DEF StrictOrder
<1>7. QED
  BY <1>1, <1>3, <1>5, <1>6

\* A finite set of integers is in order, and an element is known by how many
\* come before it.
LEMMA SameIndex ==
  ASSUME NEW P \in SUBSET Int, IsFiniteSet(P), NEW p \in P, NEW q \in P,
         IndexIn(p, P) = IndexIn(q, P)
  PROVE  p = q
<1> DEFINE R == {at \in P \X P : at[1] < at[2]}
<1>1. StrictOrder(R, P)
  BY DEF StrictOrder
<1>2. \A x \in P : Ahead(x, R, P) = {y \in P : y < x}
  BY DEF Ahead
<1>3. \A x, y \in P : x < y => IndexIn(x, P) # IndexIn(y, P)
  <2> SUFFICES ASSUME NEW x \in P, NEW y \in P, x < y
               PROVE  IndexIn(x, P) # IndexIn(y, P)
    OBVIOUS
  <2>1. <<x, y>> \in R
    OBVIOUS
  <2> HIDE DEF R
  <2>2. /\ Cardinality(Ahead(x, R, P)) \in Nat
        /\ Cardinality(Ahead(y, R, P)) \in Nat
        /\ Cardinality(Ahead(x, R, P)) < Cardinality(Ahead(y, R, P))
    BY <1>1, <2>1, RankGrows
  <2>3. QED
    BY <1>2, <2>2 DEF IndexIn
<1>4. QED
  BY <1>3
-------------------------------------------------------------------------------
(* SpatialReliability: the inductive invariant *)

\* The type invariant, as far as the proofs need it.
SpatialTypeOK ==
    /\ tiles \in UNION {[1 .. n -> Tile] : n \in 1 .. MaxTiles}
    /\ k \in Nat \ {0}
    /\ IsFiniteSet(records)
    /\ records \subseteq [tile : DOMAIN tiles, cand : Int,
                          key : Cell \cup {NoCell}]
    /\ reliable \in SUBSET Cell
    /\ stack \in SUBSET reliable /\ cells_local \in SUBSET reliable
    /\ components \in SUBSET SUBSET reliable
    /\ region \in SUBSET reliable

\* A record has its own cell unless an outlier comes before it in its tile.
RecordsInOwnCells ==
    \A r \in records : OutlierBefore(r) \/ r.key = OwnCell(r)

\* While the tiles are read there is nothing to see; the fill is over when the
\* labels are.
PhaseOK ==
    /\ pc \in {"tiles", "refused"} =>
          stack = {} /\ cells_local = {} /\ components = {}
    /\ pc \in {"plan", "decided"} =>
          /\ stack = {} /\ cells_local = {}
          /\ reliable \subseteq UNION components
    /\ pc # "plan" /\ pc # "decided" => region = {}

\* What is found is a component; what is being filled has seen all neighbours
\* of its cells, is connected to some cell, and meets no component found.
FillOK ==
    LET seen == stack \cup cells_local
    IN  /\ \A p \in components : \E c \in reliable : p = ConnectedTo(c)
        /\ \A c \in cells_local, d \in reliable : Adjacent(c, d) => d \in seen
        /\ seen # {} => \E s \in seen : seen \subseteq ConnectedTo(s)
        /\ \A p \in components : p \cap seen = {}

SpatialInv ==
    /\ SpatialTypeOK /\ RecordsInOwnCells /\ PhaseOK /\ FillOK
    /\ Closed(region)
    /\ SelectedInRegion /\ CapKeepsTheFirst
-------------------------------------------------------------------------------
(* The cells that are connected *)

LEMMA AdjacentBothWays ==
  ASSUME NEW c \in Cell, NEW d \in Cell, Adjacent(c, d)
  PROVE  Adjacent(d, c)
<1>1. /\ c[1] \in Int /\ c[2] \in Int /\ d[1] \in Int /\ d[2] \in Int
  BY GridAssumption DEF Cell
<1>2. \A m, n \in Int : m - n \in -1 .. 1 => n - m \in -1 .. 1
  OBVIOUS
<1>3. /\ d # c
      /\ d[1] - c[1] \in -1 .. 1 /\ d[2] - c[2] \in -1 .. 1
      /\ connectivity = 4 => (d[1] = c[1] \/ d[2] = c[2])
  BY <1>1, <1>2 DEF Adjacent
<1>4. QED
  BY <1>3 DEF Adjacent

LEMMA ConnectedCells ==
  ASSUME NEW s \in reliable
  PROVE  /\ s \in ConnectedTo(s)
         /\ ConnectedTo(s) \in SUBSET reliable
         /\ Closed(ConnectedTo(s))
BY DEF ConnectedTo, Closed

LEMMA ConnectedLeast ==
  ASSUME NEW cells \in SUBSET reliable, NEW s \in cells, Closed(cells)
  PROVE  ConnectedTo(s) \subseteq cells
BY DEF ConnectedTo

\* To be connected is symmetric: the rest of the reliable cells is closed, too.
LEMMA ConnectedSame ==
  ASSUME reliable \in SUBSET Cell,
         NEW s \in reliable, NEW c \in ConnectedTo(s)
  PROVE  ConnectedTo(c) = ConnectedTo(s)
<1>1. c \in reliable /\ c \in ConnectedTo(c)
  BY ConnectedCells DEF ConnectedTo
<1>2. ConnectedTo(c) \subseteq ConnectedTo(s)
  BY ConnectedCells, ConnectedLeast
<1>3. s \in ConnectedTo(c)
  <2> SUFFICES ASSUME s \notin ConnectedTo(c) PROVE FALSE
    OBVIOUS
  <2> DEFINE rest == reliable \ ConnectedTo(c)
  <2>1. Closed(rest)
    <3> SUFFICES ASSUME NEW x \in rest, NEW y \in reliable, Adjacent(x, y),
                        y \in ConnectedTo(c)
                 PROVE  FALSE
      BY DEF Closed
    <3>1. Adjacent(y, x)
      BY AdjacentBothWays
    <3>2. x \in ConnectedTo(c)
      BY <1>1, <3>1, ConnectedCells DEF Closed
    <3>3. QED
      BY <3>2
  <2>2. s \in rest /\ rest \in SUBSET reliable
    OBVIOUS
  <2>3. ConnectedTo(s) \subseteq rest
    BY <2>1, <2>2, ConnectedLeast
  <2>4. QED
    BY <1>1, <2>3
<1>4. ConnectedTo(s) \subseteq ConnectedTo(c)
  BY <1>1, <1>3, ConnectedCells, ConnectedLeast
<1>5. QED
  BY <1>2, <1>4

-------------------------------------------------------------------------------
(* What a tile adds to the records *)

LEMMA TileType ==
  ASSUME tiles \in UNION {[1 .. n -> Tile] : n \in 1 .. MaxTiles},
         NEW t \in DOMAIN tiles
  PROVE  /\ t \in Nat
         /\ \E n \in 0 .. MaxCandidates : tiles[t] \in [1 .. n -> Candidate]
<1>1. PICK n \in 1 .. MaxTiles : tiles \in [1 .. n -> Tile]
  OBVIOUS
<1>2. t \in 1 .. n /\ tiles[t] \in Tile
  BY <1>1
<1>3. QED
  BY <1>2 DEF Tile

LEMMA SceneKeyType ==
  ASSUME NEW c \in Candidate
  PROVE  SceneKey(c) \in Cell \cup {NoCell}
BY CandidateAssumption DEF SceneKey

LEMMA RecordsOfTile ==
  ASSUME tiles \in UNION {[1 .. n -> Tile] : n \in 1 .. MaxTiles},
         k \in DOMAIN tiles
  PROVE  /\ IsFiniteSet(Records(tiles[k]))
         /\ Records(tiles[k]) \subseteq [tile : {k}, cand : Int,
                                         key : Cell \cup {NoCell}]
         /\ \A r \in Records(tiles[k]) : OutlierBefore(r) \/ r.key = OwnCell(r)
<1> DEFINE tile == tiles[k]
           I == InlierPositions(tile)
           F == FinitePositions(tile)
           Ats == {at \in I \X F : IndexIn(at[1], I) = IndexIn(at[2], F)}
           rec(at) == [tile |-> k, cand |-> at[1],
                       key |-> SceneKey(tile[at[2]])]
           f == [at \in Ats |-> rec(at)]
<1>1. PICK n \in 0 .. MaxCandidates : tile \in [1 .. n -> Candidate]
  BY TileType
<1>2. DOMAIN tile = 1 .. n /\ IsFiniteSet(1 .. n) /\ n \in Nat
  <2>1. n \in Nat
    BY GridAssumption
  <2>2. QED
    BY <1>1, <2>1, FS_Interval
<1>3. I \subseteq F /\ F \subseteq 1 .. n
  BY <1>2 DEF InlierPositions, FinitePositions
<1>4. IsFiniteSet(I) /\ IsFiniteSet(F)
  BY <1>2, <1>3, FS_Subset
<1>5. IsFiniteSet(Ats)
  <2>1. IsFiniteSet(I \X F)
    BY <1>4, FS_Product
  <2>2. QED
    BY <2>1, FS_Subset
<1>6. Records(tile) = {rec(at) : at \in Ats}
  BY DEF Records
<1>7. IsFiniteSet(Records(tile))
  <2>1. f \in Surjection(Ats, Records(tile))
    BY <1>6 DEF Surjection
  <2>2. QED
    BY <1>5, <2>1, FS_Surjection
<1>8. ASSUME NEW r \in Records(tile)
      PROVE  /\ r \in [tile : {k}, cand : Int, key : Cell \cup {NoCell}]
             /\ OutlierBefore(r) \/ r.key = OwnCell(r)
  <2>1. PICK p \in I, q \in F :
            /\ IndexIn(p, I) = IndexIn(q, F)
            /\ r = [tile |-> k, cand |-> p, key |-> SceneKey(tile[q])]
    <3>1. PICK at \in Ats : r = rec(at)
      BY <1>6, <1>8
    <3>2. QED
      BY <3>1
  <2>2. /\ p \in 1 .. n /\ q \in 1 .. n /\ p \in F
        /\ tile[q] \in Candidate
    BY <1>1, <1>3
  <2>3. r \in [tile : {k}, cand : Int, key : Cell \cup {NoCell}]
    BY <2>1, <2>2, SceneKeyType
  <2>4. CASE \E x \in F : x < p /\ x \notin I
    <3>1. PICK x \in F : x < p /\ x \notin I
      BY <2>4
    <3>2. x \in 1 .. p - 1
      BY <1>3, <2>2, <3>1
    <3>3. tile[x].finite /\ ~tile[x].inlier
      BY <3>1 DEF FinitePositions, InlierPositions
    <3>4. r.tile = k /\ r.cand = p
      BY <2>1
    <3>5. OutlierBefore(r)
      BY <3>2, <3>3, <3>4 DEF OutlierBefore
    <3>6. QED
      BY <2>3, <3>5
  <2>5. CASE \A x \in F : x < p => x \in I
    <3>1. IndexIn(p, I) = IndexIn(p, F)
      <4>1. {x \in I : x < p} = {x \in F : x < p}
        BY <1>3, <2>5
      <4>2. QED
        BY <4>1 DEF IndexIn
    <3>2. p = q
      <4>1. F \in SUBSET Int
        BY <1>3
      <4>2. QED
        BY <1>4, <2>1, <2>2, <3>1, <4>1, SameIndex
    <3>3. r.key = OwnCell(r)
      BY <2>1, <3>2 DEF OwnCell
    <3>4. QED
      BY <2>3, <3>3
  <2>6. QED
    BY <2>4, <2>5
<1>9. QED
  BY <1>7, <1>8

-------------------------------------------------------------------------------
(* SpatialReliability: each part is preserved by every step *)

LEMMA SpatialInitInv == Init => SpatialInv
<1> SUFFICES ASSUME Init PROVE SpatialInv
  OBVIOUS
<1> USE DEF Init
<1>1. SpatialTypeOK
  BY FS_EmptySet DEF SpatialTypeOK
<1>2. RecordsInOwnCells /\ PhaseOK
  BY DEF RecordsInOwnCells, PhaseOK
<1>3. FillOK /\ Closed(region)
  BY DEF FillOK, Closed
<1>4. SelectedInRegion /\ CapKeepsTheFirst
  BY DEF SelectedInRegion, CapKeepsTheFirst
<1>5. QED
  BY <1>1, <1>2, <1>3, <1>4 DEF SpatialInv

LEMMA SpatialTypeStep ==
  ASSUME SpatialTypeOK, PhaseOK, [Next]_vars
  PROVE  SpatialTypeOK'
<1> USE DEF SpatialTypeOK
<1>1. CASE UseTile
  <2>1. k \in DOMAIN tiles
    BY <1>1 DEF UseTile, MoreTiles
  <2>2. IsFiniteSet(records')
    BY <1>1, <2>1, RecordsOfTile, FS_Union DEF UseTile
  <2>3. Records(tiles[k]) \subseteq [tile : DOMAIN tiles, cand : Int,
                                     key : Cell \cup {NoCell}]
    BY <2>1, RecordsOfTile
  <2>4. QED
    BY <1>1, <2>2, <2>3 DEF UseTile, label_vars
<1>2. CASE FailTile \/ RunLate \/ RefuseAll
  BY <1>2 DEF FailTile, RunLate, RefuseAll, tile_vars, label_vars
<1>3. CASE Aggregate
  <2>1. /\ stack = {} /\ cells_local = {} /\ components = {} /\ region = {}
    BY <1>3 DEF Aggregate, TilesDone, PhaseOK
  <2>2. reliable' \in SUBSET Cell
    BY <1>3 DEF Aggregate, ReliableCells
  <2>3. QED
    BY <1>3, <2>1, <2>2 DEF Aggregate, tile_vars, label_vars
<1>4. CASE StartComponent
  BY <1>4 DEF StartComponent, tile_vars
<1>5. ASSUME NEW c \in stack, Visit(c) PROVE SpatialTypeOK'
  BY <1>5 DEF Visit, tile_vars
<1>6. CASE FinishComponent
  BY <1>6 DEF FinishComponent, tile_vars
<1>7. CASE EndLabels
  BY <1>7 DEF EndLabels, tile_vars, label_vars
<1>8. ASSUME NEW p \in Remaining, TakeComponent(p) PROVE SpatialTypeOK'
  <2>1. p \in SUBSET reliable
    BY <1>8 DEF Remaining, EligibleComponents
  <2>2. QED
    BY <1>8, <2>1 DEF TakeComponent, tile_vars, label_vars
<1>9. CASE Decide
  BY <1>9 DEF Decide, tile_vars, label_vars
<1>10. CASE UNCHANGED vars
  BY <1>10 DEF vars, tile_vars, label_vars
<1>11. QED
  BY <1>1, <1>2, <1>3, <1>4, <1>5, <1>6, <1>7, <1>8, <1>9, <1>10 DEF Next

LEMMA RecordsStep ==
  ASSUME SpatialTypeOK, RecordsInOwnCells, [Next]_vars
  PROVE  RecordsInOwnCells'
<1>1. tiles' = tiles
  BY DEF Next, UseTile, FailTile, RunLate, RefuseAll, Aggregate,
         StartComponent, Visit, FinishComponent, EndLabels, TakeComponent,
         Decide, vars, tile_vars
<1>2. \A r : /\ OutlierBefore(r)' <=> OutlierBefore(r)
             /\ OwnCell(r)' = OwnCell(r)
  BY <1>1 DEF OutlierBefore, OwnCell
<1>3. CASE UseTile
  <2>1. \A r \in Records(tiles[k]) : OutlierBefore(r) \/ r.key = OwnCell(r)
    BY <1>3, RecordsOfTile DEF UseTile, MoreTiles, SpatialTypeOK
  <2>2. QED
    BY <1>2, <1>3, <2>1 DEF UseTile, RecordsInOwnCells
<1>4. CASE ~UseTile
  <2>1. records' = records
    BY <1>4 DEF Next, FailTile, RunLate, RefuseAll, Aggregate,
                StartComponent, Visit, FinishComponent, EndLabels,
                TakeComponent, Decide, vars, tile_vars
  <2>2. QED
    BY <1>2, <2>1 DEF RecordsInOwnCells
<1>5. QED
  BY <1>3, <1>4

LEMMA PhaseStep ==
  ASSUME PhaseOK, [Next]_vars
  PROVE  PhaseOK'
<1> USE DEF PhaseOK
<1>1. CASE UseTile \/ FailTile \/ RunLate
  BY <1>1 DEF UseTile, FailTile, RunLate, MoreTiles, label_vars
<1>2. CASE RefuseAll \/ Aggregate
  BY <1>2 DEF RefuseAll, Aggregate, TilesDone, label_vars
<1>3. CASE StartComponent
  BY <1>3 DEF StartComponent
<1>4. ASSUME NEW c \in stack, Visit(c) PROVE PhaseOK'
  BY <1>4 DEF Visit
<1>5. CASE FinishComponent
  BY <1>5 DEF FinishComponent
<1>6. CASE EndLabels
  BY <1>6 DEF EndLabels, visited, label_vars
<1>7. ASSUME NEW p \in Remaining, TakeComponent(p) PROVE PhaseOK'
  BY <1>7 DEF TakeComponent, label_vars
<1>8. CASE Decide
  BY <1>8 DEF Decide, label_vars
<1>9. CASE UNCHANGED vars
  BY <1>9 DEF vars, label_vars
<1>10. QED
  BY <1>1, <1>2, <1>3, <1>4, <1>5, <1>6, <1>7, <1>8, <1>9 DEF Next

LEMMA FillStep ==
  ASSUME SpatialTypeOK, PhaseOK, FillOK, [Next]_vars
  PROVE  FillOK'
<1> DEFINE seen == stack \cup cells_local
<1>1. CASE Aggregate
  <2>1. /\ stack' = {} /\ cells_local' = {} /\ components' = {}
    BY <1>1 DEF Aggregate, TilesDone, PhaseOK, label_vars
  <2>2. QED
    BY <2>1 DEF FillOK
<1>2. ASSUME ~Aggregate PROVE reliable' = reliable
  BY <1>2 DEF Next, UseTile, FailTile, RunLate, RefuseAll, StartComponent,
              Visit, FinishComponent, EndLabels, TakeComponent, Decide, vars
<1>3. ASSUME ~Aggregate PROVE \A c : ConnectedTo(c)' = ConnectedTo(c)
  BY <1>2, <1>3 DEF ConnectedTo, Closed
<1>4. ASSUME ~Aggregate, UNCHANGED <<stack, cells_local, components>>
      PROVE  FillOK'
  BY <1>2, <1>3, <1>4 DEF FillOK
<1>5. CASE StartComponent /\ ~Aggregate
  <2>1. PICK c \in reliable \ visited : stack' = {c}
    BY <1>5 DEF StartComponent
  <2>2. cells_local = {} /\ cells_local' = {} /\ components' = components
    BY <1>5 DEF StartComponent
  <2>3. c \in ConnectedTo(c)
    BY <2>1, ConnectedCells
  <2>4. \A p \in components : c \notin p
    BY <2>1 DEF visited
  <2>5. QED
    BY <1>2, <1>3, <1>5, <2>1, <2>2, <2>3, <2>4 DEF FillOK
<1>6. ASSUME NEW c \in stack, Visit(c), ~Aggregate PROVE FillOK'
  <2> DEFINE N == {d \in reliable \ visited : Adjacent(c, d)}
             seenNext == stack' \cup cells_local'
  <2>1. /\ stack' = (stack \ {c}) \cup N
        /\ cells_local' = cells_local \cup {c}
        /\ components' = components
    BY <1>6 DEF Visit
  <2>2. seenNext = seen \cup N
    BY <2>1
  <2>3. PICK s \in seen : seen \subseteq ConnectedTo(s)
    BY <1>6 DEF FillOK
  <2>4. s \in reliable /\ c \in ConnectedTo(s)
    BY <2>3 DEF SpatialTypeOK
  <2>5. seenNext \subseteq ConnectedTo(s)
    BY <2>2, <2>3, <2>4, ConnectedCells DEF Closed
  <2>6. ASSUME NEW d \in reliable, Adjacent(c, d) PROVE d \in seenNext
    <3>1. ASSUME NEW p \in components, d \in p PROVE FALSE
      <4>1. PICK e \in reliable : p = ConnectedTo(e)
        BY <3>1 DEF FillOK
      <4>2. Adjacent(d, c)
        BY <2>6, AdjacentBothWays DEF SpatialTypeOK
      <4>3. c \in reliable
        BY DEF SpatialTypeOK
      <4>4. c \in p
        BY <3>1, <4>1, <4>2, <4>3, ConnectedCells DEF Closed
      <4>5. QED
        BY <3>1, <4>4 DEF FillOK
    <3>2. CASE d \in visited
      <4>1. d \notin UNION components
        BY <3>1
      <4>2. d \in seen
        BY <3>2, <4>1 DEF visited
      <4>3. QED
        BY <2>2, <4>2
    <3>3. CASE d \notin visited
      BY <2>2, <2>6, <3>3
    <3>4. QED
      BY <3>2, <3>3
  <2>7. \A x \in cells_local', d \in reliable : Adjacent(x, d) => d \in seenNext
    BY <2>1, <2>2, <2>6 DEF FillOK
  <2>8. \A p \in components : p \cap seenNext = {}
    BY <2>2 DEF FillOK, visited
  <2> HIDE DEF seenNext, N
  <2>9. /\ \A p \in components' : \E e \in reliable' : p = ConnectedTo(e)'
        /\ \A x \in cells_local', d \in reliable' :
              Adjacent(x, d) => d \in seenNext
        /\ seenNext # {} => \E e \in seenNext : seenNext \subseteq ConnectedTo(e)'
        /\ \A p \in components' : p \cap seenNext = {}
    <3>1. s \in seenNext
      BY <2>2, <2>3
    <3>2. QED
      BY <1>2, <1>3, <1>6, <2>1, <2>5, <2>7, <2>8, <3>1 DEF FillOK
  <2>10. QED
    BY <2>9 DEF FillOK, seenNext, Adjacent
<1>7. CASE FinishComponent /\ ~Aggregate
  <2>1. /\ stack = {} /\ cells_local # {} /\ stack' = {} /\ cells_local' = {}
        /\ components' = components \cup {cells_local}
    BY <1>7 DEF FinishComponent
  <2>2. PICK s \in cells_local : cells_local \subseteq ConnectedTo(s)
    BY <2>1 DEF FillOK
  <2>3. Closed(cells_local) /\ cells_local \in SUBSET reliable
    BY <2>1 DEF FillOK, Closed, SpatialTypeOK
  <2>4. cells_local = ConnectedTo(s) /\ s \in reliable
    BY <2>2, <2>3, ConnectedLeast
  <2>5. \A p \in components' : \E e \in reliable : p = ConnectedTo(e)
    BY <2>1, <2>4 DEF FillOK
  <2>6. QED
    BY <1>2, <1>3, <1>7, <2>1, <2>5 DEF FillOK
<1>8. CASE UseTile \/ FailTile \/ RunLate \/ RefuseAll \/ EndLabels \/ Decide
  <2>1. UNCHANGED <<stack, cells_local, components>>
    BY <1>8 DEF UseTile, FailTile, RunLate, RefuseAll, EndLabels, Decide,
                label_vars
  <2>2. QED
    BY <1>1, <1>4, <2>1
<1>9. ASSUME NEW p \in Remaining, TakeComponent(p) PROVE FillOK'
  BY <1>1, <1>4, <1>9 DEF TakeComponent, label_vars
<1>10. CASE UNCHANGED vars
  BY <1>1, <1>4, <1>10 DEF vars, label_vars
<1>11. QED
  BY <1>1, <1>5, <1>6, <1>7, <1>8, <1>9, <1>10 DEF Next
-------------------------------------------------------------------------------
(* SpatialReliability: the region and the cap *)

\* A component is closed, so a union of components is.
LEMMA RegionStep ==
  ASSUME SpatialTypeOK, PhaseOK, FillOK, Closed(region), [Next]_vars
  PROVE  Closed(region)'
<1>1. CASE UseTile \/ FailTile \/ RunLate \/ RefuseAll \/ EndLabels
           \/ StartComponent \/ FinishComponent \/ \E c \in stack : Visit(c)
  BY <1>1 DEF UseTile, FailTile, RunLate, RefuseAll, EndLabels, StartComponent,
              FinishComponent, Visit, Closed
<1>2. CASE Aggregate
  <2>1. region' = {}
    BY <1>2 DEF Aggregate, TilesDone, PhaseOK
  <2>2. QED
    BY <2>1 DEF Closed
<1>3. ASSUME NEW p \in Remaining, TakeComponent(p) PROVE Closed(region)'
  <2>1. PICK c \in reliable : p = ConnectedTo(c)
    BY <1>3 DEF Remaining, EligibleComponents, FillOK
  <2>2. Closed(p)
    BY <2>1, ConnectedCells
  <2>3. region' = region \cup p /\ reliable' = reliable
    BY <1>3 DEF TakeComponent
  <2>4. QED
    BY <2>2, <2>3 DEF Closed
<1>4. CASE Decide
  BY <1>4 DEF Decide, Closed
<1>5. CASE UNCHANGED vars
  BY <1>5 DEF vars, Closed
<1>6. QED
  BY <1>1, <1>2, <1>3, <1>4, <1>5 DEF Next

\* The records of a region, in the order of the cap.
LEMMA SelectedBeforeIsStrict ==
  ASSUME NEW E, NEW T \in SUBSET Int,
         E \subseteq [tile : T, cand : Int, key : Cell]
  PROVE  StrictOrder({at \in E \X E : SelectedBefore(at[1], at[2])}, E)
<1> DEFINE R == {at \in E \X E : SelectedBefore(at[1], at[2])}
<1>1. \A r, s \in E : <<r, s>> \in R <=> SelectedBefore(r, s)
  OBVIOUS
<1>2. ASSUME NEW r \in E
      PROVE  /\ r.tile \in Int /\ r.cand \in Int
             /\ r.key[1] \in Int /\ r.key[2] \in Int
             /\ r.key = <<r.key[1], r.key[2]>>
             /\ r = [tile |-> r.tile, cand |-> r.cand, key |-> r.key]
  <2>1. r \in [tile : T, cand : Int, key : Cell]
    BY <1>2
  <2>2. r.tile \in Int /\ r.cand \in Int /\ r.key \in Cell
    BY <2>1
  <2>3. r = [tile |-> r.tile, cand |-> r.cand, key |-> r.key]
    BY <2>1
  <2>4. /\ r.key[1] \in Int /\ r.key[2] \in Int
        /\ r.key = <<r.key[1], r.key[2]>>
    BY <2>2, GridAssumption DEF Cell
  <2>5. QED
    BY <2>2, <2>3, <2>4
<1> HIDE DEF R
<1>3. \A r \in E : <<r, r>> \notin R
  BY <1>1, <1>2 DEF SelectedBefore, RowMajor
<1>4. ASSUME NEW r \in E, NEW s \in E, NEW t \in E,
             <<r, s>> \in R, <<s, t>> \in R
      PROVE  <<r, t>> \in R
  <2>1. SelectedBefore(r, s) /\ SelectedBefore(s, t)
    BY <1>1, <1>4
  <2>2. SelectedBefore(r, t)
    BY <1>2, <2>1 DEF SelectedBefore, RowMajor
  <2>3. QED
    BY <1>1, <2>2
<1>5. ASSUME NEW r \in E, NEW s \in E, r # s
      PROVE  <<r, s>> \in R \/ <<s, r>> \in R
  <2>1. r.key # s.key \/ r.tile # s.tile \/ r.cand # s.cand
    BY <1>2, <1>5
  <2>2. r.key # s.key => RowMajor(r.key, s.key) \/ RowMajor(s.key, r.key)
    BY <1>2 DEF RowMajor
  <2>3. SelectedBefore(r, s) \/ SelectedBefore(s, r)
    BY <1>2, <2>1, <2>2 DEF SelectedBefore
  <2>4. QED
    BY <1>1, <2>3
<1>6. QED
  BY <1>3, <1>4, <1>5 DEF StrictOrder, R

\* What Decide writes: of the region's records the first, up to the cap, are
\* selected, and the others of the region get LIMIT.
LEMMA DecideReasons ==
  ASSUME SpatialTypeOK, Decide,
         NEW eligible, eligible = {r \in records : r.key \in region'}
  PROVE  /\ DOMAIN primary' = records
         /\ \A r \in records : r.key \in region' => r \in eligible
         /\ Selected' = {r \in eligible : Kept(r, eligible)}
         /\ \A r \in records : primary'[r] = "LIMIT" <=>
                r \in eligible /\ ~Kept(r, eligible)
<1>1. primary' = [r \in records |-> Reason(r, region')]
  BY DEF Decide
<1>2. \A r \in eligible : r.key # NoCell
  <2>1. region' \subseteq Cell
    BY DEF Decide, SpatialTypeOK
  <2>2. QED
    BY <2>1, GridAssumption
<1>3. ASSUME NEW r \in records
      PROVE  /\ Reason(r, region') = "SUPPORTED_REGION" <=>
                    r \in eligible /\ Kept(r, eligible)
             /\ Reason(r, region') = "LIMIT" <=>
                    r \in eligible /\ ~Kept(r, eligible)
  <2>1. CASE r.key = NoCell
    <3>1. Reason(r, region') = "NOT_MAPPABLE" /\ r \notin eligible
      BY <1>2, <2>1 DEF Reason
    <3>2. QED
      BY <3>1
  <2>2. CASE r.key # NoCell /\ r \in eligible
    <3>1. Reason(r, region') = IF Kept(r, eligible) THEN "SUPPORTED_REGION"
                               ELSE "LIMIT"
      BY <2>2 DEF Reason
    <3>2. QED
      BY <2>2, <3>1
  <2>3. CASE r.key # NoCell /\ r \notin eligible
    <3>1. Reason(r, region') \in {"OUTSIDE_SELECTED_REGION",
                                  "LOW_SPATIAL_SUPPORT"}
      BY <2>3 DEF Reason
    <3>2. QED
      BY <2>3, <3>1
  <2>4. QED
    BY <2>1, <2>2, <2>3
<1>4. \A r \in records : primary'[r] = Reason(r, region')
  BY <1>1
<1>5. Selected' = {r \in records : primary'[r] = "SUPPORTED_REGION"}
  BY <1>1 DEF Selected
<1>6. QED
  BY <1>1, <1>3, <1>4, <1>5

LEMMA DecideCap ==
  ASSUME SpatialTypeOK, Decide
  PROVE  CapKeepsTheFirst'
<1> DEFINE eligible == {r \in records : r.key \in region'}
           R == {at \in eligible \X eligible : SelectedBefore(at[1], at[2])}
           cap == max_selected_correspondences
<1>1. IsFiniteSet(eligible)
  BY FS_Subset DEF SpatialTypeOK
<1>2. StrictOrder(R, eligible)
  <2>1. DOMAIN tiles \in SUBSET Int
    BY DEF SpatialTypeOK
  <2>2. region' \subseteq Cell
    BY DEF Decide, SpatialTypeOK
  <2>3. eligible \subseteq [tile : DOMAIN tiles, cand : Int, key : Cell]
    BY <2>2 DEF SpatialTypeOK
  <2>4. QED
    BY <2>1, <2>3, SelectedBeforeIsStrict
<1>3. \A r \in eligible : Ahead(r, R, eligible)
                            = {s \in eligible : SelectedBefore(s, r)}
  BY DEF Ahead
<1>4. {r \in eligible : Kept(r, eligible)}
        = {r \in eligible : Cardinality(Ahead(r, R, eligible)) < cap}
  BY <1>3 DEF Kept
<1>5. /\ DOMAIN primary' = records
      /\ Selected' = {r \in eligible : Kept(r, eligible)}
      /\ \A r \in records : primary'[r] = "LIMIT" <=>
             r \in eligible /\ ~Kept(r, eligible)
  BY DecideReasons
<1>6. \A r, s \in eligible : <<r, s>> \in R <=> SelectedBefore(r, s)
  OBVIOUS
<1>7. cap \in Nat /\ Cardinality(eligible) \in Nat
  BY <1>1, FS_CardinalityType, CapAssumption
<1> HIDE DEF R
<1>8. /\ Cardinality(Selected') = IF Cardinality(eligible) < cap
                                  THEN Cardinality(eligible) ELSE cap
      /\ \A r \in Selected', s \in eligible \ Selected' : <<r, s>> \in R
  <2> DEFINE first == {r \in eligible : Cardinality(Ahead(r, R, eligible)) < cap}
  <2>1. Selected' = first
    BY <1>4, <1>5
  <2> HIDE DEF eligible
  <2>2. /\ Cardinality(first) = IF Cardinality(eligible) < cap
                                THEN Cardinality(eligible) ELSE cap
        /\ \A r \in first, s \in eligible \ first : <<r, s>> \in R
    BY <1>1, <1>2, <1>7, FirstN
  <2>3. QED
    BY <2>1, <2>2
<1>9. records' = records /\ eligible = {r \in records' : r.key \in region'}
  BY DEF Decide, tile_vars
<1> HIDE DEF eligible
<1>10. /\ Selected' \subseteq eligible
       /\ \A r \in DOMAIN primary' :
              primary'[r] = "LIMIT" <=> r \in eligible \ Selected'
       /\ \A r \in Selected', s \in eligible \ Selected' : SelectedBefore(r, s)
  <2>1. Selected' \subseteq eligible
    BY <1>5
  <2>2. eligible \subseteq records
    BY DEF eligible
  <2>3. QED
    BY <1>5, <1>6, <1>8, <2>1, <2>2
<1>11. QED
  BY <1>8, <1>9, <1>10 DEF CapKeepsTheFirst, SelectedBefore, RowMajor

LEMMA DecideRegion ==
  ASSUME SpatialTypeOK, RecordsInOwnCells, Closed(region), Decide
  PROVE  SelectedInRegion'
<1>1. /\ tiles' = tiles /\ reliable' = reliable /\ region' \subseteq region
      /\ region' = region \/ region' = {}
  BY DEF Decide, tile_vars
<1>2. \A r \in Selected' : r \in records /\ r.key \in region'
  <2> DEFINE eligible == {r \in records : r.key \in region'}
  <2>1. Selected' = {r \in eligible : Kept(r, eligible)}
    BY DecideReasons
  <2>2. QED
    BY <2>1
<1>3. ASSUME NEW r \in Selected'
      PROVE  OutlierBefore(r)' \/ OwnCell(r)' \in region'
  <2>1. OutlierBefore(r) \/ OwnCell(r) \in region'
    BY <1>2, <1>3 DEF RecordsInOwnCells
  <2>2. QED
    BY <1>1, <2>1 DEF OutlierBefore, OwnCell
<1>4. \A c \in region', d \in reliable' \ region' : ~Adjacent(c, d)
  BY <1>1 DEF Closed
<1>5. QED
  BY <1>3, <1>4 DEF SelectedInRegion, Adjacent

\* Nothing changes once the reasons are written.
LEMMA DecidedStep ==
  ASSUME SelectedInRegion, CapKeepsTheFirst, [Next]_vars, ~Decide
  PROVE  SelectedInRegion' /\ CapKeepsTheFirst'
<1>1. CASE pc' # "decided"
  BY <1>1 DEF SelectedInRegion, CapKeepsTheFirst
<1>2. CASE pc' = "decided"
  <2>1. UNCHANGED vars
    BY <1>2 DEF Next, UseTile, FailTile, RunLate, MoreTiles, RefuseAll,
                TilesDone, Aggregate, StartComponent, Visit, FinishComponent,
                EndLabels, TakeComponent
  <2>2. UNCHANGED <<tiles, records, reliable, region, primary, pc>>
    BY <2>1 DEF vars, tile_vars
  <2>3. SelectedInRegion'
    BY <2>2 DEF SelectedInRegion, Selected, OwnCell, OutlierBefore, Adjacent
  <2>4. CapKeepsTheFirst'
    BY <2>2 DEF CapKeepsTheFirst, Selected, SelectedBefore, RowMajor
  <2>5. QED
    BY <2>3, <2>4
<1>3. QED
  BY <1>1, <1>2

\* The inductive invariant holds in every behavior.
THEOREM SpatialInvariant == Spec => []SpatialInv
<1>1. SpatialInv /\ [Next]_vars => SpatialInv'
  <2> SUFFICES ASSUME SpatialInv, [Next]_vars PROVE SpatialInv'
    OBVIOUS
  <2>1. SpatialTypeOK' /\ RecordsInOwnCells' /\ PhaseOK' /\ FillOK'
        /\ Closed(region)'
    BY SpatialTypeStep, RecordsStep, PhaseStep, FillStep, RegionStep
       DEF SpatialInv
  <2>2. SelectedInRegion' /\ CapKeepsTheFirst'
    BY DecideRegion, DecideCap, DecidedStep DEF SpatialInv
  <2>3. QED
    BY <2>1, <2>2 DEF SpatialInv
<1>2. QED
  BY <1>1, SpatialInitInv, PTL DEF Spec

\* SPATIAL selects in the supported region and nowhere else, but for
\* correspondences behind an outlier of their tile, and the region is whole
\* components: for every grid, connectivity and threshold, every candidate and
\* every choice of tiles that fail.
THEOREM SelectionInRegion == Spec => []SelectedInRegion
<1>1. SpatialInv => SelectedInRegion
  BY DEF SpatialInv
<1>2. QED
  BY <1>1, SpatialInvariant, PTL

\* The cap keeps exactly the first max_selected_correspondences of the region.
THEOREM CapIsExact == Spec => []CapKeepsTheFirst
<1>1. SpatialInv => CapKeepsTheFirst
  BY DEF SpatialInv
<1>2. QED
  BY <1>1, SpatialInvariant, PTL

\* The flood fill finds the connected components, in whatever order it pops.
THEOREM FloodFillCorrect == Spec => []LabelsAreComponents
<1>1. SpatialInv => LabelsAreComponents
  <2> SUFFICES ASSUME SpatialInv, pc \in {"plan", "decided"}
               PROVE  components = {ConnectedTo(c) : c \in reliable}
    BY DEF LabelsAreComponents
  <2>1. \A p \in components : \E c \in reliable : p = ConnectedTo(c)
    BY DEF SpatialInv, FillOK
  <2>2. ASSUME NEW c \in reliable PROVE ConnectedTo(c) \in components
    <3>1. PICK p \in components : c \in p
      BY DEF SpatialInv, PhaseOK
    <3>2. PICK s \in reliable : p = ConnectedTo(s)
      BY <2>1
    <3>3. ConnectedTo(c) = p
      BY <3>1, <3>2, ConnectedSame DEF SpatialInv, SpatialTypeOK
    <3>4. QED
      BY <3>3
  <2>3. QED
    BY <2>1, <2>2
<1>2. QED
  BY <1>1, SpatialInvariant, PTL
-------------------------------------------------------------------------------
(* BalancedSelection: the inductive invariant *)

SelOf(t) == UNION {FirstOf(c, t[c]) : c \in Occupied}
Length(cell) == Cardinality(InCell(cell))
More(cell) == taken[cell] < Length(cell)

M8TypeOK ==
    /\ corr \in UNION {[1 .. n -> Mapping] : n \in 0 .. MaxCorrespondences}
    /\ entries \in SUBSET InlierPlaces(corr)
    /\ step \notin {"verify", "recover", "blocked"} =>
          entries = InlierPlaces(corr)
    /\ step \in {"verify", "recover", "blocked", "select"} => served = {}

\* The budget is what is missing of the limit, and is enough for nothing more
\* than there is.
BudgetOK ==
    step \in {"least", "rounds"} =>
        /\ Cardinality(entries) > limit
        /\ budget \in Nat
        /\ taken \in [Occupied -> Nat]
        /\ \A c \in Occupied : taken[c] <= Length(c)
        /\ Cardinality(SelOf(taken)) = limit - budget
        /\ served \subseteq Occupied

\* No cell has more than its guaranteed minimum; the cells served have it.
LeastOK ==
    step = "least" =>
        /\ \A c \in Occupied : taken[c] <= min_per_occupied_cell
        /\ \A c \in Occupied \ served : taken[c] = 0
        /\ budget > 0 => \A c \in served : More(c) =>
                             taken[c] = min_per_occupied_cell

\* A cell with more is at most one behind a cell that this round has come to,
\* and one ahead of those it has yet to come to once it has come to it.
Turns ==
    /\ \A d \in Occupied : More(d) => taken[d] >= min_per_occupied_cell
    /\ \A c, d \in Occupied : More(d) =>
          /\ c \in served /\ d \notin served => taken[c] <= taken[d] + 1
          /\ c \notin served /\ d \in served => taken[c] < taken[d]
          /\ (c \in served <=> d \in served) => taken[c] <= taken[d]

RoundsOK ==
    step = "rounds" =>
        /\ \/ Turns
           \/ budget = 0 /\ \A c \in Occupied : taken[c] <= min_per_occupied_cell
        /\ ~progressed => \A c \in served : ~More(c)

M8Inv ==
    /\ M8TypeOK /\ BudgetOK /\ LeastOK /\ RoundsOK
    /\ SelectsBestRoundTheCells
-------------------------------------------------------------------------------
(* Places in the list *)

LEMMA LimitType == limit \in Nat \ {0}
BY SelectionAssumption DEF limit, AtLeast

LEMMA ListType ==
  ASSUME M8TypeOK
  PROVE  /\ \A i \in DOMAIN corr : i \in Nat /\ corr[i] \in Mapping
         /\ IsFiniteSet(DOMAIN corr)
         /\ entries \subseteq DOMAIN corr /\ IsFiniteSet(entries)
<1>1. PICK n \in 0 .. MaxCorrespondences : corr \in [1 .. n -> Mapping]
  BY DEF M8TypeOK
<1>2. n \in Nat
  BY SelectionAssumption
<1>3. IsFiniteSet(DOMAIN corr)
  BY <1>1, <1>2, FS_Interval
<1>4. entries \subseteq DOMAIN corr
  BY DEF M8TypeOK, InlierPlaces, FirstPlaces
<1>5. \A i \in DOMAIN corr : i \in Nat /\ corr[i] \in Mapping
  BY <1>1, <1>2
<1>6. IsFiniteSet(entries)
  BY <1>3, <1>4, FS_Subset
<1>7. QED
  BY <1>3, <1>4, <1>5, <1>6

\* A finite set of natural numbers has a least one: the one of rank 0.
LEMMA LeastPlace ==
  ASSUME NEW P \in SUBSET Nat, IsFiniteSet(P), P # {}
  PROVE  \E i \in P : \A j \in P : i <= j
<1> DEFINE R == {at \in P \X P : at[1] < at[2]}
           rank == [x \in P |-> Cardinality(Ahead(x, R, P))]
<1>1. StrictOrder(R, P)
  BY DEF StrictOrder
<1>2. Cardinality(P) \in Nat /\ Cardinality(P) # 0
  BY FS_CardinalityType, FS_EmptySet
<1>3. PICK i \in P : rank[i] = 0
  <2>1. rank \in Bijection(P, 0 .. Cardinality(P) - 1)
    BY <1>1, Ranks
  <2> HIDE DEF rank
  <2>2. 0 \in 0 .. Cardinality(P) - 1
    BY <1>2
  <2>3. QED
    BY <2>1, <2>2 DEF Bijection, Surjection
<1>4. Ahead(i, R, P) = {}
  <2>1. Cardinality(Ahead(i, R, P)) = 0
    BY <1>3
  <2>2. IsFiniteSet(Ahead(i, R, P))
    BY FS_Subset DEF Ahead
  <2>3. QED
    BY <2>1, <2>2, FS_EmptySet
<1>5. \A j \in P : ~(j < i)
  BY <1>4 DEF Ahead
<1>6. QED
  BY <1>5

\* Every mapping of the list is at exactly one first place.
LEMMA PlacesOfMappings ==
  ASSUME M8TypeOK
  PROVE  /\ \A i, j \in FirstPlaces(corr) : corr[i] = corr[j] => i = j
         /\ {m \in {corr[i] : i \in DOMAIN corr} : IsInlier(m)}
              = {corr[i] : i \in InlierPlaces(corr)}
<1>1. \A i \in DOMAIN corr : i \in Nat
  BY ListType
<1>2. \A i, j \in FirstPlaces(corr) : corr[i] = corr[j] => i = j
  BY <1>1 DEF FirstPlaces
<1>3. ASSUME NEW i \in DOMAIN corr, IsInlier(corr[i])
      PROVE  \E j \in InlierPlaces(corr) : corr[j] = corr[i]
  <2> DEFINE P == {j \in DOMAIN corr : corr[j] = corr[i]}
  <2>1. P \in SUBSET Nat /\ P # {} /\ IsFiniteSet(P)
    BY <1>1, ListType, FS_Subset
  <2>2. PICK j \in P : \A x \in P : j <= x
    BY <2>1, LeastPlace
  <2>3. j \in InlierPlaces(corr)
    BY <1>3, <2>2 DEF InlierPlaces, FirstPlaces
  <2>4. QED
    BY <2>2, <2>3
<1>4. InlierPlaces(corr) \subseteq DOMAIN corr
      /\ \A i \in InlierPlaces(corr) : IsInlier(corr[i])
  BY DEF InlierPlaces, FirstPlaces
<1>5. QED
  BY <1>2, <1>3, <1>4

\* Different inlier places hold different mappings: sets of them count alike.
LEMMA MappingsOfPlaces ==
  ASSUME M8TypeOK, NEW X \in SUBSET InlierPlaces(corr)
  PROVE  /\ IsFiniteSet(X)
         /\ Cardinality({corr[i] : i \in X}) = Cardinality(X)
<1> DEFINE Y == {corr[i] : i \in X}
           f == [i \in X |-> corr[i]]
<1>1. X \subseteq DOMAIN corr /\ X \subseteq FirstPlaces(corr)
  BY DEF InlierPlaces, FirstPlaces
<1>2. IsFiniteSet(X)
  BY <1>1, ListType, FS_Subset
<1>3. f \in Injection(X, Y)
  <2>1. \A i, j \in X : f[i] = f[j] => i = j
    BY <1>1, PlacesOfMappings
  <2>2. QED
    BY <2>1 DEF Injection, IsInjective
<1>4. f \in Surjection(X, Y)
  BY DEF Surjection
<1>5. ExistsBijection(X, Y)
  BY <1>3, <1>4 DEF ExistsBijection, Bijection
<1>6. QED
  BY <1>2, <1>5, FS_Bijection

-------------------------------------------------------------------------------
(* The lists of the cells *)

LEMMA BeforeIsStrict ==
  ASSUME M8TypeOK, NEW S \in SUBSET entries
  PROVE  StrictOrder({at \in S \X S : Before(at[1], at[2])}, S)
<1> DEFINE R == {at \in S \X S : Before(at[1], at[2])}
<1>1. \A i, j \in S : <<i, j>> \in R <=> Before(i, j)
  OBVIOUS
<1>2. \A i \in S : i \in Nat /\ ResidualOf[corr[i]] \in Nat
  BY ListType, MappingAssumption
<1> HIDE DEF R
<1>3. QED
  BY <1>1, <1>2 DEF StrictOrder, Before

\* The first n of a cell's list are n, and none of the others is before them.
LEMMA FirstOfCell ==
  ASSUME M8TypeOK, NEW cell, NEW n \in Nat
  PROVE  /\ Length(cell) \in Nat /\ IsFiniteSet(InCell(cell))
         /\ FirstOf(cell, n) \subseteq InCell(cell)
         /\ IsFiniteSet(FirstOf(cell, n))
         /\ Cardinality(FirstOf(cell, n)) = IF Length(cell) < n
                                            THEN Length(cell) ELSE n
         /\ \A i \in FirstOf(cell, n), j \in InCell(cell) \ FirstOf(cell, n) :
               Before(i, j)
<1> DEFINE S == InCell(cell)
           R == {at \in S \X S : Before(at[1], at[2])}
           first == {x \in S : Cardinality(Ahead(x, R, S)) < n}
<1>1. S \in SUBSET entries /\ IsFiniteSet(S)
  BY ListType, FS_Subset DEF InCell
<1>2. StrictOrder(R, S)
  BY <1>1, BeforeIsStrict
<1>3. \A x \in S : Ahead(x, R, S) = {y \in S : Before(y, x)}
  BY DEF Ahead
<1>4. FirstOf(cell, n) = first
  BY <1>3 DEF FirstOf
<1>5. \A i, j \in S : <<i, j>> \in R <=> Before(i, j)
  OBVIOUS
<1> HIDE DEF R, S
<1>6. /\ IsFiniteSet(first) /\ Cardinality(S) \in Nat
      /\ Cardinality(first) = IF Cardinality(S) < n THEN Cardinality(S) ELSE n
      /\ \A x \in first, y \in S \ first : <<x, y>> \in R
  BY <1>1, <1>2, FirstN
<1>7. \A i \in first, j \in S \ first : Before(i, j)
  BY <1>5, <1>6
<1>8. QED
  BY <1>1, <1>4, <1>6, <1>7 DEF Length, S

\* A list taken to its end is taken whole.
LEMMA WholeCell ==
  ASSUME M8TypeOK, NEW cell
  PROVE  FirstOf(cell, Length(cell)) = InCell(cell)
<1>1. Length(cell) \in Nat /\ IsFiniteSet(InCell(cell))
  BY FirstOfCell, 0 \in Nat
<1>2. /\ FirstOf(cell, Length(cell)) \subseteq InCell(cell)
      /\ Cardinality(FirstOf(cell, Length(cell))) = Cardinality(InCell(cell))
  BY <1>1, FirstOfCell DEF Length
<1>3. QED
  BY <1>1, <1>2, FS_Subset

\* An entry is in the list of one cell.
LEMMA CellsApart ==
  /\ \A c, d : c # d => InCell(c) \cap InCell(d) = {}
  /\ \A i \in entries : CellOf[corr[i]] \in Occupied
  /\ \A i \in entries : \A c : i \in InCell(c) <=> c = CellOf[corr[i]]
BY DEF InCell, Occupied

LEMMA SelectedPlaces ==
  ASSUME M8TypeOK, NEW t \in [Occupied -> Nat]
  PROVE  /\ SelOf(t) \subseteq entries /\ IsFiniteSet(SelOf(t))
         /\ \A c \in Occupied : SelOf(t) \cap InCell(c) = FirstOf(c, t[c])
<1>1. \A c \in Occupied : FirstOf(c, t[c]) \subseteq InCell(c)
  BY FirstOfCell
<1>2. \A c \in Occupied : InCell(c) \subseteq entries
  BY DEF InCell
<1>3. SelOf(t) \subseteq entries
  BY <1>1, <1>2 DEF SelOf
<1>4. \A c \in Occupied : SelOf(t) \cap InCell(c) = FirstOf(c, t[c])
  BY <1>1, CellsApart DEF SelOf
<1>5. QED
  BY <1>3, <1>4, ListType, FS_Subset

\* Taking n instead of t[cell] of one cell changes the count by that much.
LEMMA SelectedGrow ==
  ASSUME M8TypeOK, NEW t \in [Occupied -> Nat], NEW cell \in Occupied,
         NEW n \in Nat, n <= Length(cell), t[cell] <= Length(cell)
  PROVE  Cardinality(SelOf([t EXCEPT ![cell] = n]))
           = Cardinality(SelOf(t)) + n - t[cell]
<1> DEFINE u == [t EXCEPT ![cell] = n]
           rest == SelOf(t) \ InCell(cell)
<1>1. u \in [Occupied -> Nat] /\ u[cell] = n
      /\ \A c \in Occupied \ {cell} : u[c] = t[c]
  OBVIOUS
<1> HIDE DEF u
<1>2. IsFiniteSet(rest) /\ Cardinality(rest) \in Nat
  BY SelectedPlaces, FS_Difference, FS_CardinalityType
<1>3. SelOf(u) \ InCell(cell) = rest
  <2>1. \A c \in Occupied \ {cell} :
            /\ FirstOf(c, u[c]) = FirstOf(c, t[c])
            /\ FirstOf(c, t[c]) \cap InCell(cell) = {}
    BY <1>1, FirstOfCell, CellsApart
  <2>2. FirstOf(cell, u[cell]) \subseteq InCell(cell)
        /\ FirstOf(cell, t[cell]) \subseteq InCell(cell)
    BY <1>1, FirstOfCell
  <2>3. QED
    BY <2>1, <2>2 DEF SelOf
<1>4. /\ SelOf(t) = rest \cup FirstOf(cell, t[cell])
      /\ SelOf(u) = rest \cup FirstOf(cell, n)
  <2>1. /\ SelOf(t) \cap InCell(cell) = FirstOf(cell, t[cell])
        /\ SelOf(u) \cap InCell(cell) = FirstOf(cell, n)
    BY <1>1, SelectedPlaces
  <2>2. QED
    BY <1>3, <2>1
<1>5. /\ IsFiniteSet(FirstOf(cell, t[cell])) /\ IsFiniteSet(FirstOf(cell, n))
      /\ Cardinality(FirstOf(cell, t[cell])) = t[cell]
      /\ Cardinality(FirstOf(cell, n)) = n
      /\ FirstOf(cell, t[cell]) \subseteq InCell(cell)
      /\ FirstOf(cell, n) \subseteq InCell(cell)
  <2>1. t[cell] \in Nat /\ Length(cell) \in Nat
    BY FirstOfCell
  <2>2. QED
    BY <2>1, FirstOfCell
<1>6. rest \cap FirstOf(cell, t[cell]) = {} /\ rest \cap FirstOf(cell, n) = {}
  BY <1>5
<1> HIDE DEF rest
<1>7. /\ Cardinality(SelOf(t)) = Cardinality(rest) + t[cell] - Cardinality({})
      /\ Cardinality(SelOf(u)) = Cardinality(rest) + n - Cardinality({})
  BY <1>2, <1>4, <1>5, <1>6, FS_Union
<1>8. t[cell] \in Nat
  OBVIOUS
<1>9. QED
  BY <1>2, <1>7, <1>8, FS_EmptySet DEF u

\* The loops change neither the list nor the lists of the cells.
LEMMA ListsStay ==
  ASSUME UNCHANGED <<corr, entries>>
  PROVE  /\ Occupied' = Occupied
         /\ \A c : InCell(c)' = InCell(c) /\ Length(c)' = Length(c)
         /\ \A c, n : FirstOf(c, n)' = FirstOf(c, n)
         /\ \A t : SelOf(t)' = SelOf(t)
<1>1. Occupied' = Occupied
  BY DEF Occupied
<1>2. \A c : InCell(c)' = InCell(c)
  BY DEF InCell
<1>3. \A c, n : FirstOf(c, n)' = FirstOf(c, n)
  BY <1>2 DEF FirstOf, Before
<1>4. \A t : SelOf(t)' = SelOf(t)
  BY <1>1, <1>3 DEF SelOf
<1>5. QED
  BY <1>1, <1>2, <1>3, <1>4 DEF Length
-------------------------------------------------------------------------------
(* BalancedSelection: each part is preserved by every step *)

LEMMA M8InitInv == M8Init => M8Inv
BY DEF M8Init, M8Inv, M8TypeOK, BudgetOK, LeastOK, RoundsOK,
       SelectsBestRoundTheCells, InlierPlaces

LEMMA M8TypeStep ==
  ASSUME M8TypeOK, [M8Next]_m8_vars
  PROVE  M8TypeOK'
<1> USE DEF M8TypeOK
<1>1. corr' = corr /\ InlierPlaces(corr)' = InlierPlaces(corr)
  BY DEF M8Next, Verify, Recover, Select, TakeLeast, EndLeast, TakeOneMore,
         NextRound, Finish, m8_vars
<1>2. CASE Verify
  BY <1>1, <1>2 DEF Verify, loop_vars
<1>3. CASE Recover
  BY <1>1, <1>3 DEF Recover, Recovered, loop_vars
<1>4. CASE Select
  BY <1>1, <1>4 DEF Select
<1>5. CASE EndLeast \/ NextRound \/ Finish
  BY <1>1, <1>5 DEF EndLeast, NextRound, Finish, loop_vars
<1>6. ASSUME NEW cell \in Occupied, TakeLeast(cell) \/ TakeOneMore(cell)
      PROVE  M8TypeOK'
  BY <1>1, <1>6 DEF TakeLeast, TakeOneMore
<1>7. CASE UNCHANGED m8_vars
  BY <1>1, <1>7 DEF m8_vars, loop_vars
<1>8. QED
  BY <1>2, <1>3, <1>4, <1>5, <1>6, <1>7 DEF M8Next

\* What a turn of either loop does to the selection.
LEMMA TurnCounts ==
  ASSUME M8TypeOK, BudgetOK, step \in {"least", "rounds"},
         NEW cell \in Occupied, NEW n \in Nat,
         n <= Length(cell), n - taken[cell] <= budget,
         taken' = [taken EXCEPT ![cell] = n],
         budget' = budget - (n - taken[cell]),
         UNCHANGED <<corr, entries>>, served' = served \cup {cell}
  PROVE  BudgetOK'
<1>1. /\ Cardinality(entries) > limit /\ budget \in Nat
      /\ taken \in [Occupied -> Nat]
      /\ \A c \in Occupied : taken[c] <= Length(c)
      /\ Cardinality(SelOf(taken)) = limit - budget
      /\ served \subseteq Occupied
  BY DEF BudgetOK
<1>2. /\ Occupied' = Occupied /\ \A c : Length(c)' = Length(c)
      /\ SelOf(taken)' = SelOf(taken')
  <2>1. \A t : SelOf(t)' = UNION {FirstOf(c, t[c]) : c \in Occupied}
    BY ListsStay DEF SelOf
  <2>2. QED
    BY ListsStay DEF SelOf
<1>3. Cardinality(SelOf(taken')) = Cardinality(SelOf(taken)) + n - taken[cell]
  BY <1>1, SelectedGrow
<1>4. budget' \in Nat /\ Cardinality(SelOf(taken')) = limit - budget'
  BY <1>1, <1>3, LimitType
<1>5. taken' \in [Occupied -> Nat] /\ \A c \in Occupied : taken'[c] <= Length(c)
  BY <1>1
<1>6. QED
  BY <1>1, <1>2, <1>4, <1>5 DEF BudgetOK, limit, AtLeast

LEMMA TakeLeastCounts ==
  ASSUME M8TypeOK, BudgetOK, LeastOK, NEW cell \in Occupied, TakeLeast(cell)
  PROVE  \E n \in Nat :
            /\ n <= Length(cell) /\ n <= min_per_occupied_cell
            /\ taken[cell] = 0 /\ cell \notin served
            /\ taken' = [taken EXCEPT ![cell] = n]
            /\ budget \in Nat /\ n <= budget /\ budget' = budget - n
            /\ n < budget /\ n < Length(cell) => n = min_per_occupied_cell
<1>1. Length(cell) \in Nat /\ budget \in Nat /\ min_per_occupied_cell \in Nat
  BY FirstOfCell, SelectionAssumption, 0 \in Nat DEF BudgetOK, TakeLeast
<1> DEFINE n == AtMost(AtMost(min_per_occupied_cell, Length(cell)), budget)
<1>2. /\ n \in Nat /\ n <= Length(cell) /\ n <= budget
      /\ n <= min_per_occupied_cell
      /\ n < budget /\ n < Length(cell) => n = min_per_occupied_cell
  BY <1>1 DEF AtMost
<1>3. taken' = [taken EXCEPT ![cell] = n] /\ budget' = budget - n
  BY DEF TakeLeast, Length
<1>4. taken[cell] = 0 /\ cell \notin served
  BY DEF TakeLeast, NextCell, LeastOK
<1> HIDE DEF n
<1>5. QED
  BY <1>1, <1>2, <1>3, <1>4

LEMMA BudgetStep ==
  ASSUME M8TypeOK, BudgetOK, LeastOK, [M8Next]_m8_vars
  PROVE  BudgetOK'
<1>1. CASE Verify \/ Recover
  BY <1>1 DEF Verify, Recover, BudgetOK
<1>2. CASE Select
  <2>1. CASE step' # "least"
    BY <1>2, <2>1 DEF Select, BudgetOK
  <2>2. CASE step' = "least"
    <3>1. /\ UNCHANGED <<corr, entries>> /\ served' = {}
          /\ Cardinality(entries) > limit
          /\ budget' = limit /\ taken' = [c \in Occupied |-> 0]
      <4>1. Cardinality(entries) \in Nat
        BY ListType, FS_CardinalityType
      <4>2. ~(Cardinality(entries) <= limit)
        BY <1>2, <2>2 DEF Select
      <4>3. QED
        BY <1>2, <4>1, <4>2, LimitType DEF Select, M8TypeOK
    <3>2. SelOf(taken') = {}
      <4>1. \A c : FirstOf(c, 0) = {}
        <5> TAKE c
        <5>1. Cardinality(FirstOf(c, 0)) = 0 /\ IsFiniteSet(FirstOf(c, 0))
          BY FirstOfCell, 0 \in Nat
        <5>2. QED
          BY <5>1, FS_EmptySet
      <4>2. QED
        BY <3>1, <4>1 DEF SelOf
    <3>3. Cardinality(SelOf(taken')) = limit - budget'
      BY <3>1, <3>2, FS_EmptySet, LimitType
    <3>4. \A c \in Occupied : taken'[c] <= Length(c)
      BY <3>1, FirstOfCell, 0 \in Nat
    <3>5. /\ Occupied' = Occupied /\ \A c : Length(c)' = Length(c)
          /\ SelOf(taken)' = SelOf(taken')
      BY <3>1, ListsStay DEF SelOf
    <3>6. taken' \in [Occupied -> Nat] /\ budget' \in Nat
      BY <3>1, LimitType
    <3>7. QED
      BY <3>1, <3>3, <3>4, <3>5, <3>6 DEF BudgetOK, limit, AtLeast
  <2>3. QED
    BY <2>1, <2>2
<1>3. ASSUME NEW cell \in Occupied, TakeLeast(cell) PROVE BudgetOK'
  <2>1. PICK n \in Nat : /\ n <= Length(cell) /\ taken[cell] = 0
                         /\ taken' = [taken EXCEPT ![cell] = n]
                         /\ n <= budget /\ budget' = budget - n
    BY <1>3, TakeLeastCounts
  <2>2. budget' = budget - (n - taken[cell]) /\ n - taken[cell] <= budget
    BY <2>1
  <2>3. /\ UNCHANGED <<corr, entries>> /\ served' = served \cup {cell}
        /\ step \in {"least", "rounds"}
    BY <1>3 DEF TakeLeast
  <2>4. QED
    BY <2>1, <2>2, <2>3, TurnCounts
<1>4. ASSUME NEW cell \in Occupied, TakeOneMore(cell) PROVE BudgetOK'
  <2> DEFINE n == IF More(cell) THEN taken[cell] + 1 ELSE taken[cell]
  <2>1. /\ taken \in [Occupied -> Nat] /\ budget \in Nat /\ budget > 0
        /\ taken[cell] <= Length(cell)
    BY <1>4 DEF TakeOneMore, BudgetOK
  <2>2. Length(cell) \in Nat
    BY FirstOfCell, 0 \in Nat
  <2>3. /\ n \in Nat /\ n <= Length(cell) /\ n - taken[cell] <= budget
        /\ budget' = budget - (n - taken[cell])
    BY <1>4, <2>1, <2>2 DEF TakeOneMore, More, Length
  <2>4. taken' = [taken EXCEPT ![cell] = n]
    BY <1>4, <2>1 DEF TakeOneMore, More, Length
  <2>5. /\ UNCHANGED <<corr, entries>> /\ served' = served \cup {cell}
        /\ step \in {"least", "rounds"}
    BY <1>4 DEF TakeOneMore
  <2> HIDE DEF n
  <2>6. QED
    BY <2>3, <2>4, <2>5, TurnCounts
<1>5. CASE EndLeast \/ NextRound
  <2>1. /\ UNCHANGED <<corr, entries, budget, taken>> /\ served' = {}
        /\ step \in {"least", "rounds"}
    BY <1>5 DEF EndLeast, NextRound
  <2>2. /\ Occupied' = Occupied /\ \A c : Length(c)' = Length(c)
        /\ SelOf(taken)' = SelOf(taken)
    BY <2>1, ListsStay DEF SelOf
  <2>3. QED
    BY <2>1, <2>2 DEF BudgetOK, limit, AtLeast
<1>6. CASE Finish
  BY <1>6 DEF Finish, BudgetOK
<1>7. CASE UNCHANGED m8_vars
  <2>1. UNCHANGED <<corr, entries, budget, taken, served, step>>
    BY <1>7 DEF m8_vars, loop_vars
  <2>2. /\ Occupied' = Occupied /\ \A c : Length(c)' = Length(c)
        /\ SelOf(taken)' = SelOf(taken)
    BY <2>1, ListsStay DEF SelOf
  <2>3. QED
    BY <2>1, <2>2 DEF BudgetOK, limit, AtLeast
<1>8. QED
  BY <1>1, <1>2, <1>3, <1>4, <1>5, <1>6, <1>7 DEF M8Next

LEMMA LeastStep ==
  ASSUME M8TypeOK, BudgetOK, LeastOK, [M8Next]_m8_vars
  PROVE  LeastOK'
<1>1. CASE step' # "least"
  BY <1>1 DEF LeastOK
<1>2. CASE Select /\ step' = "least"
  <2>1. /\ UNCHANGED <<corr, entries>> /\ served' = {}
        /\ taken' = [c \in Occupied |-> 0]
    BY <1>2 DEF Select, M8TypeOK
  <2>2. Occupied' = Occupied
    BY <2>1, ListsStay
  <2>3. QED
    BY <2>1, <2>2, SelectionAssumption DEF LeastOK
<1>3. ASSUME NEW cell \in Occupied, TakeLeast(cell) PROVE LeastOK'
  <2>1. PICK n \in Nat :
            /\ n <= min_per_occupied_cell
            /\ taken' = [taken EXCEPT ![cell] = n]
            /\ budget \in Nat /\ budget' = budget - n
            /\ n < budget /\ n < Length(cell) => n = min_per_occupied_cell
    BY <1>3, TakeLeastCounts
  <2>2. /\ UNCHANGED <<corr, entries>> /\ served' = served \cup {cell}
        /\ step = "least" /\ budget > 0
    BY <1>3 DEF TakeLeast
  <2>3. Occupied' = Occupied /\ \A c : Length(c)' = Length(c)
    BY <2>2, ListsStay
  <2>4. taken \in [Occupied -> Nat] /\ served \subseteq Occupied
    BY <2>2 DEF BudgetOK
  <2>5. taken'[cell] = n /\ \A c \in Occupied \ {cell} : taken'[c] = taken[c]
    BY <2>1, <2>4
  <2>6. /\ \A c \in Occupied : taken'[c] <= min_per_occupied_cell
        /\ \A c \in Occupied \ served' : taken'[c] = 0
    BY <2>1, <2>2, <2>5 DEF LeastOK
  <2>7. ASSUME budget' > 0, NEW c \in served', taken'[c] < Length(c)
        PROVE  taken'[c] = min_per_occupied_cell
    <3>1. CASE c = cell
      BY <2>1, <2>5, <2>7, <3>1
    <3>2. CASE c # cell
      BY <2>2, <2>4, <2>5, <2>7, <3>2 DEF LeastOK, More
    <3>3. QED
      BY <3>1, <3>2
  <2>8. QED
    BY <2>3, <2>6, <2>7 DEF LeastOK, More
<1>4. CASE UNCHANGED m8_vars
  <2>1. UNCHANGED <<corr, entries, budget, taken, served, step>>
    BY <1>4 DEF m8_vars, loop_vars
  <2>2. Occupied' = Occupied /\ \A c : Length(c)' = Length(c)
    BY <2>1, ListsStay
  <2>3. QED
    BY <2>1, <2>2 DEF LeastOK, More
<1>5. QED
  BY <1>1, <1>2, <1>3, <1>4 DEF M8Next, Verify, Recover, EndLeast, TakeOneMore,
                                NextRound, Finish

LEMMA RoundsStep ==
  ASSUME M8TypeOK, BudgetOK, LeastOK, RoundsOK, [M8Next]_m8_vars
  PROVE  RoundsOK'
<1>1. CASE step' # "rounds"
  BY <1>1 DEF RoundsOK
<1>2. CASE EndLeast
  <2>1. /\ UNCHANGED <<corr, entries, budget, taken>> /\ step = "least"
        /\ served' = {}
        /\ budget = 0 \/ served = Occupied
    BY <1>2 DEF EndLeast
  <2>2. Occupied' = Occupied /\ \A c : Length(c)' = Length(c)
    BY <2>1, ListsStay
  <2>3. /\ taken \in [Occupied -> Nat] /\ budget \in Nat
        /\ \A c \in Occupied : taken[c] <= min_per_occupied_cell
    BY <2>1 DEF BudgetOK, LeastOK
  <2>4. CASE budget = 0
    BY <2>1, <2>2, <2>3, <2>4 DEF RoundsOK
  <2>5. CASE budget # 0
    <3>1. \A d \in Occupied : More(d) => taken[d] = min_per_occupied_cell
      BY <2>1, <2>3, <2>5 DEF LeastOK
    <3>2. Turns'
      BY <2>1, <2>2, <2>3, <3>1, SelectionAssumption DEF Turns, More
    <3>3. QED
      BY <2>1, <3>2 DEF RoundsOK
  <2>6. QED
    BY <2>4, <2>5
<1>3. ASSUME NEW cell \in Occupied, TakeOneMore(cell) PROVE RoundsOK'
  <2>1. /\ UNCHANGED <<corr, entries>> /\ served' = served \cup {cell}
        /\ step = "rounds" /\ budget > 0 /\ cell \notin served
    BY <1>3 DEF TakeOneMore, NextCell
  <2>2. Occupied' = Occupied /\ \A c : Length(c)' = Length(c)
    BY <2>1, ListsStay
  <2>3. /\ taken \in [Occupied -> Nat] /\ served \subseteq Occupied
        /\ \A c \in Occupied : Length(c) \in Nat
    BY <2>1, FirstOfCell, 0 \in Nat DEF BudgetOK
  <2>4. Turns
    BY <2>1 DEF RoundsOK
  <2>5. CASE More(cell)
    <3>1. taken' = [taken EXCEPT ![cell] = @ + 1] /\ progressed' = TRUE
      BY <1>3, <2>5 DEF TakeOneMore, More, Length
    <3>2. /\ taken'[cell] = taken[cell] + 1
          /\ \A c \in Occupied \ {cell} : taken'[c] = taken[c]
      BY <2>3, <3>1
    <3>3. \A d \in Occupied : taken'[d] < Length(d) =>
              More(d) /\ taken'[d] >= min_per_occupied_cell
      BY <2>3, <2>4, <3>2, SelectionAssumption DEF Turns, More
    <3>4. ASSUME NEW c \in Occupied, NEW d \in Occupied, taken'[d] < Length(d)
          PROVE  /\ c \in served' /\ d \notin served' => taken'[c] <= taken'[d] + 1
                 /\ c \notin served' /\ d \in served' => taken'[c] < taken'[d]
                 /\ (c \in served' <=> d \in served') => taken'[c] <= taken'[d]
      <4>1. More(d) /\ taken[c] \in Nat /\ taken[d] \in Nat
        BY <2>3, <3>3, <3>4
      <4>2. /\ c \in served /\ d \notin served => taken[c] <= taken[d] + 1
            /\ c \notin served /\ d \in served => taken[c] < taken[d]
            /\ (c \in served <=> d \in served) => taken[c] <= taken[d]
        BY <2>4, <4>1 DEF Turns
      <4>3. CASE c = cell /\ d = cell
        BY <2>3, <3>2, <4>3
      <4>4. CASE c = cell /\ d # cell
        BY <2>1, <3>2, <4>1, <4>2, <4>4
      <4>5. CASE c # cell /\ d = cell
        BY <2>1, <3>2, <4>1, <4>2, <4>5
      <4>6. CASE c # cell /\ d # cell
        BY <2>1, <3>2, <4>2, <4>6
      <4>7. QED
        BY <4>3, <4>4, <4>5, <4>6
    <3>5. Turns'
      BY <2>2, <3>3, <3>4 DEF Turns, More
    <3>6. QED
      BY <3>1, <3>5 DEF RoundsOK
  <2>6. CASE ~More(cell)
    <3>1. UNCHANGED <<budget, taken, progressed>>
      BY <1>3, <2>6 DEF TakeOneMore, More, Length
    <3>2. ASSUME NEW c \in Occupied, NEW d \in Occupied, More(d)
          PROVE  /\ c \in served' /\ d \notin served' => taken[c] <= taken[d] + 1
                 /\ c \notin served' /\ d \in served' => taken[c] < taken[d]
                 /\ (c \in served' <=> d \in served') => taken[c] <= taken[d]
      <4>1. d # cell /\ taken[c] \in Nat /\ taken[d] \in Nat
        BY <2>3, <2>6, <3>2
      <4>2. /\ c \in served /\ d \notin served => taken[c] <= taken[d] + 1
            /\ c \notin served /\ d \in served => taken[c] < taken[d]
            /\ (c \in served <=> d \in served) => taken[c] <= taken[d]
        BY <2>4, <3>2 DEF Turns
      <4>3. QED
        BY <2>1, <4>1, <4>2
    <3>3. Turns'
      BY <2>2, <2>4, <3>1, <3>2 DEF Turns, More
    <3>4. ~progressed' => \A c \in served' : ~More(c)'
      BY <2>1, <2>2, <2>6, <3>1 DEF RoundsOK, More
    <3>5. QED
      BY <3>3, <3>4 DEF RoundsOK
  <2>7. QED
    BY <2>5, <2>6
<1>4. CASE NextRound
  <2>1. /\ UNCHANGED <<corr, entries, budget, taken>> /\ step = "rounds"
        /\ served' = {} /\ served = Occupied /\ budget > 0
    BY <1>4 DEF NextRound
  <2>2. Occupied' = Occupied /\ \A c : Length(c)' = Length(c)
    BY <2>1, ListsStay
  <2>3. Turns
    BY <2>1 DEF RoundsOK
  <2>4. Turns'
    BY <2>1, <2>2, <2>3 DEF Turns, More
  <2>5. QED
    BY <2>1, <2>4 DEF RoundsOK
<1>5. CASE UNCHANGED m8_vars
  <2>1. UNCHANGED <<corr, entries, budget, taken, served, progressed, step>>
    BY <1>5 DEF m8_vars, loop_vars
  <2>2. Occupied' = Occupied /\ \A c : Length(c)' = Length(c)
    BY <2>1, ListsStay
  <2>3. QED
    BY <2>1, <2>2 DEF RoundsOK, Turns, More
<1>6. QED
  BY <1>1, <1>2, <1>3, <1>4, <1>5
     DEF M8Next, Verify, Recover, Select, TakeLeast, Finish

-------------------------------------------------------------------------------
(* BalancedSelection: what is selected *)

\* A budget that is not used up has run out of entries, and there are more
\* entries than budget.
LEMMA BudgetSpent ==
  ASSUME M8TypeOK, BudgetOK, RoundsOK, Finish
  PROVE  budget = 0
<1> SUFFICES ASSUME budget # 0 PROVE FALSE
  OBVIOUS
<1>1. /\ step = "rounds" /\ served = Occupied /\ ~progressed
      /\ taken \in [Occupied -> Nat] /\ budget \in Nat
      /\ Cardinality(entries) > limit
      /\ Cardinality(SelOf(taken)) = limit - budget
  BY DEF Finish, BudgetOK
<1>2. \A c \in Occupied : taken[c] = Length(c)
  <2>1. \A c \in Occupied : taken[c] <= Length(c) /\ ~(taken[c] < Length(c))
    BY <1>1 DEF BudgetOK, RoundsOK, More
  <2>2. \A c \in Occupied : Length(c) \in Nat /\ taken[c] \in Nat
    BY <1>1, FirstOfCell, 0 \in Nat
  <2>3. QED
    BY <2>1, <2>2
<1>3. SelOf(taken) = entries
  <2>1. \A c \in Occupied : FirstOf(c, taken[c]) = InCell(c)
    BY <1>2, WholeCell
  <2>2. entries \subseteq SelOf(taken)
    BY <2>1, CellsApart DEF SelOf
  <2>3. QED
    BY <1>1, <2>2, SelectedPlaces
<1>4. Cardinality(entries) \in Nat
  BY ListType, FS_CardinalityType
<1>5. QED
  BY <1>1, <1>3, <1>4, LimitType

\* How many are chosen of a cell.
LEMMA CountOfCell ==
  ASSUME M8TypeOK, BudgetOK, step = "rounds", NEW c \in Occupied,
         NEW picked, picked = {corr[i] : i \in SelOf(taken)}
  PROVE  Cardinality({m \in picked : CellOf[m] = c}) = taken[c]
<1>1. /\ taken \in [Occupied -> Nat] /\ taken[c] <= Length(c)
      /\ Length(c) \in Nat
  BY FirstOfCell, 0 \in Nat DEF BudgetOK
<1>2. SelOf(taken) \cap InCell(c) = FirstOf(c, taken[c])
      /\ SelOf(taken) \subseteq entries
  BY <1>1, SelectedPlaces
<1>3. {m \in picked : CellOf[m] = c} = {corr[i] : i \in FirstOf(c, taken[c])}
  BY <1>2, CellsApart
<1>4. FirstOf(c, taken[c]) \in SUBSET InlierPlaces(corr)
  BY <1>2 DEF M8TypeOK
<1>5. Cardinality(FirstOf(c, taken[c])) = taken[c]
  BY <1>1, FirstOfCell
<1>6. QED
  BY <1>3, <1>4, <1>5, MappingsOfPlaces

LEMMA FinishBest ==
  ASSUME M8TypeOK, BudgetOK, RoundsOK, Finish
  PROVE  SelectsBestRoundTheCells'
<1> DEFINE trusted == {m \in {corr[i] : i \in DOMAIN corr} : IsInlier(m)}
           Sel == SelOf(taken)
           picked == {corr[i] : i \in Sel}
           count(cell) == Cardinality({m \in picked : CellOf[m] = cell})
<1>1. /\ step = "rounds" /\ corr' = corr /\ chosen' = picked
  BY DEF Finish, SelOf
<1>2. /\ taken \in [Occupied -> Nat]
      /\ \A c \in Occupied : taken[c] <= Length(c) /\ Length(c) \in Nat
      /\ Cardinality(entries) > limit /\ Cardinality(Sel) = limit
  BY <1>1, BudgetSpent, LimitType, FirstOfCell, 0 \in Nat DEF BudgetOK
<1>3. trusted = {corr[i] : i \in entries}
  BY <1>1, PlacesOfMappings DEF M8TypeOK
<1>4. /\ Sel \subseteq entries
      /\ \A c \in Occupied : Sel \cap InCell(c) = FirstOf(c, taken[c])
  BY <1>2, SelectedPlaces
<1>5. entries \in SUBSET InlierPlaces(corr) /\ Sel \in SUBSET InlierPlaces(corr)
  BY <1>4 DEF M8TypeOK
<1> HIDE DEF Sel
<1>6. picked \subseteq trusted
  BY <1>3, <1>4
<1>7. Cardinality(picked) = AtMost(Cardinality(trusted), limit)
  <2>1. Cardinality(picked) = limit
    BY <1>2, <1>5, MappingsOfPlaces
  <2>2. Cardinality(trusted) = Cardinality(entries)
    BY <1>3, <1>5, MappingsOfPlaces
  <2>3. QED
    BY <1>2, <2>1, <2>2 DEF AtMost
<1>8. ASSUME NEW m \in picked, NEW n \in trusted \ picked, CellOf[m] = CellOf[n]
      PROVE  ResidualOf[m] <= ResidualOf[n]
  <2>1. PICK i \in Sel : m = corr[i]
    OBVIOUS
  <2>2. PICK j \in entries : n = corr[j]
    BY <1>3
  <2>3. j \notin Sel
    BY <1>8, <2>2
  <2> DEFINE c == CellOf[m]
  <2>4. c \in Occupied /\ i \in InCell(c) /\ j \in InCell(c)
    BY <1>4, <1>8, <2>1, <2>2, CellsApart
  <2>5. i \in FirstOf(c, taken[c]) /\ j \in InCell(c) \ FirstOf(c, taken[c])
    BY <1>4, <2>3, <2>4
  <2>6. Before(i, j)
    BY <1>2, <2>4, <2>5, FirstOfCell
  <2>7. ResidualOf[m] \in Nat /\ ResidualOf[n] \in Nat
    BY <1>4, <2>1, <2>2, ListType, MappingAssumption
  <2>8. QED
    BY <2>1, <2>2, <2>6, <2>7 DEF Before
<1>9. \A c \in Occupied : count(c) = taken[c]
  BY <1>1, CountOfCell DEF Sel
<1>10. ASSUME NEW m \in trusted, NEW n \in trusted, n \notin picked
       PROVE  count(CellOf[m]) <=
                  AtLeast(count(CellOf[n]) + 1, min_per_occupied_cell)
  <2>1. PICK i \in entries, j \in entries : m = corr[i] /\ n = corr[j]
    BY <1>3
  <2> DEFINE c == CellOf[m]
             d == CellOf[n]
  <2>2. c \in Occupied /\ d \in Occupied /\ j \in InCell(d) /\ j \notin Sel
    BY <1>10, <2>1, CellsApart
  <2>3. More(d)
    <3>1. FirstOf(d, taken[d]) # InCell(d)
      BY <1>4, <2>2
    <3>2. taken[d] # Length(d)
      BY <3>1, WholeCell
    <3>3. QED
      BY <1>2, <2>2, <3>2 DEF More
  <2>4. taken[c] \in Nat /\ taken[d] \in Nat /\ min_per_occupied_cell \in Nat
    BY <1>2, <2>2, SelectionAssumption
  <2>5. taken[c] <= taken[d] + 1 \/ taken[c] <= min_per_occupied_cell
    BY <1>1, <2>2, <2>3, <2>4 DEF RoundsOK, Turns
  <2>6. count(c) = taken[c] /\ count(d) = taken[d]
    BY <1>9, <2>2
  <2> HIDE DEF count
  <2>7. QED
    BY <2>4, <2>5, <2>6 DEF AtLeast
<1>11. QED
  BY <1>1, <1>6, <1>7, <1>8, <1>10
     DEF SelectsBestRoundTheCells, IsInlier, AtMost, AtLeast, limit

\* With no more entries than the limit all are taken.
LEMMA SelectBest ==
  ASSUME M8TypeOK, Select
  PROVE  SelectsBestRoundTheCells'
<1> DEFINE trusted == {m \in {corr[i] : i \in DOMAIN corr} : IsInlier(m)}
<1>1. CASE step' # "selected"
  BY <1>1 DEF SelectsBestRoundTheCells
<1>2. CASE step' = "selected"
  <2>1. /\ corr' = corr /\ chosen' = {corr[i] : i \in entries}
        /\ Cardinality(entries) <= limit
    BY <1>2 DEF Select
  <2>2. entries = InlierPlaces(corr)
    BY DEF M8TypeOK, Select
  <2>3. trusted = chosen'
    BY <2>1, <2>2, PlacesOfMappings
  <2>4. Cardinality(trusted) = AtMost(Cardinality(trusted), limit)
    <3>1. Cardinality(trusted) = Cardinality(entries)
      BY <2>1, <2>2, <2>3, MappingsOfPlaces
    <3>2. Cardinality(entries) \in Nat
      BY ListType, FS_CardinalityType
    <3>3. QED
      BY <2>1, <3>1, <3>2, LimitType DEF AtMost
  <2>5. QED
    BY <2>1, <2>3, <2>4
       DEF SelectsBestRoundTheCells, IsInlier, AtMost, AtLeast, limit
<1>3. QED
  BY <1>1, <1>2

LEMMA BestStep ==
  ASSUME M8Inv, [M8Next]_m8_vars
  PROVE  SelectsBestRoundTheCells'
<1>1. CASE Select
  BY <1>1, SelectBest DEF M8Inv
<1>2. CASE Finish
  BY <1>2, FinishBest DEF M8Inv
<1>3. CASE UNCHANGED m8_vars
  BY <1>3 DEF M8Inv, m8_vars, SelectsBestRoundTheCells, IsInlier, AtMost,
              AtLeast, limit
<1>4. CASE step' # "selected"
  BY <1>4 DEF SelectsBestRoundTheCells
<1>5. QED
  BY <1>1, <1>2, <1>3, <1>4
     DEF M8Next, Verify, Recover, TakeLeast, EndLeast, TakeOneMore, NextRound

\* The inductive invariant holds in every behavior.
THEOREM M8Invariant == M8Spec => []M8Inv
<1>1. M8Inv /\ [M8Next]_m8_vars => M8Inv'
  <2> SUFFICES ASSUME M8Inv, [M8Next]_m8_vars PROVE M8Inv'
    OBVIOUS
  <2>1. M8TypeOK' /\ BudgetOK' /\ LeastOK' /\ RoundsOK'
    BY M8TypeStep, BudgetStep, LeastStep, RoundsStep DEF M8Inv
  <2>2. QED
    BY <2>1, BestStep DEF M8Inv
<1>2. QED
  BY <1>1, M8InitInv, PTL DEF M8Spec

\* M8 selects the best of each cell, the cells in turns, exactly as many as it
\* may: for every list, model, grid and limit.
THEOREM BalancedSelectionCorrect == M8Spec => []SelectsBestRoundTheCells
<1>1. M8Inv => SelectsBestRoundTheCells
  BY DEF M8Inv
<1>2. QED
  BY <1>1, M8Invariant, PTL
===============================================================================
