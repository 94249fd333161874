--------------------------- MODULE RoutedChainProofs ---------------------------
(***************************************************************************)
(* Proofs about RoutedChain: for every number of runs, fallback attempts,  *)
(* crashes and replacements of the pair's record, a registration that      *)
(* succeeded rests on one chain of runs (RegisteredFromOneChain), nothing  *)
(* made for a real pair rests on a synthetic run (RealFromReal), a routed  *)
(* verdict judges the final route (FinalRouteStands), no matcher run is    *)
(* accounted to two executions (ExecutionsShareNoRun), a stage takes the   *)
(* newest run by default (DefaultsAreNewest), and what was written stays   *)
(* (HistoryStands).                                                        *)
(***************************************************************************)
EXTENDS RoutedChain, SequenceTheorems, WellFoundedInduction, TLAPS

-------------------------------------------------------------------------------
(***************************************************************************)
(* The inductive invariant.  What is said of the runs of a history is said *)
(* of its rows, Range(history), for a new run may land anywhere among      *)
(* those of its second.                                                    *)
(***************************************************************************)

\* Newest first.
Sorted(runs) == \A i, j \in DOMAIN runs : i < j => runs[i].at >= runs[j].at

NewestFirst == Sorted(matches) /\ Sorted(trusts)

MatchRunsOnly(runs) == Range(runs) \subseteq 1 .. Len(matches)

\* The matcher run m that is the last of those tried.
EndsWith(tried, runs, m) ==
    Last(tried) \in DOMAIN runs /\ m.id = runs[Last(tried)] /\ m.by = Last(tried)

\* As many routes as the loop may try: the primary and, if a second attempt is
\* configured, the fallback.
Limit == IF max_fallback_attempts = 0 THEN 1 ELSE 2

\* An execution is recorded whole: it ended with a matcher run that found
\* candidates, or with the last that it may try.
ExecutionRecorded(r) ==
    LET e == r.execution IN
    /\ MatchRunsOnly(e.runs)
    /\ e.tried = <<>> => e = NotExecuted
    /\ e.tried # <<>> => \E m \in Range(matches) :
          /\ EndsWith(e.tried, e.runs, m)
          /\ m.found \/ Len(e.tried) = Limit \/ r.fallback = NoMatcher

RoutingStands(r) ==
    /\ r.state = "ROUTED" => r.primary \in Matcher
    /\ ExecutionRecorded(r)

RoutingsStand == \A r \in Range(routings) : RoutingStands(r)

ExecutionsApart ==
    \A r, q \in Range(routings) : RunsOf(r) \cap RunsOf(q) # {} => r.id = q.id

\* Where the execution of routing r is.
Underway(r) ==
    /\ job.tried = <<>> =>
          job.runs = NoRuns /\ job.reason = FALSE /\ job.current = r.primary
    /\ job.tried # <<>> => \E m \in Range(matches) :
          /\ EndsWith(job.tried, job.runs, m)
          /\ m.found \/ job.current = IF Len(job.tried) = 1 THEN r.fallback
                                      ELSE NoMatcher
    /\ Len(job.tried) <= max_fallback_attempts + 1
    /\ Len(job.tried) <= 2
    /\ Len(job.tried) = 2 => job.current = NoMatcher

\* An execution in progress is that of a routing run that has no record of one,
\* and its matcher runs are its own.
JobStands ==
    /\ job.routing = NoRun => job = NoJob
    /\ job.routing # NoRun => \E r \in Range(routings) :
          r.id = job.routing /\ r.state = "ROUTED" /\ r.execution = NotExecuted
          /\ Underway(r)
    /\ MatchRunsOnly(job.runs)
    /\ \A r \in Range(routings) : Range(job.runs) \cap RunsOf(r) = {}

EndedWith(r, match) ==
    r.execution.tried # <<>> /\ executed_matcher_run(r) = match

TrustStands(t) ==
    /\ \E m \in Range(matches) :
          /\ m.id = t.match /\ m.synthetic = t.synthetic
          /\ t.state = "ACCEPT" => m.status = "SUCCESS" /\ m.found
    /\ t.state = "ACCEPT" /\ t.for_real => ~ t.synthetic
    /\ t.routing # NoRun => \E r \in Range(routings) :
          r.id = t.routing /\ EndedWith(r, t.match)

TrustsStand == \A t \in Range(trusts) : TrustStands(t)

SpatialStands(s) ==
    Usable(s) =>
        /\ \E t \in Range(trusts) :
              /\ t.id = s.trust /\ t.state = "ACCEPT"
              /\ t.match = s.match /\ t.synthetic = s.synthetic
        /\ s.for_real => ~ s.synthetic

SpatialsStand == \A s \in Range(spatials) : SpatialStands(s)

RegistrationStands(g) ==
    g.state = "SUCCESS" =>
        \E s \in Range(spatials) :
            s.id = g.spatial /\ Usable(s) /\ (g.for_real => ~ s.synthetic)

RegistrationsStand == \A g \in Range(registrations) : RegistrationStands(g)

ChainInv ==
    /\ TypeOK /\ NewestFirst
    /\ RoutingsStand /\ ExecutionsApart /\ JobStands
    /\ TrustsStand /\ SpatialsStand /\ RegistrationsStand

-------------------------------------------------------------------------------
(***************************************************************************)
(* Histories: what writing a run makes of one, what looking a run up by    *)
(* its id gives, and what the first of some runs is.                       *)
(***************************************************************************)

LEMMA InsertAtParts ==
  ASSUME NEW W, NEW s \in Seq(W), NEW e \in W, NEW i \in 1 .. Len(s) + 1
  PROVE  /\ InsertAt(s, i, e) \in Seq(W)
         /\ Len(InsertAt(s, i, e)) = Len(s) + 1
         /\ \A k \in 1 .. Len(s) + 1 : InsertAt(s, i, e)[k] =
               IF k < i THEN s[k] ELSE IF k = i THEN e ELSE s[k - 1]
<1> DEFINE front == SubSeq(s, 1, i - 1)
           back == SubSeq(s, i, Len(s))
<1>1. Len(s) \in Nat /\ \A k \in 1 .. Len(s) : s[k] \in W
  BY LenProperties, ElementOfSeq
<1>2. front \in Seq(W) /\ Len(front) = i - 1
      /\ \A k \in 1 .. i - 1 : front[k] = s[k]
  BY <1>1, SubSeqProperties
<1>3. back \in Seq(W) /\ Len(back) = Len(s) + 1 - i
      /\ \A k \in 1 .. Len(s) + 1 - i : back[k] = s[k + i - 1]
  <2>1. back \in Seq(W)
        /\ Len(back) = (IF i <= Len(s) THEN Len(s) - i + 1 ELSE 0)
        /\ \A k \in 1 .. Len(s) - i + 1 : back[k] = s[i + k - 1]
    BY <1>1, SubSeqProperties
  <2> HIDE DEF back
  <2>2. Len(back) = Len(s) + 1 - i
    BY <1>1, <2>1
  <2>3. ASSUME NEW k \in 1 .. Len(s) + 1 - i PROVE back[k] = s[k + i - 1]
    <3>1. k \in 1 .. Len(s) - i + 1 /\ i + k - 1 = k + i - 1
      BY <1>1
    <3>2. QED
      BY <2>1, <3>1
  <2>4. QED
    BY <2>1, <2>2, <2>3
<1>4. <<e>> \in Seq(W) /\ Len(<<e>>) = 1 /\ <<e>>[1] = e
  OBVIOUS
<1>5. InsertAt(s, i, e) = front \o <<e>> \o back
  BY DEF InsertAt
<1> HIDE DEF front, back
<1> DEFINE upper == front \o <<e>>
<1>6. upper \in Seq(W) /\ Len(upper) = i
      /\ \A k \in 1 .. i : upper[k] = IF k < i THEN s[k] ELSE e
  <2>1. upper \in Seq(W) /\ Len(upper) = Len(front) + 1
        /\ \A k \in 1 .. Len(front) + 1 :
              upper[k] = IF k <= Len(front) THEN front[k] ELSE <<e>>[k - Len(front)]
    BY <1>2, <1>4, ConcatProperties
  <2> HIDE DEF upper
  <2>2. QED
    BY <1>2, <1>4, <2>1
<1> HIDE DEF upper
<1>7. /\ upper \o back \in Seq(W)
      /\ Len(upper \o back) = Len(upper) + Len(back)
      /\ \A k \in 1 .. Len(upper) + Len(back) : (upper \o back)[k] =
            IF k <= Len(upper) THEN upper[k] ELSE back[k - Len(upper)]
  BY <1>3, <1>6, ConcatProperties
<1>8. InsertAt(s, i, e) = upper \o back
  BY <1>5 DEF upper
<1>9. Len(upper) + Len(back) = Len(s) + 1
  BY <1>1, <1>3, <1>6
<1>10. ASSUME NEW k \in 1 .. Len(s) + 1
       PROVE  (upper \o back)[k] =
                 IF k < i THEN s[k] ELSE IF k = i THEN e ELSE s[k - 1]
  <2>1. CASE k <= i
    BY <1>1, <1>6, <1>7, <1>9, <2>1
  <2>2. CASE k > i
    <3>1. (upper \o back)[k] = back[k - i]
      BY <1>1, <1>6, <1>7, <1>9, <2>2
    <3>2. k - i \in 1 .. Len(s) + 1 - i /\ k - i + i - 1 = k - 1
      BY <1>1, <2>2
    <3>3. back[k - i] = s[k - 1]
      BY <1>3, <3>2
    <3>4. QED
      BY <1>1, <2>2, <3>1, <3>3
  <2>3. k <= i \/ k > i
    BY <1>1
  <2>4. QED
    BY <2>1, <2>2, <2>3
<1>11. QED
  BY <1>7, <1>8, <1>9, <1>10

\* Writing a run adds its row to the history and changes no other.
LEMMA WithAddsRow ==
  ASSUME NEW Row, NEW runs \in Seq(Row), NEW row \in Row,
         NEW longer \in With(runs, row)
  PROVE  /\ longer \in Seq(Row)
         /\ Len(longer) = Len(runs) + 1
         /\ Range(longer) = Range(runs) \cup {row}
         /\ \E i \in 1 .. Len(runs) + 1 :
               /\ \A k \in 1 .. Len(runs) + 1 : longer[k] =
                     IF k < i THEN runs[k] ELSE IF k = i THEN row ELSE runs[k - 1]
               /\ \A j \in 1 .. i - 1 : MayPrecede(runs[j], row)
               /\ \A j \in i .. Len(runs) : MayPrecede(row, runs[j])
<1>1. PICK i \in 1 .. Len(runs) + 1 :
        /\ longer = InsertAt(runs, i, row)
        /\ \A j \in 1 .. i - 1 : MayPrecede(runs[j], row)
        /\ \A j \in i .. Len(runs) : MayPrecede(row, runs[j])
  BY DEF With
<1>2. longer \in Seq(Row) /\ Len(longer) = Len(runs) + 1
      /\ \A k \in 1 .. Len(runs) + 1 : longer[k] =
            IF k < i THEN runs[k] ELSE IF k = i THEN row ELSE runs[k - 1]
  <2>1. longer = InsertAt(runs, i, row)
    BY <1>1
  <2>2. /\ InsertAt(runs, i, row) \in Seq(Row)
        /\ Len(InsertAt(runs, i, row)) = Len(runs) + 1
        /\ \A k \in 1 .. Len(runs) + 1 : InsertAt(runs, i, row)[k] =
              IF k < i THEN runs[k] ELSE IF k = i THEN row ELSE runs[k - 1]
    BY InsertAtParts
  <2>3. QED
    BY <2>1, <2>2
<1>3. Len(runs) \in Nat /\ DOMAIN runs = 1 .. Len(runs)
      /\ DOMAIN longer = 1 .. Len(runs) + 1
  BY <1>2, LenProperties
<1>4. Range(longer) \subseteq Range(runs) \cup {row}
  <2>1. SUFFICES ASSUME NEW k \in 1 .. Len(runs) + 1
                 PROVE  longer[k] \in Range(runs) \cup {row}
    BY <1>3 DEF Range
  <2>2. CASE k < i
    BY <1>2, <1>3, <2>2 DEF Range
  <2>3. CASE k = i
    BY <1>2, <2>3
  <2>4. CASE k > i
    <3>1. k - 1 \in 1 .. Len(runs) /\ longer[k] = runs[k - 1]
      BY <1>2, <1>3, <2>4
    <3>2. QED
      BY <1>3, <3>1 DEF Range
  <2>5. QED
    BY <1>3, <2>2, <2>3, <2>4
<1>5. Range(runs) \subseteq Range(longer)
  <2>1. SUFFICES ASSUME NEW k \in 1 .. Len(runs)
                 PROVE  runs[k] \in Range(longer)
    BY <1>3 DEF Range
  <2>2. CASE k < i
    <3>1. k \in 1 .. Len(runs) + 1 /\ longer[k] = runs[k]
      BY <1>2, <1>3, <2>2
    <3>2. QED
      BY <1>3, <3>1 DEF Range
  <2>3. CASE k >= i
    <3>1. k + 1 \in 1 .. Len(runs) + 1 /\ longer[k + 1] = runs[k]
      BY <1>2, <1>3, <2>3
    <3>2. QED
      BY <1>3, <3>1 DEF Range
  <2>4. QED
    BY <1>3, <2>2, <2>3
<1>6. row \in Range(longer)
  <2>1. i \in 1 .. Len(runs) + 1 /\ longer[i] = row
    BY <1>2, <1>3
  <2>2. QED
    BY <1>3, <2>1 DEF Range
<1>7. QED
  BY <1>1, <1>2, <1>4, <1>5, <1>6

LEMMA WithStaysSorted ==
  ASSUME NEW Row, NEW runs \in Seq(Row), NEW row \in Row,
         row.at \in Nat, \A k \in 1 .. Len(runs) : runs[k].at \in Nat,
         Sorted(runs), NEW longer \in With(runs, row)
  PROVE  Sorted(longer)
<1>1. PICK i \in 1 .. Len(runs) + 1 :
        /\ \A k \in 1 .. Len(runs) + 1 : longer[k] =
              IF k < i THEN runs[k] ELSE IF k = i THEN row ELSE runs[k - 1]
        /\ \A j \in 1 .. i - 1 : MayPrecede(runs[j], row)
        /\ \A j \in i .. Len(runs) : MayPrecede(row, runs[j])
  BY WithAddsRow
<1>2. Len(runs) \in Nat /\ DOMAIN runs = 1 .. Len(runs)
      /\ DOMAIN longer = 1 .. Len(runs) + 1
  BY WithAddsRow, LenProperties
<1>3. \A k, l \in 1 .. Len(runs) : k <= l => runs[k].at >= runs[l].at
  <2>1. ASSUME NEW k \in 1 .. Len(runs), NEW l \in 1 .. Len(runs), k <= l
        PROVE  runs[k].at >= runs[l].at
    <3>1. CASE k = l
      BY <3>1
    <3>2. CASE k < l
      BY <1>2, <3>2 DEF Sorted
    <3>3. QED
      BY <1>2, <2>1, <3>1, <3>2
  <2>2. QED
    BY <2>1
<1>4. \A j \in 1 .. i - 1 : runs[j].at >= row.at
  BY <1>1, <1>2 DEF MayPrecede
<1>5. \A j \in i .. Len(runs) : row.at >= runs[j].at
  BY <1>1, <1>2 DEF MayPrecede
<1>6. SUFFICES ASSUME NEW k \in 1 .. Len(runs) + 1, NEW l \in 1 .. Len(runs) + 1,
                      k < l
               PROVE  longer[k].at >= longer[l].at
  BY <1>2 DEF Sorted
<1>7. CASE l < i
  <2>1. k \in 1 .. Len(runs) /\ l \in 1 .. Len(runs)
        /\ longer[k] = runs[k] /\ longer[l] = runs[l]
    BY <1>1, <1>2, <1>6, <1>7
  <2>2. QED
    BY <1>3, <1>6, <2>1
<1>8. CASE l = i
  <2>1. k \in 1 .. i - 1 /\ longer[k] = runs[k] /\ longer[l] = row
    BY <1>1, <1>2, <1>6, <1>8
  <2>2. QED
    BY <1>4, <2>1
<1>9. CASE k < i /\ l > i
  <2>1. k \in 1 .. Len(runs) /\ l - 1 \in 1 .. Len(runs) /\ k <= l - 1
        /\ longer[k] = runs[k] /\ longer[l] = runs[l - 1]
    BY <1>1, <1>2, <1>9
  <2>2. QED
    BY <1>3, <2>1
<1>10. CASE k = i
  <2>1. l - 1 \in i .. Len(runs) /\ longer[k] = row /\ longer[l] = runs[l - 1]
    BY <1>1, <1>2, <1>6, <1>10
  <2>2. QED
    BY <1>5, <2>1
<1>11. CASE k > i
  <2>1. k - 1 \in 1 .. Len(runs) /\ l - 1 \in 1 .. Len(runs) /\ k - 1 <= l - 1
        /\ longer[k] = runs[k - 1] /\ longer[l] = runs[l - 1]
    BY <1>1, <1>2, <1>6, <1>11
  <2>2. QED
    BY <1>3, <2>1
<1>12. QED
  BY <1>2, <1>6, <1>7, <1>8, <1>9, <1>10, <1>11

\* A new run's id is that of no other.
LEMMA WithStaysListing ==
  ASSUME NEW Row, NEW runs, Listing(runs, Row), NEW row \in Row,
         row.id = NewId(runs), row.at <= clock,
         NEW longer \in With(runs, row)
  PROVE  Listing(longer, Row)
<1>1. runs \in Seq(Row)
  BY DEF Listing
<1>2. longer \in Seq(Row) /\ Len(longer) = Len(runs) + 1
      /\ Range(longer) = Range(runs) \cup {row}
  BY <1>1, WithAddsRow
<1>3. PICK i \in 1 .. Len(runs) + 1 : \A k \in 1 .. Len(runs) + 1 : longer[k] =
        IF k < i THEN runs[k] ELSE IF k = i THEN row ELSE runs[k - 1]
  BY <1>1, WithAddsRow
<1>4. Len(runs) \in Nat /\ DOMAIN runs = 1 .. Len(runs)
      /\ DOMAIN longer = 1 .. Len(runs) + 1
  BY <1>1, <1>2, LenProperties
<1>5. /\ \A k \in 1 .. Len(runs) : runs[k].id \in 1 .. Len(runs) /\ runs[k].at <= clock
      /\ \A k, l \in 1 .. Len(runs) : runs[k].id = runs[l].id => k = l
      /\ row.id = Len(runs) + 1
  BY <1>4 DEF Listing, NewId
\* Where the run at place k was.
<1> DEFINE Old(k) == IF k < i THEN k ELSE k - 1
<1>6. ASSUME NEW k \in 1 .. Len(runs) + 1, k # i
      PROVE  Old(k) \in 1 .. Len(runs) /\ longer[k] = runs[Old(k)]
  BY <1>3, <1>4, <1>6
<1>7. longer[i] = row
  BY <1>3, <1>4
<1>8. \A k \in 1 .. Len(runs) + 1 :
         longer[k].id \in 1 .. Len(runs) + 1 /\ longer[k].at <= clock
  <2>1. ASSUME NEW k \in 1 .. Len(runs) + 1
        PROVE  longer[k].id \in 1 .. Len(runs) + 1 /\ longer[k].at <= clock
    <3>1. CASE k = i
      BY <1>4, <1>5, <1>7, <3>1
    <3>2. CASE k # i
      <4>1. PICK o \in 1 .. Len(runs) : longer[k] = runs[o]
        BY <1>6, <3>2
      <4>2. QED
        BY <1>4, <1>5, <4>1
    <3>3. QED
      BY <3>1, <3>2
  <2>2. QED
    BY <2>1
<1>9. ASSUME NEW k \in 1 .. Len(runs) + 1, NEW l \in 1 .. Len(runs) + 1,
             longer[k].id = longer[l].id
      PROVE  k = l
  <2>1. CASE k = i /\ l = i
    BY <2>1
  <2>2. CASE k = i /\ l # i
    <3>1. PICK o \in 1 .. Len(runs) : longer[l] = runs[o]
      BY <1>6, <2>2
    <3>2. QED
      BY <1>4, <1>5, <1>7, <1>9, <2>2, <3>1
  <2>3. CASE k # i /\ l = i
    <3>1. PICK o \in 1 .. Len(runs) : longer[k] = runs[o]
      BY <1>6, <2>3
    <3>2. QED
      BY <1>4, <1>5, <1>7, <1>9, <2>3, <3>1
  <2>4. CASE k # i /\ l # i
    <3>1. Old(k) \in 1 .. Len(runs) /\ longer[k] = runs[Old(k)]
      BY <1>6, <2>4
    <3>2. Old(l) \in 1 .. Len(runs) /\ longer[l] = runs[Old(l)]
      BY <1>6, <2>4
    <3>3. Old(k) = Old(l)
      <4> HIDE DEF Old
      <4>1. QED
        BY <1>5, <1>9, <3>1, <3>2
    <3>4. QED
      BY <1>4, <2>4, <3>3
  <2>5. QED
    BY <2>1, <2>2, <2>3, <2>4
<1>10. QED
  BY <1>2, <1>4, <1>8, <1>9 DEF Listing

\* A run is found by its id.
LEMMA RowsOfListing ==
  ASSUME NEW Row, NEW runs, Listing(runs, Row)
  PROVE  /\ Len(runs) \in Nat /\ DOMAIN runs = 1 .. Len(runs)
         /\ \A i \in DOMAIN runs : runs[i] \in Range(runs)
         /\ \A x \in Range(runs) : \E i \in DOMAIN runs : x = runs[i]
         /\ \A x \in Range(runs) :
               x \in Row /\ x.id \in 1 .. Len(runs) /\ Get(runs, x.id) = x
         /\ \A x, y \in Range(runs) : x.id = y.id => x = y
<1>1. runs \in Seq(Row)
  BY DEF Listing
<1>2. Len(runs) \in Nat /\ DOMAIN runs = 1 .. Len(runs)
  BY <1>1, LenProperties
<1>3. /\ \A i \in DOMAIN runs : runs[i] \in Range(runs)
      /\ \A x \in Range(runs) : \E i \in DOMAIN runs : x = runs[i]
  BY DEF Range
<1>4. \A i \in DOMAIN runs : runs[i] \in Row /\ runs[i].id \in 1 .. Len(runs)
  BY <1>1, <1>2, ElementOfSeq DEF Listing
<1>5. \A i, j \in DOMAIN runs : runs[i].id = runs[j].id => i = j
  BY DEF Listing
<1>6. ASSUME NEW x \in Range(runs) PROVE Get(runs, x.id) = x
  <2>1. PICK i \in DOMAIN runs : x = runs[i]
    BY <1>3
  <2>2. (CHOOSE j \in DOMAIN runs : runs[j].id = x.id) = i
    BY <1>5, <2>1
  <2>3. QED
    BY <2>1, <2>2 DEF Get
<1>7. QED
  BY <1>2, <1>3, <1>4, <1>5, <1>6

LEMMA SmallestNat ==
  ASSUME NEW S \in SUBSET Nat, S # {}
  PROVE  \E x \in S : \A y \in S : x <= y
<1> DEFINE Less == {ss \in Nat \X Nat : ss[1] < ss[2]}
<1>1. IsWellFoundedOn(Less, Nat)
  BY NatLessThanWellFounded DEF OpToRel
<1>2. PICK x \in S : \A y \in S : <<y, x>> \notin Less
  <2> HIDE DEF Less
  <2>1. QED
    BY <1>1, WFMin
<1>3. ASSUME NEW y \in S PROVE x <= y
  <2>1. <<y, x>> \in Nat \X Nat /\ <<y, x>>[1] = y /\ <<y, x>>[2] = x
    OBVIOUS
  <2>2. ~ (y < x)
    BY <1>2, <2>1
  <2>3. QED
    BY <2>2
<1>4. QED
  BY <1>3

\* latest gives the run that is listed first among those at the places.
LEMMA LatestIsFirst ==
  ASSUME NEW Row, NEW runs, Listing(runs, Row),
         NEW places \in SUBSET DOMAIN runs, places # {}
  PROVE  \E i \in places : /\ latest(runs, places) = runs[i].id
                           /\ Get(runs, latest(runs, places)) = runs[i]
                           /\ latest(runs, places) # NoRun
                           /\ \A j \in places : i <= j
<1>1. places \in SUBSET Nat
  BY RowsOfListing
<1>2. \E i \in places : \A j \in places : i <= j
  BY <1>1, SmallestNat
<1>3. PICK i \in places :
        /\ i = CHOOSE k \in places : \A j \in places : k <= j
        /\ \A j \in places : i <= j
  BY <1>2
<1>4. latest(runs, places) = runs[i].id
  BY <1>3 DEF latest
<1>5. runs[i].id \in 1 .. Len(runs) /\ Get(runs, runs[i].id) = runs[i]
  BY RowsOfListing
<1>6. runs[i].id # NoRun
  BY <1>5, RowsOfListing DEF NoRun
<1>7. QED
  BY <1>3, <1>4, <1>5, <1>6

-------------------------------------------------------------------------------
(***************************************************************************)
(* The router's decision: of any list of rules, some rule is the first of  *)
(* those that match, and a rule that routes names a matcher that answered. *)
(***************************************************************************)

Actions == {"ROUTED", "BLOCKED", "ABSTAIN"}

RuleList(rules, n) ==
    DOMAIN rules = 1 .. n /\ \A i \in 1 .. n : rules[i].priority \in Int
                                            /\ rules[i].action \in Actions

LEMMA RulesAreLists ==
  ASSUME NEW rules \in {ConfiguredRules} \cup Overrides
  PROVE  \E n \in Nat : RuleList(rules, n)
<1>1. CASE rules = ConfiguredRules
  <2>1. RuleList(ConfiguredRules, 6)
    BY DEF ConfiguredRules, Rule, RuleList, Actions
  <2>2. QED
    BY <1>1, <2>1
<1>2. CASE rules \in Overrides
  <2>1. Len(rules) \in Nat /\ DOMAIN rules = 1 .. Len(rules) /\ validate_rules(rules)
    BY <1>2, OverridesAssumption
  <2>2. RuleList(rules, Len(rules))
    BY <2>1 DEF validate_rules, RuleList, Actions
  <2>3. QED
    BY <2>1, <2>2
<1>3. QED
  BY <1>1, <1>2

First(rules, candidates, i) ==
    i \in candidates /\ \A j \in candidates :
        \/ rules[j].priority < rules[i].priority
        \/ rules[j].priority = rules[i].priority /\ i <= j

\* Of the sets of places without a first one, take one whose largest place is as
\* small as can be: without that place it has a first one, which is the first of
\* the two.
LEMMA SomeRuleIsFirst ==
  ASSUME NEW rules, NEW n \in Nat, RuleList(rules, n),
         NEW candidates \in SUBSET (1 .. n), candidates # {}
  PROVE  \E i \in candidates : First(rules, candidates, i)
<1> DEFINE Bad(c) == c # {} /\ \A i \in c : ~ First(rules, c, i)
           Bounds == {k \in 0 .. n : \E c \in SUBSET (1 .. n) : Bad(c) /\ c \subseteq 1 .. k}
<1>1. SUFFICES ASSUME Bad(candidates) PROVE FALSE
  OBVIOUS
<1>2. n \in Bounds /\ Bounds \in SUBSET Nat
  BY <1>1
<1>3. PICK k \in Bounds : \A l \in Bounds : k <= l
  <2> HIDE DEF Bounds
  <2>1. QED
    BY <1>2, SmallestNat
<1>4. PICK c \in SUBSET (1 .. n) : Bad(c) /\ c \subseteq 1 .. k
  BY <1>3
<1>5. k \in Nat /\ k \in 0 .. n
  BY <1>2, <1>3
<1> DEFINE below == c \ {k}
<1>6. below \in SUBSET (1 .. n) /\ below \subseteq 1 .. (k - 1)
  BY <1>4, <1>5
<1>7. k # 0
  <2>1. c # {} /\ \A i \in c : i \in 1 .. k
    BY <1>4
  <2>2. PICK i \in c : i \in 1 .. k
    BY <2>1
  <2>3. QED
    BY <1>5, <2>2
<1>8. ~ Bad(below)
  <2>1. SUFFICES ASSUME Bad(below) PROVE FALSE
    OBVIOUS
  <2>2. k - 1 \in 0 .. n
    BY <1>5, <1>7
  <2> HIDE DEF below, Bad
  <2>3. k - 1 \in Bounds
    BY <1>6, <2>1, <2>2
  <2>4. QED
    BY <1>3, <1>5, <2>3
<1>9. k \in c
  <2>1. CASE k \notin c
    <3>1. below = c
      BY <2>1
    <3>2. QED
      BY <1>4, <1>8, <3>1
  <2>2. QED
    BY <2>1
<1>10. rules[k].priority \in Int /\ \A j \in c : rules[j].priority \in Int /\ j \in Int
  BY <1>4, <1>9 DEF RuleList
<1>11. CASE below = {}
  <2>1. c = {k}
    BY <1>9, <1>11
  <2>2. First(rules, c, k)
    BY <1>5, <1>10, <2>1 DEF First
  <2>3. QED
    BY <1>4, <1>9, <2>2
<1>12. CASE below # {}
  <2>1. PICK i \in below : First(rules, below, i)
    BY <1>8, <1>12
  <2>2. i \in c /\ i < k /\ i \in Int
    BY <1>5, <1>6, <2>1
  <2>3. \A j \in c : j = k \/ j \in below
    OBVIOUS
  <2>4. CASE rules[i].priority < rules[k].priority
    <3>1. ASSUME NEW j \in c
          PROVE  \/ rules[j].priority < rules[k].priority
                 \/ rules[j].priority = rules[k].priority /\ k <= j
      <4>1. CASE j = k
        BY <1>5, <1>10, <4>1
      <4>2. CASE j \in below
        <5>1. rules[j].priority <= rules[i].priority
          BY <1>10, <2>1, <2>2, <3>1, <4>2 DEF First
        <5>2. QED
          BY <1>10, <2>2, <2>4, <3>1, <5>1
      <4>3. QED
        BY <2>3, <4>1, <4>2
    <3>2. First(rules, c, k)
      BY <1>9, <3>1 DEF First
    <3>3. QED
      BY <1>4, <1>9, <3>2
  <2>5. CASE rules[k].priority <= rules[i].priority
    <3>1. ASSUME NEW j \in c
          PROVE  \/ rules[j].priority < rules[i].priority
                 \/ rules[j].priority = rules[i].priority /\ i <= j
      <4>1. CASE j = k
        BY <1>5, <1>10, <2>2, <2>5, <4>1
      <4>2. CASE j \in below
        BY <2>1, <4>2 DEF First
      <4>3. QED
        BY <2>3, <4>1, <4>2
    <3>2. First(rules, c, i)
      BY <2>2, <3>1 DEF First
    <3>3. QED
      BY <1>4, <2>2, <3>2
  <2>6. QED
    BY <1>10, <2>2, <2>4, <2>5
<1>13. QED
  BY <1>11, <1>12

LEMMA FirstOfIsCandidate ==
  ASSUME NEW rules, NEW n \in Nat, RuleList(rules, n),
         NEW candidates \in SUBSET (1 .. n), candidates # {}
  PROVE  FirstOf(rules, candidates) \in candidates
<1>1. \E i \in candidates : First(rules, candidates, i)
  BY SomeRuleIsFirst
<1>2. \E i \in candidates : \A j \in candidates :
         \/ rules[j].priority < rules[i].priority
         \/ rules[j].priority = rules[i].priority /\ i <= j
  BY <1>1 DEF First
<1>3. QED
  BY <1>2 DEF FirstOf

LEMMA ResolvedRoutes ==
  ASSUME NEW rule, NEW available \in SUBSET Matcher,
         NEW d, d = resolve_capability(rule, available)
  PROVE  /\ d.state \in {"ROUTED", "BLOCKED", "ABSTAIN"}
         /\ d.primary \in Matcher \cup {NoMatcher}
         /\ d.fallback \in Matcher \cup {NoMatcher}
         /\ d.state = "ROUTED" => d.primary \in Matcher
<1>1. CASE rule.primary \in available
  BY <1>1 DEF resolve_capability, Decision
<1>2. CASE rule.primary \notin available /\ rule.fallback \in available
  BY <1>2 DEF resolve_capability, Decision
<1>3. CASE rule.primary \notin available /\ rule.fallback \notin available
  BY <1>3 DEF resolve_capability, Decision
<1>4. QED
  BY <1>1, <1>2, <1>3

LEMMA DecisionRoutes ==
  ASSUME NEW view, NEW available \in SUBSET Matcher, NEW mode,
         NEW rules, NEW n \in Nat, RuleList(rules, n),
         NEW d, d = route(view, available, rules, mode)
  PROVE  /\ d.state \in {"ROUTED", "BLOCKED", "ABSTAIN"}
         /\ d.primary \in Matcher \cup {NoMatcher}
         /\ d.fallback \in Matcher \cup {NoMatcher}
         /\ d.state = "ROUTED" => d.primary \in Matcher
<1> DEFINE candidates == Matching(rules, view, mode)
           enabled == {i \in DOMAIN rules : mode \in rules[i].modes}
           rule == rules[FirstOf(rules, candidates)]
<1>1. candidates \subseteq enabled /\ candidates \in SUBSET (1 .. n)
  BY DEF Matching, RuleList
<1>2. d = CASE enabled = {} -> Decision("BLOCKED", "none", NoMatcher, NoMatcher,
                                        FALSE, "MATCHER_NOT_AVAILABLE")
            [] enabled # {} /\ candidates = {} ->
                   Decision("ABSTAIN", "none", NoMatcher, NoMatcher, FALSE,
                            "NO_AVAILABLE_MATCHER")
            [] candidates # {} /\ rule.action # "ROUTED" ->
                   Decision(rule.action, rule.id, NoMatcher, NoMatcher, FALSE,
                            rule.error)
            [] candidates # {} /\ rule.action = "ROUTED" ->
                   resolve_capability(rule, available)
  BY DEF route
<1>3. candidates # {} => rule.action \in {"ROUTED", "BLOCKED", "ABSTAIN"}
  BY <1>1, FirstOfIsCandidate DEF RuleList, Actions
<1> HIDE DEF candidates, enabled, rule
<1>4. CASE enabled = {}
  BY <1>1, <1>2, <1>4 DEF Decision
<1>5. CASE enabled # {} /\ candidates = {}
  BY <1>2, <1>5 DEF Decision
<1>6. CASE candidates # {} /\ rule.action # "ROUTED"
  <2>1. d = Decision(rule.action, rule.id, NoMatcher, NoMatcher, FALSE, rule.error)
    BY <1>1, <1>2, <1>6
  <2>2. QED
    BY <1>3, <1>6, <2>1 DEF Decision
<1>7. CASE candidates # {} /\ rule.action = "ROUTED"
  <2>1. d = resolve_capability(rule, available)
    BY <1>1, <1>2, <1>7
  <2>2. QED
    BY <2>1, ResolvedRoutes
<1>8. QED
  BY <1>4, <1>5, <1>6, <1>7

-------------------------------------------------------------------------------
(***************************************************************************)
(* What the stages resolve is a run that was written, in a state that the  *)
(* stage may build on.                                                     *)
(***************************************************************************)

LEMMA LatestRow ==
  ASSUME NEW Row, NEW runs, Listing(runs, Row),
         NEW places \in SUBSET DOMAIN runs, latest(runs, places) # NoRun
  PROVE  \E i \in places : /\ latest(runs, places) = runs[i].id
                           /\ Get(runs, latest(runs, places)) = runs[i]
                           /\ runs[i] \in Range(runs)
<1>1. places # {}
  BY DEF latest
<1>2. PICK i \in places : /\ latest(runs, places) = runs[i].id
                          /\ Get(runs, latest(runs, places)) = runs[i]
  BY <1>1, LatestIsFirst
<1>3. runs[i] \in Range(runs)
  BY RowsOfListing
<1>4. QED
  BY <1>2, <1>3

LEMMA TrustResolved ==
  ASSUME TypeOK, NEW id \in resolve_trust_artifact, id # NoRun
  PROVE  \E t \in Range(trusts) : t.id = id /\ Get(trusts, id) = t
<1>1. Listing(trusts, TrustRow)
  BY DEF TypeOK
<1>2. ASSUME NEW i \in DOMAIN trusts, id = trusts[i].id
      PROVE  \E t \in Range(trusts) : t.id = id /\ Get(trusts, id) = t
  BY <1>1, <1>2, RowsOfListing
<1>3. CASE id = latest(trusts, Accepting)
  <2>1. Accepting \in SUBSET DOMAIN trusts
    BY DEF Accepting
  <2>2. \E i \in Accepting : id = trusts[i].id
    BY <1>1, <1>3, <2>1, LatestRow
  <2>3. QED
    BY <1>2, <2>1, <2>2
<1>4. CASE id = latest(trusts, DOMAIN trusts)
  <2>1. \E i \in DOMAIN trusts : id = trusts[i].id
    BY <1>1, <1>4, LatestRow
  <2>2. QED
    BY <1>2, <2>1
<1>5. CASE id \in {trusts[i].id : i \in DOMAIN trusts}
  BY <1>2, <1>5
<1>6. QED
  BY <1>3, <1>4, <1>5 DEF resolve_trust_artifact

LEMMA SpatialResolved ==
  ASSUME TypeOK, NEW id \in resolve_m8_artifact, id # NoRun
  PROVE  \E s \in Range(spatials) : s.id = id /\ Get(spatials, id) = s
<1>1. Listing(spatials, SpatialRow)
  BY DEF TypeOK
<1>2. ASSUME NEW i \in DOMAIN spatials, id = spatials[i].id
      PROVE  \E s \in Range(spatials) : s.id = id /\ Get(spatials, id) = s
  BY <1>1, <1>2, RowsOfListing
<1> DEFINE usable == {i \in DOMAIN spatials : Usable(spatials[i])}
<1>3. CASE id = latest(spatials, usable)
  <2>1. usable \in SUBSET DOMAIN spatials
    OBVIOUS
  <2> HIDE DEF usable
  <2>2. \E i \in usable : id = spatials[i].id
    BY <1>1, <1>3, <2>1, LatestRow
  <2>3. QED
    BY <1>2, <2>1, <2>2
<1>4. CASE id \in {spatials[i].id : i \in DOMAIN spatials}
  BY <1>2, <1>4
<1>5. QED
  BY <1>3, <1>4 DEF resolve_m8_artifact

\* A routing run that ended with a matcher run was executed, and that run was
\* written.
LEMMA ExecutedRoute ==
  ASSUME RoutingsStand, NEW r \in Range(routings), executed_matcher_run(r) # NoRun
  PROVE  /\ EndedWith(r, executed_matcher_run(r))
         /\ \E m \in Range(matches) : m.id = executed_matcher_run(r)
<1>1. r.execution.tried # <<>>
  BY DEF executed_matcher_run
<1>2. executed_matcher_run(r) = r.execution.runs[Last(r.execution.tried)]
  BY <1>1 DEF executed_matcher_run
<1>3. ExecutionRecorded(r)
  BY DEF RoutingsStand, RoutingStands
<1>4. \E m \in Range(matches) : m.id = executed_matcher_run(r)
  BY <1>1, <1>2, <1>3 DEF ExecutionRecorded, EndsWith
<1>5. QED
  BY <1>1, <1>4 DEF EndedWith

LEMMA MatcherRunResolved ==
  ASSUME TypeOK, RoutingsStand,
         NEW input \in resolve_matcher_run, input.match # NoRun
  PROVE  /\ \E m \in Range(matches) : m.id = input.match /\ Get(matches, input.match) = m
         /\ input.routing # NoRun => \E r \in Range(routings) :
               r.id = input.routing /\ EndedWith(r, input.match)
         /\ input.routing \in Nat
<1>1. Listing(routings, RoutingRow) /\ Listing(matches, MatchRow)
  BY DEF TypeOK
<1>2. ASSUME NEW m \in Range(matches), m.id = input.match
      PROVE  \E n \in Range(matches) :
                n.id = input.match /\ Get(matches, input.match) = n
  BY <1>1, <1>2, RowsOfListing
<1>3. ASSUME NEW r \in Range(routings), executed_matcher_run(r) = input.match
      PROVE  /\ \E m \in Range(matches) : m.id = input.match
             /\ EndedWith(r, input.match)
             /\ r.id \in Nat
  BY <1>1, <1>3, ExecutedRoute, RowsOfListing
<1>4. CASE input = DefaultInput
  <2> DEFINE r == latest(routings, Executed)
             m == latest(matches, Successful)
  <2>1. input = IF r # NoRun
                THEN [match |-> executed_matcher_run(Get(routings, r)), routing |-> r]
                ELSE [match |-> m, routing |-> NoRun]
    BY <1>4 DEF DefaultInput
  <2>2. Executed \in SUBSET DOMAIN routings /\ Successful \in SUBSET DOMAIN matches
    BY DEF Executed, Successful
  <2>3. CASE r # NoRun
    <3>1. PICK i \in Executed : /\ r = routings[i].id
                                /\ Get(routings, r) = routings[i]
                                /\ routings[i] \in Range(routings)
      BY <1>1, <2>2, <2>3, LatestRow
    <3> HIDE DEF r
    <3>2. input.match = executed_matcher_run(routings[i]) /\ input.routing = routings[i].id
      BY <2>1, <2>3, <3>1
    <3>3. QED
      BY <1>2, <1>3, <3>1, <3>2
  <2>4. CASE r = NoRun
    <3> HIDE DEF r
    <3>1. input.match = m /\ input.routing = NoRun
      BY <2>1, <2>4
    <3>2. \E i \in Successful : m = matches[i].id /\ matches[i] \in Range(matches)
      BY <1>1, <2>2, <3>1, LatestRow
    <3> HIDE DEF m
    <3>3. QED
      BY <1>2, <3>1, <3>2 DEF NoRun
  <2>5. QED
    BY <2>3, <2>4
<1>5. ASSUME NEW i \in DOMAIN matches,
             input = [match |-> matches[i].id,
                      routing |-> find_routing_provenance(matches[i].id)]
      PROVE  /\ \E m \in Range(matches) :
                   m.id = input.match /\ Get(matches, input.match) = m
             /\ input.routing # NoRun => \E r \in Range(routings) :
                   r.id = input.routing /\ EndedWith(r, input.match)
             /\ input.routing \in Nat
  <2> DEFINE places == {j \in DOMAIN routings :
                          executed_matcher_run(routings[j]) = matches[i].id}
  <2>1. input.match = matches[i].id /\ matches[i] \in Range(matches)
    BY <1>1, <1>5, RowsOfListing
  <2>2. input.routing = latest(routings, places)
    BY <1>5 DEF find_routing_provenance
  <2>3. places \in SUBSET DOMAIN routings
    OBVIOUS
  <2>4. \A j \in places : executed_matcher_run(routings[j]) = input.match
    BY <2>1
  <2> HIDE DEF places
  <2>5. CASE input.routing # NoRun
    <3>1. PICK j \in places : input.routing = routings[j].id
                              /\ routings[j] \in Range(routings)
      BY <1>1, <2>2, <2>3, <2>5, LatestRow
    <3>2. EndedWith(routings[j], input.match) /\ routings[j].id \in Nat
      BY <1>3, <2>4, <3>1
    <3>3. QED
      BY <1>2, <2>1, <3>1, <3>2
  <2>6. CASE input.routing = NoRun
    BY <1>2, <2>1, <2>6 DEF NoRun
  <2>7. QED
    BY <2>5, <2>6
<1>6. ASSUME NEW i \in DOMAIN routings,
             input = [match |-> executed_matcher_run(routings[i]),
                      routing |-> routings[i].id]
      PROVE  /\ \E m \in Range(matches) :
                   m.id = input.match /\ Get(matches, input.match) = m
             /\ input.routing # NoRun => \E r \in Range(routings) :
                   r.id = input.routing /\ EndedWith(r, input.match)
             /\ input.routing \in Nat
  <2>1. routings[i] \in Range(routings) /\ input.routing = routings[i].id
        /\ executed_matcher_run(routings[i]) = input.match
    BY <1>1, <1>6, RowsOfListing
  <2>2. QED
    BY <1>2, <1>3, <2>1
<1>7. QED
  BY <1>4, <1>5, <1>6 DEF resolve_matcher_run

-------------------------------------------------------------------------------
(***************************************************************************)
(* What each service writes: a row of its history's type, in which what    *)
(* the chain rests on holds.                                               *)
(***************************************************************************)

Written(runs, longer, Row, row) ==
    row \in Row /\ row.id = NewId(runs) /\ row.at = clock /\ longer \in With(runs, row)

Grows(runs, longer, Row) ==
    longer = runs \/ \E row \in Row : Written(runs, longer, Row, row)

\* The listing of a history when the clock shows second.
ListingAt(runs, Row, second) ==
    /\ runs \in Seq(Row)
    /\ \A i \in DOMAIN runs : runs[i].id \in 1 .. Len(runs) /\ runs[i].at <= second
    /\ \A i, j \in DOMAIN runs : runs[i].id = runs[j].id => i = j

LEMMA GrownListing ==
  ASSUME NEW Row, \A r \in Row : r.at \in Nat, NEW runs, Listing(runs, Row),
         clock \in Nat, NEW second \in Nat, clock <= second,
         NEW longer, Grows(runs, longer, Row)
  PROVE  ListingAt(longer, Row, second)
<1>1. Listing(longer, Row)
  <2>1. CASE longer = runs
    BY <2>1
  <2>2. ASSUME NEW row \in Row, Written(runs, longer, Row, row)
        PROVE  Listing(longer, Row)
    <3>1. row.id = NewId(runs) /\ row.at <= clock /\ longer \in With(runs, row)
      BY <2>2 DEF Written
    <3>2. QED
      BY <3>1, WithStaysListing
  <2>3. QED
    BY <2>1, <2>2 DEF Grows
<1>2. \A i \in DOMAIN longer : longer[i].at \in Nat
  BY <1>1, RowsOfListing
<1>3. \A i \in DOMAIN longer : longer[i].at <= second
  <2>1. ASSUME NEW i \in DOMAIN longer PROVE longer[i].at <= second
    <3>1. longer[i].at \in Nat /\ longer[i].at <= clock
      BY <1>1, <1>2 DEF Listing
    <3>2. QED
      BY <3>1
  <2>2. QED
    BY <2>1
<1>4. QED
  BY <1>1, <1>3 DEF Listing, ListingAt

LEMMA GrownRows ==
  ASSUME NEW Row, NEW runs, Listing(runs, Row), NEW longer, Grows(runs, longer, Row)
  PROVE  /\ Range(runs) \subseteq Range(longer)
         /\ Len(runs) \in Nat /\ Len(longer) \in Nat /\ Len(runs) <= Len(longer)
<1>1. runs \in Seq(Row) /\ Len(runs) \in Nat
  BY RowsOfListing DEF Listing
<1>2. CASE longer = runs
  BY <1>1, <1>2
<1>3. ASSUME NEW row \in Row, Written(runs, longer, Row, row)
      PROVE  Range(runs) \subseteq Range(longer) /\ Len(longer) = Len(runs) + 1
  BY <1>1, <1>3, WithAddsRow DEF Written
<1>4. QED
  BY <1>1, <1>2, <1>3 DEF Grows

LEMMA RowTypes ==
  /\ \A r \in ConditionRow : r.at \in Nat
  /\ \A r \in RoutingRow : r.at \in Nat
  /\ \A r \in MatchRow : r.at \in Nat
  /\ \A r \in TrustRow : r.at \in Nat
  /\ \A r \in SpatialRow : r.at \in Nat
  /\ \A r \in RegistrationRow : r.at \in Nat
  BY DEF ConditionRow, RoutingRow, MatchRow, TrustRow, SpatialRow, RegistrationRow

LEMMA NewIds ==
  ASSUME NEW Row, NEW runs, Listing(runs, Row)
  PROVE  NewId(runs) \in Nat /\ NewId(runs) # NoRun
  BY RowsOfListing DEF NewId, NoRun

LEMMA ConditionWritten ==
  ASSUME TypeOK, RunConditions
  PROVE  Grows(conditions, conditions', ConditionRow)
<1>1. PICK profile \in Profiles \cup {Failed, Blocked} :
        conditions' \in With(conditions,
            [id |-> NewId(conditions), at |-> clock, profile |-> profile])
  BY DEF RunConditions
<1> DEFINE row == [id |-> NewId(conditions), at |-> clock, profile |-> profile]
<1>2. NewId(conditions) \in Nat /\ clock \in Nat
  BY NewIds DEF TypeOK
<1>3. row \in ConditionRow /\ row.id = NewId(conditions) /\ row.at = clock
  BY <1>2 DEF ConditionRow
<1>4. QED
  BY <1>1, <1>3 DEF Written, Grows

LEMMA NotExecutedIsTyped ==
  /\ NoRuns \in Runs /\ NotExecuted \in Execution
  /\ NotExecuted.tried = <<>> /\ NotExecuted.runs = NoRuns
  /\ Range(NoRuns) = {}
<1>1. NoRuns \in [{} -> Nat] /\ {} \in SUBSET Matcher
  BY DEF NoRuns
<1>2. NoRuns \in Runs
  BY <1>1 DEF Runs
<1>3. <<>> \in Seq(Matcher)
  OBVIOUS
<1>4. QED
  BY <1>1, <1>2, <1>3 DEF NotExecuted, Execution, Range

LEMMA RoutingWritten ==
  ASSUME TypeOK, RunRouting
  PROVE  \E row \in RoutingRow :
            /\ Written(routings, routings', RoutingRow, row)
            /\ row.execution = NotExecuted
            /\ row.state = "ROUTED" => row.primary \in Matcher
<1>1. PICK rules \in {ConfiguredRules} \cup Overrides, mode \in Modes,
           deepReady \in DeepProbe :
      \E decision \in {Decide(rules, mode, deepReady), RoutingFailed} :
        routings' \in With(routings,
            [id |-> NewId(routings), at |-> clock, state |-> decision.state,
             primary |-> decision.primary, fallback |-> decision.fallback,
             execution |-> NotExecuted])
  BY DEF RunRouting
<1>2. PICK decision \in {Decide(rules, mode, deepReady), RoutingFailed} :
        routings' \in With(routings,
            [id |-> NewId(routings), at |-> clock, state |-> decision.state,
             primary |-> decision.primary, fallback |-> decision.fallback,
             execution |-> NotExecuted])
  BY <1>1
<1> DEFINE row == [id |-> NewId(routings), at |-> clock, state |-> decision.state,
                   primary |-> decision.primary, fallback |-> decision.fallback,
                   execution |-> NotExecuted]
<1>3. routings' \in With(routings, row)
  BY <1>2
<1>4. extract_capability_view(deepReady) \in SUBSET Matcher
  BY DEF extract_capability_view, Matcher, Deep
<1>5. /\ decision.state \in Actions \cup {"FAILED"}
      /\ decision.primary \in Matcher \cup {NoMatcher}
      /\ decision.fallback \in Matcher \cup {NoMatcher}
      /\ decision.state = "ROUTED" => decision.primary \in Matcher
  <2>1. CASE decision = RoutingFailed
    BY <2>1 DEF RoutingFailed, Decision
  <2>2. CASE decision = Decide(rules, mode, deepReady)
    <3>1. PICK n \in Nat : RuleList(rules, n)
      BY RulesAreLists
    <3>2. QED
      BY <1>4, <2>2, <3>1, DecisionRoutes DEF Decide, Actions
  <2>3. QED
    BY <1>2, <2>1, <2>2
<1>6. NewId(routings) \in Nat /\ clock \in Nat
  BY NewIds DEF TypeOK
<1>7. row \in RoutingRow
  BY <1>5, <1>6, NotExecutedIsTyped DEF RoutingRow, Actions
<1>8. /\ row.id = NewId(routings) /\ row.at = clock /\ row.execution = NotExecuted
      /\ row.state = "ROUTED" => row.primary \in Matcher
  BY <1>5
<1> HIDE DEF row
<1>9. QED
  BY <1>3, <1>7, <1>8 DEF Written

LEMMA MatchRunIsRow ==
  ASSUME TypeOK, NEW by \in Matcher, NEW outcome \in Outcomes
  PROVE  /\ MatchRun(by, outcome) \in MatchRow
         /\ MatchRun(by, outcome).id = NewId(matches)
         /\ MatchRun(by, outcome).at = clock
         /\ MatchRun(by, outcome).by = by
         /\ MatchRun(by, outcome).found = outcome.found
         /\ outcome.found \in BOOLEAN
<1>1. NewId(matches) \in Nat /\ clock \in Nat /\ real \in BOOLEAN
  BY NewIds DEF TypeOK
<1>2. outcome.found \in BOOLEAN /\ outcome.status \in {"SUCCESS", "FAILED", "BLOCKED"}
  <2>1. \/ outcome = [status |-> "SUCCESS", found |-> TRUE]
        \/ outcome = [status |-> "SUCCESS", found |-> FALSE]
        \/ outcome = [status |-> "FAILED", found |-> FALSE]
        \/ outcome = [status |-> "BLOCKED", found |-> FALSE]
    BY DEF Outcomes
  <2>2. outcome.status \in {"SUCCESS", "FAILED", "BLOCKED"}
    BY <2>1
  <2>3. outcome.found = TRUE \/ outcome.found = FALSE
    BY <2>1
  <2>4. QED
    BY <2>2, <2>3
<1>3. (~ real) \in BOOLEAN
  OBVIOUS
<1>4. MatchRun(by, outcome) \in MatchRow
  BY <1>1, <1>2, <1>3 DEF MatchRun, MatchRow
<1>5. QED
  BY <1>2, <1>4 DEF MatchRun

LEMMA MatchWritten ==
  ASSUME TypeOK, RunMatcher
  PROVE  Grows(matches, matches', MatchRow)
<1>1. PICK by \in Requested, outcome \in Outcomes :
        matches' \in With(matches, MatchRun(by, outcome))
  BY DEF RunMatcher
<1>2. by \in Matcher
  BY RequestedAssumption
<1>3. QED
  BY <1>1, <1>2, MatchRunIsRow DEF Written, Grows

LEMMA TrustWritten ==
  ASSUME TypeOK, RoutingsStand, RunTrust
  PROVE  \E row \in TrustRow : Written(trusts, trusts', TrustRow, row) /\ TrustStands(row)
<1>1. PICK input \in resolve_matcher_run :
        /\ input.match # NoRun
        /\ LET m == Get(matches, input.match) IN
           \E answer \in TrustAnswers(m) :
              trusts' \in With(trusts,
                  [id |-> NewId(trusts), at |-> clock, state |-> answer,
                   match |-> m.id, routing |-> input.routing,
                   synthetic |-> m.synthetic, for_real |-> real])
  BY DEF RunTrust
<1>2. PICK m \in Range(matches) : m.id = input.match /\ Get(matches, input.match) = m
  BY <1>1, MatcherRunResolved
<1>3. PICK answer \in TrustAnswers(m) :
        trusts' \in With(trusts,
            [id |-> NewId(trusts), at |-> clock, state |-> answer,
             match |-> m.id, routing |-> input.routing,
             synthetic |-> m.synthetic, for_real |-> real])
  BY <1>1, <1>2
<1>4. /\ input.routing \in Nat
      /\ input.routing # NoRun => \E r \in Range(routings) :
            r.id = input.routing /\ EndedWith(r, m.id)
  BY <1>1, <1>2, MatcherRunResolved
<1>5. m \in MatchRow
  BY RowsOfListing DEF TypeOK
<1>6. m.id \in Nat /\ m.synthetic \in BOOLEAN /\ m.found \in BOOLEAN
  BY <1>5 DEF MatchRow
<1>7. /\ answer \in {"ACCEPT", "REJECT", "BLOCKED"}
      /\ answer = "ACCEPT" => m.status = "SUCCESS" /\ m.found /\ ~ (m.synthetic /\ real)
  <2>1. CASE m.status # "SUCCESS" \/ (m.synthetic /\ real) \/ ~ m.found
    BY <1>3, <2>1 DEF TrustAnswers
  <2>2. CASE ~ (m.status # "SUCCESS" \/ (m.synthetic /\ real) \/ ~ m.found)
    BY <1>3, <2>2 DEF TrustAnswers
  <2>3. QED
    BY <2>1, <2>2
<1> DEFINE row == [id |-> NewId(trusts), at |-> clock, state |-> answer,
                   match |-> m.id, routing |-> input.routing,
                   synthetic |-> m.synthetic, for_real |-> real]
<1>8. NewId(trusts) \in Nat /\ clock \in Nat /\ real \in BOOLEAN
  BY NewIds DEF TypeOK
<1>9. row \in TrustRow
  BY <1>4, <1>6, <1>7, <1>8 DEF TrustRow
<1>10. /\ row.id = NewId(trusts) /\ row.at = clock /\ row.state = answer
       /\ row.match = m.id /\ row.routing = input.routing
       /\ row.synthetic = m.synthetic /\ row.for_real = real
       /\ trusts' \in With(trusts, row)
  BY <1>3
<1> HIDE DEF row
<1>11. TrustStands(row)
  BY <1>4, <1>7, <1>10 DEF TrustStands
<1>12. QED
  BY <1>9, <1>10, <1>11 DEF Written

LEMMA SpatialRunIsRow ==
  ASSUME TypeOK, NEW state \in {"SELECTED", "ABSTAIN", "BLOCKED"}, NEW trust \in Nat,
         NEW match \in Nat, NEW synthetic \in BOOLEAN,
         NEW row, row = SpatialRun(state, trust, match, synthetic)
  PROVE  /\ row \in SpatialRow
         /\ row.id = NewId(spatials) /\ row.at = clock
         /\ row.state = state /\ row.trust = trust /\ row.match = match
         /\ row.synthetic = synthetic /\ row.for_real = real
<1>1. NewId(spatials) \in Nat /\ clock \in Nat /\ real \in BOOLEAN
  BY NewIds DEF TypeOK
<1>2. QED
  BY <1>1 DEF SpatialRun, SpatialRow

LEMMA SpatialWritten ==
  ASSUME TypeOK, TrustsStand, RunSpatial
  PROVE  \E row \in SpatialRow :
            Written(spatials, spatials', SpatialRow, row) /\ SpatialStands(row)
<1>1. PICK id \in resolve_trust_artifact :
        \E row \in SpatialRows(id) : spatials' \in With(spatials, row)
  BY DEF RunSpatial
<1>0. PICK row \in SpatialRows(id) : spatials' \in With(spatials, row)
  BY <1>1
<1>2. NoRun \in Nat /\ (~ real) \in BOOLEAN
  BY DEF NoRun
<1>3. id = NoRun \/ \E t \in Range(trusts) : t.id = id /\ Get(trusts, id) = t
  BY TrustResolved
<1>4. id \in Nat
  BY <1>2, <1>3, RowsOfListing DEF TypeOK, TrustRow
<1>5. ASSUME NEW state \in {"BLOCKED", "ABSTAIN"}, NEW trust \in Nat,
             row = SpatialRun(state, trust, NoRun, ~ real)
      PROVE  /\ row \in SpatialRow
             /\ Written(spatials, spatials', SpatialRow, row) /\ SpatialStands(row)
  <2> DEFINE synthetic == ~ real
  <2>1. /\ synthetic \in BOOLEAN /\ state \in {"SELECTED", "ABSTAIN", "BLOCKED"}
        /\ row = SpatialRun(state, trust, NoRun, synthetic)
    BY <1>2, <1>5
  <2> HIDE DEF synthetic
  <2>2. row \in SpatialRow /\ row.id = NewId(spatials) /\ row.at = clock
        /\ row.state = state
    BY <1>2, <2>1, SpatialRunIsRow
  <2>3. QED
    BY <1>0, <1>5, <2>2 DEF Written, SpatialStands, Usable
<1>6. CASE row = SpatialRun("BLOCKED", id, NoRun, ~ real)
  BY <1>4, <1>5, <1>6
<1>7. CASE row = SpatialRun("ABSTAIN", NoRun, NoRun, ~ real)
  BY <1>2, <1>5, <1>7
<1>8. CASE /\ row # SpatialRun("BLOCKED", id, NoRun, ~ real)
           /\ row # SpatialRun("ABSTAIN", NoRun, NoRun, ~ real)
  <2>1. /\ id # NoRun
        /\ \E answer \in SpatialAnswers(Get(trusts, id)) :
              row = SpatialRun(answer, id, Get(trusts, id).match,
                               Get(trusts, id).synthetic)
    BY <1>0, <1>8 DEF SpatialRows
  <2>2. PICK t \in Range(trusts) : t.id = id /\ Get(trusts, id) = t
    BY <1>3, <2>1
  <2>3. PICK answer \in SpatialAnswers(t) :
          row = SpatialRun(answer, id, t.match, t.synthetic)
    BY <2>1, <2>2
  <2>4. t \in TrustRow
    BY RowsOfListing DEF TypeOK
  <2>5. t.match \in Nat /\ t.synthetic \in BOOLEAN
    BY <2>4 DEF TrustRow
  <2>6. /\ answer \in {"SELECTED", "ABSTAIN", "BLOCKED"}
        /\ t.state = "ACCEPT" /\ ~ (t.synthetic /\ real)
    <3>1. CASE t.state # "ACCEPT" \/ (t.synthetic /\ real)
      BY <2>3, <3>1 DEF SpatialAnswers
    <3>2. CASE ~ (t.state # "ACCEPT" \/ (t.synthetic /\ real))
      BY <2>3, <3>2 DEF SpatialAnswers
    <3>3. QED
      BY <3>1, <3>2
  <2>7. /\ row \in SpatialRow
        /\ row.id = NewId(spatials) /\ row.at = clock
        /\ row.state = answer /\ row.trust = id /\ row.match = t.match
        /\ row.synthetic = t.synthetic /\ row.for_real = real
    BY <1>4, <2>3, <2>5, <2>6, SpatialRunIsRow
  <2>8. SpatialStands(row)
    BY <2>2, <2>6, <2>7 DEF SpatialStands
  <2>9. QED
    BY <1>0, <2>7, <2>8 DEF Written
<1>9. QED
  BY <1>6, <1>7, <1>8

LEMMA RegistrationWritten ==
  ASSUME TypeOK, RunRegistration
  PROVE  \E row \in RegistrationRow :
            /\ Written(registrations, registrations', RegistrationRow, row)
            /\ RegistrationStands(row)
<1>1. PICK id \in resolve_m8_artifact :
        \E row \in RegistrationRows(id) : registrations' \in With(registrations, row)
  BY DEF RunRegistration
<1>0. PICK row \in RegistrationRows(id) : registrations' \in With(registrations, row)
  BY <1>1
<1>2. NewId(registrations) \in Nat /\ clock \in Nat /\ real \in BOOLEAN /\ NoRun \in Nat
  BY NewIds DEF TypeOK, NoRun
<1>3. ASSUME NEW state \in {"SUCCESS", "ABSTAIN", "BLOCKED"}, NEW s \in Nat,
             row = RegistrationRun(state, s)
      PROVE  /\ row \in RegistrationRow
             /\ row.id = NewId(registrations) /\ row.at = clock
             /\ row.state = state /\ row.spatial = s /\ row.for_real = real
  BY <1>2, <1>3 DEF RegistrationRun, RegistrationRow
<1>4. ASSUME NEW answer \in {"BLOCKED", "ABSTAIN"}, row = RegistrationRun(answer, NoRun)
      PROVE  \E r \in RegistrationRow :
                /\ Written(registrations, registrations', RegistrationRow, r)
                /\ RegistrationStands(r)
  <2>1. row \in RegistrationRow /\ row.id = NewId(registrations) /\ row.at = clock
        /\ row.state = answer
    BY <1>2, <1>3, <1>4
  <2>2. QED
    BY <1>0, <2>1 DEF Written, RegistrationStands
<1>5. ASSUME id # NoRun, NEW answer \in RegistrationAnswers(Get(spatials, id)),
             row = RegistrationRun(answer, id)
      PROVE  \E r \in RegistrationRow :
                /\ Written(registrations, registrations', RegistrationRow, r)
                /\ RegistrationStands(r)
  <2>1. PICK s \in Range(spatials) : s.id = id /\ Get(spatials, id) = s
    BY <1>5, SpatialResolved
  <2>2. /\ answer \in {"SUCCESS", "ABSTAIN", "BLOCKED"}
        /\ answer = "SUCCESS" => Usable(s) /\ ~ (real /\ s.synthetic)
    <3>1. answer \in RegistrationAnswers(s)
      BY <1>5, <2>1
    <3>2. CASE ~ Usable(s)
      BY <3>1, <3>2 DEF RegistrationAnswers
    <3>3. CASE Usable(s) /\ real /\ s.synthetic
      BY <3>1, <3>3 DEF RegistrationAnswers
    <3>4. CASE Usable(s) /\ ~ (real /\ s.synthetic)
      BY <3>1, <3>4 DEF RegistrationAnswers
    <3>5. QED
      BY <3>2, <3>3, <3>4
  <2>3. id \in Nat
    <3>1. s \in SpatialRow
      BY RowsOfListing DEF TypeOK
    <3>2. QED
      BY <2>1, <3>1 DEF SpatialRow
  <2>4. /\ row \in RegistrationRow
        /\ row.id = NewId(registrations) /\ row.at = clock
        /\ row.state = answer /\ row.spatial = id /\ row.for_real = real
    BY <1>3, <1>5, <2>2, <2>3
  <2>5. RegistrationStands(row)
    BY <2>1, <2>2, <2>4 DEF RegistrationStands
  <2>6. QED
    BY <1>0, <2>4, <2>5 DEF Written
<1>6. QED
  BY <1>0, <1>4, <1>5 DEF RegistrationRows

-------------------------------------------------------------------------------
(***************************************************************************)
(* The execution of a routing decision, and what each step leaves alone.   *)
(***************************************************************************)

LEMMA ExecutingRow ==
  ASSUME TypeOK, JobStands, job.routing # NoRun
  PROVE  \E r \in Range(routings) :
            /\ r.id = job.routing /\ Get(routings, job.routing) = r
            /\ r \in RoutingRow
            /\ r.state = "ROUTED" /\ r.execution = NotExecuted /\ Underway(r)
            /\ \A q \in Range(routings) : q.id = job.routing => q = r
<1>1. PICK r \in Range(routings) :
        r.id = job.routing /\ r.state = "ROUTED" /\ r.execution = NotExecuted
        /\ Underway(r)
  BY DEF JobStands
<1>2. Listing(routings, RoutingRow)
  BY DEF TypeOK
<1>3. r \in RoutingRow /\ Get(routings, r.id) = r
      /\ \A q \in Range(routings) : q.id = r.id => q = r
  BY <1>2, RowsOfListing
<1>4. QED
  BY <1>1, <1>3

\* A dispatch writes the run of the current matcher and takes it for the run of
\* the execution that ended last.
LEMMA DispatchWritten ==
  ASSUME TypeOK, JobStands, Dispatch
  PROVE  \E row \in MatchRow :
            /\ Written(matches, matches', MatchRow, row)
            /\ row.by = job.current /\ job.current \in Matcher
            /\ job'.routing = job.routing
            /\ job'.tried = Append(job.tried, job.current)
            /\ job'.runs = RunsWith(row.id)
            /\ job'.reason \in BOOLEAN
            /\ job'.current = (IF row.found THEN NoMatcher ELSE NextRoute)
            /\ row.found \in BOOLEAN
            /\ job' = [routing |-> job.routing, current |-> job'.current,
                       tried |-> job'.tried, runs |-> job'.runs,
                       reason |-> job'.reason]
<1>1. PICK outcome \in Outcomes :
        /\ matches' \in With(matches, MatchRun(job.current, outcome))
        /\ job' = [job EXCEPT
              !.tried = Append(@, job.current),
              !.runs = RunsWith(MatchRun(job.current, outcome).id),
              !.reason = @ \/ ~ outcome.found,
              !.current = IF outcome.found THEN NoMatcher ELSE NextRoute]
  BY DEF Dispatch
<1>2. job \in [routing : Nat, current : Matcher \cup {NoMatcher},
               tried : Seq(Matcher), runs : Runs, reason : BOOLEAN]
  BY DEF TypeOK
<1>3. job.current \in Matcher
  BY <1>2 DEF Dispatch, Continues
<1>4. PICK row : row = MatchRun(job.current, outcome)
  OBVIOUS
<1>5. /\ row \in MatchRow /\ row.id = NewId(matches) /\ row.at = clock
      /\ row.by = job.current /\ row.found = outcome.found
      /\ outcome.found \in BOOLEAN
  BY <1>3, <1>4, MatchRunIsRow
<1>6. Written(matches, matches', MatchRow, row)
  BY <1>1, <1>4, <1>5 DEF Written
<1>7. job' = [job EXCEPT
         !.tried = Append(@, job.current),
         !.runs = RunsWith(row.id),
         !.reason = @ \/ ~ outcome.found,
         !.current = IF row.found THEN NoMatcher ELSE NextRoute]
  BY <1>1, <1>4, <1>5
<1>8. /\ job'.routing = job.routing
      /\ job'.tried = Append(job.tried, job.current)
      /\ job'.runs = RunsWith(row.id)
      /\ job'.current = IF row.found THEN NoMatcher ELSE NextRoute
  BY <1>2, <1>7
<1>9. job'.reason = (job.reason \/ ~ outcome.found)
  BY <1>2, <1>7, Zenon
<1>10. job'.reason \in BOOLEAN
  BY <1>9
<1>11. job' = [routing |-> job.routing, current |-> job'.current,
               tried |-> job'.tried, runs |-> job'.runs, reason |-> job'.reason]
  BY <1>2, <1>7
<1>12. QED
  BY <1>3, <1>5, <1>6, <1>8, <1>10, <1>11

LEMMA RunsWithIsTyped ==
  ASSUME TypeOK, job.current \in Matcher, NEW id \in Nat
  PROVE  /\ RunsWith(id) \in Runs
         /\ job.current \in DOMAIN RunsWith(id) /\ RunsWith(id)[job.current] = id
         /\ Range(RunsWith(id)) \subseteq Range(job.runs) \cup {id}
<1>1. PICK tried \in SUBSET Matcher : job.runs \in [tried -> Nat]
  BY DEF TypeOK, Runs
<1>2. DOMAIN job.runs = tried
  BY <1>1
<1>3. RunsWith(id) \in [tried \cup {job.current} -> Nat]
  BY <1>1, <1>2 DEF RunsWith
<1>4. tried \cup {job.current} \in SUBSET Matcher
  OBVIOUS
<1>5. RunsWith(id) \in Runs
  BY <1>3, <1>4 DEF Runs
<1>6. Range(RunsWith(id)) \subseteq Range(job.runs) \cup {id}
  BY <1>2 DEF RunsWith, Range
<1>7. QED
  BY <1>5, <1>6 DEF RunsWith

\* The row of a routing run after the execution in progress was recorded.
Recorded(r) ==
    IF r.id # job.routing THEN r
    ELSE [r EXCEPT !.execution =
             [tried |-> job.tried, runs |-> job.runs, fallback_used |-> job.reason]]

LEMMA RecordedRow ==
  ASSUME TypeOK, NEW r \in RoutingRow
  PROVE  /\ Recorded(r) \in RoutingRow
         /\ Recorded(r).id = r.id /\ Recorded(r).at = r.at
         /\ Recorded(r).state = r.state
         /\ Recorded(r).primary = r.primary /\ Recorded(r).fallback = r.fallback
         /\ [Recorded(r) EXCEPT !.execution = r.execution] = r
         /\ r.id = job.routing =>
               /\ Recorded(r).execution.tried = job.tried
               /\ Recorded(r).execution.runs = job.runs
<1>1. r = [id |-> r.id, at |-> r.at, state |-> r.state, primary |-> r.primary,
           fallback |-> r.fallback, execution |-> r.execution]
      /\ r.id \in Nat /\ r.at \in Nat /\ r.state \in {"ROUTED", "BLOCKED", "ABSTAIN", "FAILED"}
      /\ r.primary \in Matcher \cup {NoMatcher}
      /\ r.fallback \in Matcher \cup {NoMatcher} /\ r.execution \in Execution
  BY DEF RoutingRow
<1>2. PICK e : e = [tried |-> job.tried, runs |-> job.runs, fallback_used |-> job.reason]
  OBVIOUS
<1>3. e \in Execution /\ e.tried = job.tried /\ e.runs = job.runs
  BY <1>2 DEF TypeOK, Execution
<1>4. Recorded(r) = IF r.id # job.routing THEN r ELSE [r EXCEPT !.execution = e]
  BY <1>2 DEF Recorded
<1>5. CASE r.id # job.routing
  BY <1>1, <1>4, <1>5
<1>6. CASE r.id = job.routing
  <2>1. Recorded(r) = [id |-> r.id, at |-> r.at, state |-> r.state,
                       primary |-> r.primary, fallback |-> r.fallback,
                       execution |-> e]
    BY <1>1, <1>4, <1>6
  <2>2. Recorded(r) \in RoutingRow
    BY <1>1, <1>3, <2>1 DEF RoutingRow
  <2>3. [Recorded(r) EXCEPT !.execution = r.execution] = r
    BY <1>1, <2>1
  <2>4. QED
    BY <1>3, <2>1, <2>2, <2>3
<1>7. QED
  BY <1>5, <1>6

LEMMA RecordingListing ==
  ASSUME TypeOK, RecordExecution
  PROVE  /\ ListingAt(routings', RoutingRow, clock)
         /\ \A r \in Range(routings) : Recorded(r) \in Range(routings')
         /\ \A q \in Range(routings') : \E r \in Range(routings) : q = Recorded(r)
<1>1. Listing(routings, RoutingRow)
  BY DEF TypeOK
<1>2. Len(routings) \in Nat /\ DOMAIN routings = 1 .. Len(routings)
      /\ \A i \in DOMAIN routings :
            routings[i] \in RoutingRow /\ routings[i] \in Range(routings)
  BY <1>1, RowsOfListing
<1>3. routings' = [i \in DOMAIN routings |-> Recorded(routings[i])]
  BY DEF RecordExecution, Recorded
<1>4. \A i \in DOMAIN routings : Recorded(routings[i]) \in RoutingRow
                                 /\ Recorded(routings[i]).id = routings[i].id
                                 /\ Recorded(routings[i]).at = routings[i].at
  BY <1>2, RecordedRow
<1>5. DOMAIN routings' = DOMAIN routings
      /\ \A i \in DOMAIN routings : routings'[i] = Recorded(routings[i])
  BY <1>3
<1>6. routings' \in [1 .. Len(routings) -> RoutingRow]
  BY <1>2, <1>3, <1>4
<1>7. routings' \in Seq(RoutingRow)
  BY <1>2, <1>6, SeqDef
<1>8. Len(routings') = Len(routings)
  BY <1>2, <1>6, <1>7, LenProperties
<1>9. /\ \A i \in DOMAIN routings : routings[i].id \in 1 .. Len(routings)
                                    /\ routings[i].at <= clock
      /\ \A i, j \in DOMAIN routings : routings[i].id = routings[j].id => i = j
  BY <1>1 DEF Listing
<1>10. ListingAt(routings', RoutingRow, clock)
  BY <1>4, <1>5, <1>7, <1>8, <1>9 DEF ListingAt
<1>11. QED
  BY <1>5, <1>10 DEF Range

LEMMA Frame ==
  ASSUME [Next]_vars
  PROVE  /\ conditions' = conditions \/ RunConditions
         /\ routings' = routings \/ RunRouting \/ RecordExecution
         /\ matches' = matches \/ RunMatcher \/ Dispatch
         /\ trusts' = trusts \/ RunTrust
         /\ spatials' = spatials \/ RunSpatial
         /\ registrations' = registrations \/ RunRegistration
         /\ \/ job' = job \/ job' = NoJob \/ Dispatch
            \/ \E i \in DOMAIN routings : ExecuteBegin(routings[i])
<1>1. CASE UNCHANGED vars
  BY <1>1 DEF vars, history, world
<1>2. CASE RunConditions
  BY <1>2 DEF RunConditions
<1>3. CASE RunRouting
  BY <1>3 DEF RunRouting
<1>4. CASE RunMatcher
  BY <1>4 DEF RunMatcher
<1>5. ASSUME NEW i \in DOMAIN routings, ExecuteBegin(routings[i])
      PROVE  UNCHANGED history
  BY <1>5 DEF ExecuteBegin
<1>6. CASE Dispatch
  BY <1>6 DEF Dispatch
<1>7. CASE DispatchRaises
  BY <1>7 DEF DispatchRaises, history
<1>8. CASE RecordExecution
  BY <1>8 DEF RecordExecution
<1>9. CASE RunTrust
  BY <1>9 DEF RunTrust
<1>10. CASE RunSpatial
  BY <1>10 DEF RunSpatial
<1>11. CASE RunRegistration
  BY <1>11 DEF RunRegistration
<1>12. CASE Elsewhere
  BY <1>12 DEF Elsewhere, Tick, Prepare, ReplaceRecord, Crash, history
<1>13. CASE \E i \in DOMAIN routings : ExecuteBegin(routings[i])
  BY <1>5, <1>13 DEF history
<1>14. QED
  BY <1>1, <1>2, <1>3, <1>4, <1>6, <1>7, <1>8, <1>9, <1>10, <1>11, <1>12, <1>13
     DEF Next, MatchingNext, VerdictsNext, Execute

LEMMA WorldIsTyped ==
  ASSUME TypeOK, [Next]_vars
  PROVE  /\ clock \in Nat /\ clock' \in Nat /\ clock <= clock'
         /\ crashes' \in Nat /\ real' \in BOOLEAN /\ replaced' \in Nat
         /\ m2' \in [ready : BOOLEAN, version : Nat]
<1>1. clock \in Nat /\ crashes \in Nat /\ real \in BOOLEAN /\ replaced \in Nat
      /\ m2 \in [ready : BOOLEAN, version : Nat]
  BY DEF TypeOK
<1>2. CASE UNCHANGED world
  BY <1>1, <1>2 DEF world
<1>3. CASE Tick
  BY <1>1, <1>3 DEF Tick
<1>4. CASE Prepare
  <2>1. PICK ready \in BOOLEAN : m2' = [ready |-> ready, version |-> m2.version + 1]
    BY <1>4 DEF Prepare
  <2>2. m2.version + 1 \in Nat
    BY <1>1
  <2>3. m2' \in [ready : BOOLEAN, version : Nat]
    BY <2>1, <2>2
  <2>4. QED
    BY <1>1, <1>4, <2>3 DEF Prepare
<1>5. CASE ReplaceRecord
  <2>1. real' \in BOOLEAN
    BY <1>5 DEF ReplaceRecord
  <2>2. QED
    BY <1>1, <1>5, <2>1 DEF ReplaceRecord
<1>6. CASE Crash
  BY <1>1, <1>6 DEF Crash
<1>7. UNCHANGED world \/ Elsewhere
  BY DEF Next, MatchingNext, VerdictsNext, Execute, vars, RunConditions, RunRouting,
         RunMatcher, ExecuteBegin, Dispatch, DispatchRaises, RecordExecution,
         RunTrust, RunSpatial, RunRegistration
<1>8. QED
  BY <1>2, <1>3, <1>4, <1>5, <1>6, <1>7 DEF Elsewhere

LEMMA HistoriesGrow ==
  ASSUME TypeOK, RoutingsStand, JobStands, TrustsStand, [Next]_vars
  PROVE  /\ Grows(conditions, conditions', ConditionRow)
         /\ Grows(routings, routings', RoutingRow) \/ RecordExecution
         /\ Grows(matches, matches', MatchRow)
         /\ Grows(trusts, trusts', TrustRow)
         /\ Grows(spatials, spatials', SpatialRow)
         /\ Grows(registrations, registrations', RegistrationRow)
<1>1. Grows(conditions, conditions', ConditionRow)
  BY Frame, ConditionWritten DEF Grows
<1>2. Grows(routings, routings', RoutingRow) \/ RecordExecution
  BY Frame, RoutingWritten DEF Grows
<1>3. Grows(matches, matches', MatchRow)
  BY Frame, MatchWritten, DispatchWritten DEF Grows
<1>4. Grows(trusts, trusts', TrustRow)
  BY Frame, TrustWritten DEF Grows
<1>5. Grows(spatials, spatials', SpatialRow)
  BY Frame, SpatialWritten DEF Grows
<1>6. Grows(registrations, registrations', RegistrationRow)
  BY Frame, RegistrationWritten DEF Grows
<1>7. QED
  BY <1>1, <1>2, <1>3, <1>4, <1>5, <1>6

\* No step takes a row away or changes one, but for the record of an execution.
LEMMA RowsStay ==
  ASSUME TypeOK, RoutingsStand, JobStands, TrustsStand, [Next]_vars
  PROVE  /\ Range(conditions) \subseteq Range(conditions')
         /\ Range(matches) \subseteq Range(matches')
         /\ Range(trusts) \subseteq Range(trusts')
         /\ Range(spatials) \subseteq Range(spatials')
         /\ Range(registrations) \subseteq Range(registrations')
         /\ \A r \in Range(routings) : \E q \in Range(routings') :
               /\ [q EXCEPT !.execution = r.execution] = r
               /\ r.execution # NotExecuted => q = r
         /\ Len(matches) \in Nat /\ Len(matches') \in Nat
         /\ Len(matches) <= Len(matches')
<1>1. /\ Listing(conditions, ConditionRow) /\ Listing(routings, RoutingRow)
      /\ Listing(matches, MatchRow) /\ Listing(trusts, TrustRow)
      /\ Listing(spatials, SpatialRow) /\ Listing(registrations, RegistrationRow)
  BY DEF TypeOK
<1>2. /\ Range(conditions) \subseteq Range(conditions')
      /\ Range(matches) \subseteq Range(matches')
      /\ Range(trusts) \subseteq Range(trusts')
      /\ Range(spatials) \subseteq Range(spatials')
      /\ Range(registrations) \subseteq Range(registrations')
      /\ Len(matches) \in Nat /\ Len(matches') \in Nat
      /\ Len(matches) <= Len(matches')
  BY <1>1, HistoriesGrow, GrownRows
<1>3. ASSUME NEW r \in Range(routings)
      PROVE  \E q \in Range(routings') :
                /\ [q EXCEPT !.execution = r.execution] = r
                /\ r.execution # NotExecuted => q = r
  <2>1. r \in RoutingRow
    BY <1>1, RowsOfListing
  <2>2. CASE Grows(routings, routings', RoutingRow)
    <3>1. r \in Range(routings')
      BY <1>1, <2>2, GrownRows
    <3>2. [r EXCEPT !.execution = r.execution] = r
      BY <2>1 DEF RoutingRow
    <3>3. QED
      BY <3>1, <3>2
  <2>3. CASE RecordExecution
    <3>1. Recorded(r) \in Range(routings')
      BY <2>3, RecordingListing
    <3>2. [Recorded(r) EXCEPT !.execution = r.execution] = r
      BY <2>1, RecordedRow
    <3>3. r.execution # NotExecuted => Recorded(r) = r
      <4>1. job.routing # NoRun
        BY <2>3 DEF RecordExecution
      <4>2. r.id = job.routing => r.execution = NotExecuted
        BY <4>1, ExecutingRow
      <4>3. QED
        BY <4>2 DEF Recorded
    <3>4. QED
      BY <3>1, <3>2, <3>3
  <2>4. QED
    BY <2>2, <2>3, HistoriesGrow
<1>4. QED
  BY <1>2, <1>3

JobType ==
    [routing : Nat, current : Matcher \cup {NoMatcher}, tried : Seq(Matcher),
     runs : Runs, reason : BOOLEAN]

LEMMA JobIsTyped ==
  ASSUME TypeOK, RoutingsStand, JobStands, [Next]_vars
  PROVE  job' \in JobType
<1>1. job \in JobType
  BY DEF TypeOK, JobType
<1>2. NoJob \in JobType
  <2>1. NoRuns \in Runs /\ <<>> \in Seq(Matcher) /\ NoRun \in Nat
    BY NotExecutedIsTyped DEF NoRun
  <2>2. QED
    BY <2>1 DEF NoJob, JobType
<1>3. ASSUME NEW i \in DOMAIN routings, ExecuteBegin(routings[i])
      PROVE  job' \in JobType
  <2>1. routings[i] \in RoutingRow
    BY RowsOfListing DEF TypeOK
  <2>2. routings[i].id \in Nat /\ routings[i].primary \in Matcher \cup {NoMatcher}
    BY <2>1 DEF RoutingRow
  <2>3. job' = [NoJob EXCEPT !.routing = routings[i].id, !.current = routings[i].primary]
    BY <1>3 DEF ExecuteBegin
  <2>4. QED
    BY <1>2, <2>2, <2>3 DEF JobType
<1>4. CASE Dispatch
  <2>1. PICK row \in MatchRow :
          /\ job.current \in Matcher
          /\ job'.routing = job.routing
          /\ job'.tried = Append(job.tried, job.current)
          /\ job'.runs = RunsWith(row.id)
          /\ job'.reason \in BOOLEAN
          /\ job'.current = (IF row.found THEN NoMatcher ELSE NextRoute)
          /\ job' = [routing |-> job.routing, current |-> job'.current,
                     tried |-> job'.tried, runs |-> job'.runs,
                     reason |-> job'.reason]
    BY <1>4, DispatchWritten
  <2>2. job.routing \in Nat /\ job.tried \in Seq(Matcher)
    BY <1>1 DEF JobType
  <2>3. Append(job.tried, job.current) \in Seq(Matcher)
    BY <2>1, <2>2, AppendProperties
  <2>4. RunsWith(row.id) \in Runs
    <3>1. row.id \in Nat
      BY DEF MatchRow
    <3>2. QED
      BY <2>1, <3>1, RunsWithIsTyped
  <2>5. NextRoute \in Matcher \cup {NoMatcher}
    <3>1. job.routing # NoRun
      BY <1>4 DEF Dispatch, Continues
    <3>2. Get(routings, job.routing) \in RoutingRow
      BY <3>1, ExecutingRow
    <3>3. QED
      BY <3>2 DEF NextRoute, RoutingRow
  <2>6. job'.current \in Matcher \cup {NoMatcher}
    BY <2>1, <2>5
  <2>7. QED
    BY <2>1, <2>2, <2>3, <2>4, <2>6 DEF JobType
<1>5. QED
  BY <1>1, <1>2, <1>3, <1>4, Frame

LEMMA TypesKept ==
  ASSUME TypeOK, RoutingsStand, JobStands, TrustsStand, [Next]_vars
  PROVE  TypeOK'
<1>1. /\ Listing(conditions, ConditionRow) /\ Listing(routings, RoutingRow)
      /\ Listing(matches, MatchRow) /\ Listing(trusts, TrustRow)
      /\ Listing(spatials, SpatialRow) /\ Listing(registrations, RegistrationRow)
  BY DEF TypeOK
<1>2. clock \in Nat /\ clock' \in Nat /\ clock <= clock'
  BY WorldIsTyped
<1>3. /\ ListingAt(conditions', ConditionRow, clock')
      /\ ListingAt(matches', MatchRow, clock')
      /\ ListingAt(trusts', TrustRow, clock')
  BY <1>1, <1>2, HistoriesGrow, GrownListing, RowTypes
<1>4. /\ ListingAt(spatials', SpatialRow, clock')
      /\ ListingAt(registrations', RegistrationRow, clock')
  BY <1>1, <1>2, HistoriesGrow, GrownListing, RowTypes
<1>5. ListingAt(routings', RoutingRow, clock')
  <2>1. CASE Grows(routings, routings', RoutingRow)
    BY <1>1, <1>2, <2>1, GrownListing, RowTypes
  <2>2. CASE RecordExecution
    <3>1. clock' = clock
      BY <2>2 DEF RecordExecution, world
    <3>2. QED
      BY <2>2, <3>1, RecordingListing
  <2>3. QED
    BY <2>1, <2>2, HistoriesGrow
<1>6. job' \in JobType
  BY JobIsTyped
<1>7. /\ crashes' \in Nat /\ real' \in BOOLEAN /\ replaced' \in Nat
      /\ m2' \in [ready : BOOLEAN, version : Nat]
  BY WorldIsTyped
<1>8. QED
  BY <1>2, <1>3, <1>4, <1>5, <1>6, <1>7
     DEF TypeOK, Listing, ListingAt, JobType, ConditionRow, RoutingRow, MatchRow,
         TrustRow, SpatialRow, RegistrationRow, Blocked, Failed

LEMMA NewestFirstKept ==
  ASSUME TypeOK, RoutingsStand, JobStands, TrustsStand, NewestFirst, [Next]_vars
  PROVE  NewestFirst'
<1>1. ASSUME NEW Row, \A r \in Row : r.at \in Nat, NEW runs, Listing(runs, Row),
             Sorted(runs), NEW longer, Grows(runs, longer, Row)
      PROVE  Sorted(longer)
  <2>1. CASE longer = runs
    BY <1>1, <2>1
  <2>2. ASSUME NEW row \in Row, Written(runs, longer, Row, row)
        PROVE  Sorted(longer)
    <3>1. runs \in Seq(Row) /\ \A k \in 1 .. Len(runs) : runs[k].at \in Nat
      BY <1>1, ElementOfSeq DEF Listing
    <3>2. row.at \in Nat /\ longer \in With(runs, row)
      BY <1>1, <2>2 DEF Written
    <3>3. QED
      BY <1>1, <3>1, <3>2, WithStaysSorted
  <2>3. QED
    BY <1>1, <2>1, <2>2 DEF Grows
<1>2. Listing(matches, MatchRow) /\ Listing(trusts, TrustRow)
  BY DEF TypeOK
<1>3. Sorted(matches) /\ Sorted(trusts)
  BY DEF NewestFirst
<1>4. Sorted(matches')
  BY <1>1, <1>2, <1>3, HistoriesGrow, RowTypes
<1>5. Sorted(trusts')
  BY <1>1, <1>2, <1>3, HistoriesGrow, RowTypes
<1>6. QED
  BY <1>4, <1>5 DEF NewestFirst, Sorted

-------------------------------------------------------------------------------
(***************************************************************************)
(* Each part of the invariant is kept by every step.                       *)
(***************************************************************************)

\* What was said of a row before a step is still true of it after.
LEMMA RowsStandLater ==
  ASSUME TypeOK, RoutingsStand, JobStands, TrustsStand, [Next]_vars
  PROVE  /\ \A r : ExecutionRecorded(r) => ExecutionRecorded(r)'
         /\ \A t : TrustStands(t) => TrustStands(t)'
         /\ \A s : SpatialStands(s) => SpatialStands(s)'
         /\ \A g : RegistrationStands(g) => RegistrationStands(g)'
<1>1. /\ Range(matches) \subseteq Range(matches')
      /\ Range(trusts) \subseteq Range(trusts')
      /\ Range(spatials) \subseteq Range(spatials')
      /\ Len(matches) \in Nat /\ Len(matches') \in Nat
      /\ Len(matches) <= Len(matches')
  BY RowsStay
<1>2. ASSUME NEW r, ExecutionRecorded(r) PROVE ExecutionRecorded(r)'
  <2> DEFINE e == r.execution
  <2>1. Range(e.runs) \subseteq 1 .. Len(matches')
    BY <1>1, <1>2 DEF ExecutionRecorded, MatchRunsOnly
  <2>2. e.tried # <<>> => \E m \in Range(matches') :
          /\ EndsWith(e.tried, e.runs, m)
          /\ m.found \/ Len(e.tried) = Limit \/ r.fallback = NoMatcher
    BY <1>1, <1>2 DEF ExecutionRecorded
  <2>3. QED
    BY <1>2, <2>1, <2>2 DEF ExecutionRecorded, MatchRunsOnly
<1>3. ASSUME NEW r \in Range(routings), NEW match, EndedWith(r, match)
      PROVE  r \in Range(routings')
  <2>1. r.execution # NotExecuted
    BY <1>3 DEF EndedWith, NotExecuted
  <2>2. QED
    BY <2>1, RowsStay
<1>4. ASSUME NEW t, TrustStands(t) PROVE TrustStands(t)'
  <2>1. \E m \in Range(matches') :
          /\ m.id = t.match /\ m.synthetic = t.synthetic
          /\ t.state = "ACCEPT" => m.status = "SUCCESS" /\ m.found
    BY <1>1, <1>4 DEF TrustStands
  <2>2. t.routing # NoRun => \E r \in Range(routings') :
          r.id = t.routing /\ EndedWith(r, t.match)
    BY <1>3, <1>4 DEF TrustStands
  <2>3. QED
    BY <1>4, <2>1, <2>2 DEF TrustStands
<1>5. ASSUME NEW s, SpatialStands(s) PROVE SpatialStands(s)'
  BY <1>1, <1>5 DEF SpatialStands
<1>6. ASSUME NEW g, RegistrationStands(g) PROVE RegistrationStands(g)'
  BY <1>1, <1>6 DEF RegistrationStands
<1>7. QED
  BY <1>2, <1>4, <1>5, <1>6

\* The rows after a service's step: those before it, and the one it wrote.
LEMMA WrittenRows ==
  ASSUME NEW Row, NEW runs, Listing(runs, Row), NEW longer, NEW row,
         Written(runs, longer, Row, row)
  PROVE  Range(longer) = Range(runs) \cup {row}
  BY WithAddsRow DEF Written, Listing

LEMMA TrustsKept ==
  ASSUME TypeOK, RoutingsStand, JobStands, TrustsStand, [Next]_vars
  PROVE  TrustsStand'
<1>1. SUFFICES ASSUME NEW t \in Range(trusts') PROVE TrustStands(t)
  BY RowsStandLater DEF TrustsStand
<1>2. CASE trusts' = trusts
  BY <1>1, <1>2 DEF TrustsStand
<1>3. CASE RunTrust
  <2>1. PICK row \in TrustRow :
          Written(trusts, trusts', TrustRow, row) /\ TrustStands(row)
    BY <1>3, TrustWritten
  <2>2. Range(trusts') = Range(trusts) \cup {row}
    BY <2>1, WrittenRows DEF TypeOK
  <2>3. QED
    BY <1>1, <2>1, <2>2 DEF TrustsStand
<1>4. QED
  BY <1>2, <1>3, Frame

LEMMA SpatialsKept ==
  ASSUME TypeOK, RoutingsStand, JobStands, TrustsStand, SpatialsStand, [Next]_vars
  PROVE  SpatialsStand'
<1>1. SUFFICES ASSUME NEW s \in Range(spatials') PROVE SpatialStands(s)
  BY RowsStandLater DEF SpatialsStand
<1>2. CASE spatials' = spatials
  BY <1>1, <1>2 DEF SpatialsStand
<1>3. CASE RunSpatial
  <2>1. PICK row \in SpatialRow :
          Written(spatials, spatials', SpatialRow, row) /\ SpatialStands(row)
    BY <1>3, SpatialWritten
  <2>2. Range(spatials') = Range(spatials) \cup {row}
    BY <2>1, WrittenRows DEF TypeOK
  <2>3. QED
    BY <1>1, <2>1, <2>2 DEF SpatialsStand
<1>4. QED
  BY <1>2, <1>3, Frame

LEMMA RegistrationsKept ==
  ASSUME TypeOK, RoutingsStand, JobStands, TrustsStand, RegistrationsStand,
         [Next]_vars
  PROVE  RegistrationsStand'
<1>1. SUFFICES ASSUME NEW g \in Range(registrations') PROVE RegistrationStands(g)
  BY RowsStandLater DEF RegistrationsStand
<1>2. CASE registrations' = registrations
  BY <1>1, <1>2 DEF RegistrationsStand
<1>3. CASE RunRegistration
  <2>1. PICK row \in RegistrationRow :
          /\ Written(registrations, registrations', RegistrationRow, row)
          /\ RegistrationStands(row)
    BY <1>3, RegistrationWritten
  <2>2. Range(registrations') = Range(registrations) \cup {row}
    BY <2>1, WrittenRows DEF TypeOK
  <2>3. QED
    BY <1>1, <2>1, <2>2 DEF RegistrationsStand
<1>4. QED
  BY <1>2, <1>3, Frame

\* When the loop ends, the last route was tried, or one that found candidates.
LEMMA RecordedExecution ==
  ASSUME TypeOK, RoutingsStand, JobStands, RecordExecution,
         NEW r \in Range(routings), r.id = job.routing
  PROVE  RoutingStands(Recorded(r))
<1>1. job.routing # NoRun /\ ~ Continues
  BY DEF RecordExecution
<1>2. /\ r \in RoutingRow /\ r.state = "ROUTED" /\ Underway(r)
  BY <1>1, ExecutingRow
<1>3. r.primary \in Matcher
  BY <1>2 DEF RoutingsStand, RoutingStands
<1>4. job.tried \in Seq(Matcher) /\ Len(job.tried) \in Nat
      /\ (job.tried # <<>> => Len(job.tried) # 0)
  BY EmptySeq DEF TypeOK
<1>5. max_fallback_attempts \in Nat
  BY BoundsAssumption
<1>6. job.current = NoMatcher \/ Len(job.tried) > max_fallback_attempts
  BY <1>1, <1>4, <1>5 DEF Continues
<1>7. job.tried # <<>>
  <2>1. ASSUME job.tried = <<>> PROVE FALSE
    <3>1. job.current = r.primary /\ Len(job.tried) = 0
      BY <1>2, <2>1 DEF Underway
    <3>2. r.primary # NoMatcher
      BY <1>3 DEF Matcher, Classical, Deep, NoMatcher
    <3>3. QED
      BY <1>5, <1>6, <3>1, <3>2
  <2>2. QED
    BY <2>1
<1>8. PICK m \in Range(matches) :
        /\ EndsWith(job.tried, job.runs, m)
        /\ m.found \/ job.current = IF Len(job.tried) = 1 THEN r.fallback
                                    ELSE NoMatcher
  BY <1>2, <1>7 DEF Underway
<1>9. Len(job.tried) <= max_fallback_attempts + 1 /\ Len(job.tried) <= 2
  BY <1>2 DEF Underway
<1>10. m.found \/ Len(job.tried) = Limit \/ r.fallback = NoMatcher
  <2>1. CASE Len(job.tried) = 1
    BY <1>5, <1>6, <1>8, <2>1 DEF Limit
  <2>2. CASE Len(job.tried) = 2
    BY <1>5, <1>9, <2>2 DEF Limit
  <2>3. Len(job.tried) = 1 \/ Len(job.tried) = 2
    <3> DEFINE n == Len(job.tried)
    <3>1. n \in Nat /\ n # 0 /\ n <= 2
      BY <1>4, <1>7, <1>9
    <3> HIDE DEF n
    <3>2. n = 1 \/ n = 2
      BY <3>1
    <3>3. QED
      BY <3>2 DEF n
  <2>4. QED
    BY <2>1, <2>2, <2>3
<1>11. /\ Recorded(r).state = r.state /\ Recorded(r).primary = r.primary
       /\ Recorded(r).fallback = r.fallback
       /\ Recorded(r).execution.tried = job.tried
       /\ Recorded(r).execution.runs = job.runs
  BY <1>2, RecordedRow
<1>12. MatchRunsOnly(job.runs)
  BY DEF JobStands
<1>13. ExecutionRecorded(Recorded(r))
  BY <1>7, <1>8, <1>10, <1>11, <1>12 DEF ExecutionRecorded
<1>14. QED
  BY <1>3, <1>11, <1>13 DEF RoutingStands

LEMMA RoutingsKept ==
  ASSUME TypeOK, RoutingsStand, JobStands, TrustsStand, [Next]_vars
  PROVE  RoutingsStand'
<1>1. SUFFICES ASSUME NEW r \in Range(routings') PROVE RoutingStands(r)
  BY RowsStandLater DEF RoutingsStand, RoutingStands
<1>2. CASE routings' = routings
  BY <1>1, <1>2 DEF RoutingsStand
<1>3. CASE RunRouting
  <2>1. PICK row \in RoutingRow :
          /\ Written(routings, routings', RoutingRow, row)
          /\ row.execution = NotExecuted
          /\ row.state = "ROUTED" => row.primary \in Matcher
    BY <1>3, RoutingWritten
  <2>2. Range(routings') = Range(routings) \cup {row}
    BY <2>1, WrittenRows DEF TypeOK
  <2>3. RoutingStands(row)
    BY <2>1, NotExecutedIsTyped DEF RoutingStands, ExecutionRecorded, MatchRunsOnly
  <2>4. QED
    BY <1>1, <2>2, <2>3 DEF RoutingsStand
<1>4. CASE RecordExecution
  <2>1. PICK q \in Range(routings) : r = Recorded(q)
    BY <1>1, <1>4, RecordingListing
  <2>2. CASE q.id = job.routing
    BY <1>4, <2>1, <2>2, RecordedExecution
  <2>3. CASE q.id # job.routing
    BY <2>1, <2>3 DEF Recorded, RoutingsStand
  <2>4. QED
    BY <2>2, <2>3
<1>5. QED
  BY <1>2, <1>3, <1>4, Frame

LEMMA ApartKept ==
  ASSUME TypeOK, RoutingsStand, JobStands, ExecutionsApart, [Next]_vars
  PROVE  ExecutionsApart'
<1>1. SUFFICES ASSUME NEW r \in Range(routings'), NEW q \in Range(routings'),
                      RunsOf(r) \cap RunsOf(q) # {}
               PROVE  r.id = q.id
  BY DEF ExecutionsApart, RunsOf
<1>2. CASE routings' = routings
  BY <1>1, <1>2 DEF ExecutionsApart
<1>3. CASE RunRouting
  <2>1. PICK row \in RoutingRow :
          Written(routings, routings', RoutingRow, row) /\ row.execution = NotExecuted
    BY <1>3, RoutingWritten
  <2>2. Range(routings') = Range(routings) \cup {row}
    BY <2>1, WrittenRows DEF TypeOK
  <2>3. RunsOf(row) = {}
    BY <2>1, NotExecutedIsTyped DEF RunsOf
  <2>4. QED
    BY <1>1, <2>2, <2>3 DEF ExecutionsApart
<1>4. CASE RecordExecution
  <2>1. PICK s \in Range(routings) : r = Recorded(s)
    BY <1>1, <1>4, RecordingListing
  <2>2. PICK t \in Range(routings) : q = Recorded(t)
    BY <1>1, <1>4, RecordingListing
  <2>3. s \in RoutingRow /\ t \in RoutingRow
    BY RowsOfListing DEF TypeOK
  <2>4. \A u \in Range(routings) : Range(job.runs) \cap RunsOf(u) = {}
    BY DEF JobStands
  <2>5. ASSUME NEW u \in RoutingRow
        PROVE  RunsOf(Recorded(u)) = IF u.id = job.routing THEN Range(job.runs)
                                     ELSE RunsOf(u)
    BY <2>5, RecordedRow DEF RunsOf, Recorded
  <2>6. r.id = s.id /\ q.id = t.id
    BY <2>1, <2>2, <2>3, RecordedRow
  <2>7. CASE s.id = job.routing /\ t.id = job.routing
    BY <2>6, <2>7
  <2>8. CASE s.id = job.routing /\ t.id # job.routing
    BY <1>1, <2>1, <2>2, <2>3, <2>4, <2>5, <2>8
  <2>9. CASE s.id # job.routing /\ t.id = job.routing
    BY <1>1, <2>1, <2>2, <2>3, <2>4, <2>5, <2>9
  <2>10. CASE s.id # job.routing /\ t.id # job.routing
    BY <1>1, <2>1, <2>2, <2>10 DEF ExecutionsApart, Recorded
  <2>11. QED
    BY <2>7, <2>8, <2>9, <2>10
<1>5. QED
  BY <1>2, <1>3, <1>4, Frame

\* The execution in progress after a dispatch: the run that was written is its
\* own, and it goes on to the fallback, once, if nothing was found.
LEMMA JobAfterDispatch ==
  ASSUME TypeOK, RoutingsStand, JobStands, TrustsStand, [Next]_vars, Dispatch
  PROVE  JobStands'
<1>1. PICK row \in MatchRow :
        /\ Written(matches, matches', MatchRow, row)
        /\ row.by = job.current /\ job.current \in Matcher
        /\ job'.routing = job.routing
        /\ job'.tried = Append(job.tried, job.current)
        /\ job'.runs = RunsWith(row.id)
        /\ job'.current = (IF row.found THEN NoMatcher ELSE NextRoute)
  BY DispatchWritten
<1>2. /\ job.routing # NoRun /\ job.current # NoMatcher
      /\ Len(job.tried) <= max_fallback_attempts
      /\ routings' = routings
  BY DEF Dispatch, Continues
<1>3. PICK r \in Range(routings) :
        /\ r.id = job.routing /\ Get(routings, job.routing) = r
        /\ r.state = "ROUTED" /\ r.execution = NotExecuted /\ Underway(r)
  BY <1>2, ExecutingRow
<1>4. Listing(matches, MatchRow)
  BY DEF TypeOK
<1>5. row \in Range(matches') /\ row.id = Len(matches) + 1
      /\ Len(matches') = Len(matches) + 1 /\ Len(matches) \in Nat
  <2>1. Range(matches') = Range(matches) \cup {row}
    BY <1>1, <1>4, WrittenRows
  <2>2. Len(matches') = Len(matches) + 1
    BY <1>1, <1>4, WithAddsRow DEF Written, Listing
  <2>3. Len(matches) \in Nat
    BY <1>4, RowsOfListing
  <2>4. QED
    BY <1>1, <2>1, <2>2, <2>3 DEF Written, NewId
<1>6. job.tried \in Seq(Matcher) /\ Len(job.tried) \in Nat
      /\ (job.tried = <<>> <=> Len(job.tried) = 0)
  BY EmptySeq DEF TypeOK
<1>7. /\ Len(job'.tried) = Len(job.tried) + 1
      /\ job'.tried[Len(job.tried) + 1] = job.current
      /\ job'.tried # <<>>
  BY <1>1, <1>6, AppendProperties
<1>8. Last(job'.tried) = job.current
  BY <1>7 DEF Last
<1>9. /\ job.current \in DOMAIN RunsWith(row.id) /\ RunsWith(row.id)[job.current] = row.id
      /\ Range(job'.runs) \subseteq Range(job.runs) \cup {row.id}
  BY <1>1, <1>5, RunsWithIsTyped
<1>10. EndsWith(job'.tried, job'.runs, row)
  BY <1>1, <1>8, <1>9 DEF EndsWith
<1>11. /\ Len(job.tried) <= 1
       /\ NextRoute = IF Len(job.tried) = 0 THEN r.fallback ELSE NoMatcher
  <2>1. Len(job.tried) <= 2 /\ Len(job.tried) # 2
    BY <1>2, <1>3 DEF Underway
  <2>2. Len(job.tried) <= 1
    <3> DEFINE n == Len(job.tried)
    <3>1. n \in Nat /\ n <= 2 /\ n # 2
      BY <1>6, <2>1
    <3> HIDE DEF n
    <3>2. n <= 1
      BY <3>1
    <3>3. QED
      BY <3>2 DEF n
  <2>3. NextRoute = IF Len(job.tried) = 0 THEN r.fallback ELSE NoMatcher
    BY <1>3, <1>6 DEF NextRoute
  <2>4. QED
    BY <2>2, <2>3
<1>12. row.found \/ job'.current = IF Len(job'.tried) = 1 THEN r.fallback
                                   ELSE NoMatcher
  BY <1>1, <1>6, <1>7, <1>11
<1>13. Len(job'.tried) = 2 => job'.current = NoMatcher
  BY <1>1, <1>6, <1>7, <1>11
<1>14. Len(job'.tried) <= max_fallback_attempts + 1 /\ Len(job'.tried) <= 2
  BY <1>2, <1>6, <1>7, <1>11, BoundsAssumption
<1>15. Underway(r)'
  BY <1>5, <1>7, <1>10, <1>12, <1>13, <1>14 DEF Underway
<1>16. MatchRunsOnly(job.runs)'
  <2>1. Range(job.runs) \subseteq 1 .. Len(matches)
    BY DEF JobStands, MatchRunsOnly
  <2>2. Range(job'.runs) \subseteq 1 .. Len(matches')
    BY <1>5, <1>9, <2>1
  <2>3. QED
    BY <2>2 DEF MatchRunsOnly
<1>17. ASSUME NEW q \in Range(routings)
       PROVE  Range(job'.runs) \cap RunsOf(q) = {}
  <2>1. Range(job.runs) \cap RunsOf(q) = {}
    BY DEF JobStands
  <2>2. RunsOf(q) \subseteq 1 .. Len(matches)
    BY DEF RoutingsStand, RoutingStands, ExecutionRecorded, MatchRunsOnly, RunsOf
  <2>3. row.id \notin RunsOf(q)
    BY <1>5, <2>2
  <2>4. QED
    BY <1>9, <2>1, <2>3
<1>18. job'.routing # NoRun /\ r.id = job'.routing /\ r \in Range(routings')
  BY <1>1, <1>2, <1>3
<1>19. QED
  BY <1>2, <1>3, <1>15, <1>16, <1>17, <1>18 DEF JobStands

LEMMA JobKept ==
  ASSUME TypeOK, RoutingsStand, JobStands, TrustsStand, [Next]_vars
  PROVE  JobStands'
<1>1. CASE job' = NoJob
  <2>1. job'.routing = NoRun /\ job'.runs = NoRuns
    BY <1>1 DEF NoJob
  <2>2. Range(job'.runs) = {}
    BY <2>1, NotExecutedIsTyped
  <2>3. QED
    BY <1>1, <2>1, <2>2 DEF JobStands, MatchRunsOnly
<1>2. ASSUME NEW i \in DOMAIN routings, ExecuteBegin(routings[i])
      PROVE  JobStands'
  <2>1. PICK r \in Range(routings) : r = routings[i]
    BY RowsOfListing DEF TypeOK
  <2>2. /\ r.execution = NotExecuted /\ r.state = "ROUTED"
        /\ job' = [NoJob EXCEPT !.routing = r.id, !.current = r.primary]
        /\ routings' = routings /\ matches' = matches
    BY <1>2, <2>1 DEF ExecuteBegin, history
  <2>3. r.id # NoRun
    <3>1. r.id \in 1 .. Len(routings) /\ Len(routings) \in Nat
      BY RowsOfListing DEF TypeOK
    <3>2. QED
      BY <3>1 DEF NoRun
  <2>4. /\ job'.routing = r.id /\ job'.current = r.primary /\ job'.tried = <<>>
        /\ job'.runs = NoRuns /\ job'.reason = FALSE
    BY <2>2 DEF NoJob
  <2>5. Len(job'.tried) = 0 /\ max_fallback_attempts \in Nat
    BY <2>4, BoundsAssumption
  <2>6. Underway(r)'
    BY <2>4, <2>5 DEF Underway
  <2>7. Range(job'.runs) = {}
    BY <2>4, NotExecutedIsTyped
  <2>8. QED
    BY <2>2, <2>3, <2>4, <2>6, <2>7 DEF JobStands, MatchRunsOnly
<1>3. CASE Dispatch
  BY <1>3, JobAfterDispatch
<1>4. CASE job' = job /\ job # NoJob /\ ~ Dispatch
  <2>1. routings' = routings /\ matches' = matches
    <3>1. ~ RunRouting /\ ~ RunMatcher
      BY <1>4 DEF RunRouting, RunMatcher, Idle
    <3>2. ~ RecordExecution
      BY <1>4 DEF RecordExecution
    <3>3. QED
      BY <1>4, <3>1, <3>2, Frame
  <2>2. QED
    BY <1>4, <2>1 DEF JobStands, Underway, MatchRunsOnly
<1>5. QED
  BY <1>1, <1>2, <1>3, <1>4, Frame

-------------------------------------------------------------------------------
(***************************************************************************)
(* The invariant, and what follows from it.                                *)
(***************************************************************************)

LEMMA InitChainInv == Init => ChainInv
<1> SUFFICES ASSUME Init PROVE ChainInv
  OBVIOUS
<1>1. /\ clock = 0 /\ crashes = 0 /\ replaced = 0 /\ real \in BOOLEAN
      /\ m2 = [ready |-> FALSE, version |-> 0]
      /\ conditions = <<>> /\ routings = <<>> /\ matches = <<>>
      /\ trusts = <<>> /\ spatials = <<>> /\ registrations = <<>>
      /\ job = NoJob
  BY DEF Init
<1>2. ASSUME NEW Row PROVE Listing(<<>>, Row)
  <2>1. <<>> \in Seq(Row) /\ Len(<<>>) = 0 /\ DOMAIN <<>> = {}
    BY EmptySeq
  <2>2. QED
    BY <2>1 DEF Listing
<1>3. Range(<<>>) = {} /\ Sorted(<<>>)
  BY DEF Range, Sorted
<1>4. NoJob \in JobType
  <2>1. NoRuns \in Runs /\ <<>> \in Seq(Matcher) /\ NoRun \in Nat
    BY NotExecutedIsTyped DEF NoRun
  <2>2. QED
    BY <2>1 DEF NoJob, JobType
<1>5. m2 \in [ready : BOOLEAN, version : Nat]
  BY <1>1
<1>6. TypeOK
  BY <1>1, <1>2, <1>4, <1>5 DEF TypeOK, JobType
<1>7. NewestFirst /\ RoutingsStand /\ ExecutionsApart
      /\ TrustsStand /\ SpatialsStand /\ RegistrationsStand
  BY <1>1, <1>3 DEF NewestFirst, RoutingsStand, ExecutionsApart, TrustsStand,
                    SpatialsStand, RegistrationsStand
<1>8. JobStands
  <2>1. job.routing = NoRun /\ job.runs = NoRuns
    BY <1>1 DEF NoJob
  <2>2. QED
    BY <1>1, <1>3, <2>1, NotExecutedIsTyped DEF JobStands, MatchRunsOnly
<1>9. QED
  BY <1>6, <1>7, <1>8 DEF ChainInv

\* The inductive invariant holds in every reachable state: the chain of rows
\* that the services build is whole, and the execution in progress is that of
\* a decision that was not executed yet.
THEOREM ChainInvHolds == Spec => []ChainInv
<1>1. ASSUME ChainInv, [Next]_vars PROVE ChainInv'
  BY <1>1, TypesKept, NewestFirstKept, RoutingsKept, ApartKept, JobKept,
     TrustsKept, SpatialsKept, RegistrationsKept DEF ChainInv
<1>2. QED
  BY <1>1, InitChainInv, PTL DEF Spec

\* Every history lists typed runs, each with an id of its own.
THEOREM HistoriesAreTyped == Spec => []TypeOK
  BY ChainInvHolds, PTL DEF ChainInv

LEMMA FoundById ==
  ASSUME TypeOK
  PROVE  /\ \A r \in Range(routings) : Get(routings, r.id) = r /\ r.id # NoRun
         /\ \A m \in Range(matches) : Get(matches, m.id) = m /\ m.id # NoRun
         /\ \A t \in Range(trusts) : Get(trusts, t.id) = t /\ t.id # NoRun
         /\ \A s \in Range(spatials) : Get(spatials, s.id) = s /\ s.id # NoRun
<1>1. ASSUME NEW Row, NEW runs, Listing(runs, Row), NEW x \in Range(runs)
      PROVE  Get(runs, x.id) = x /\ x.id # NoRun
  <2>1. Get(runs, x.id) = x /\ x.id \in 1 .. Len(runs) /\ Len(runs) \in Nat
    BY <1>1, RowsOfListing
  <2>2. QED
    BY <2>1 DEF NoRun
<1>2. QED
  BY <1>1 DEF TypeOK

LEMMA ChainInvMakesOneChain == ChainInv => RegisteredFromOneChain
<1>1. SUFFICES ASSUME ChainInv, NEW i \in DOMAIN registrations,
                      registrations[i].state = "SUCCESS"
               PROVE  LET s == Get(spatials, registrations[i].spatial)
                          t == Get(trusts, s.trust)
                          m == Get(matches, t.match)
                      IN  /\ registrations[i].spatial # NoRun /\ s.trust # NoRun
                          /\ Usable(s) /\ t.state = "ACCEPT"
                          /\ s.match = t.match
                          /\ m.status = "SUCCESS" /\ m.found
  BY DEF RegisteredFromOneChain
<1>2. TypeOK /\ TrustsStand /\ SpatialsStand /\ RegistrationsStand
  BY <1>1 DEF ChainInv
<1>3. PICK s \in Range(spatials) : s.id = registrations[i].spatial /\ Usable(s)
  BY <1>1, <1>2 DEF RegistrationsStand, RegistrationStands, Range
<1>4. PICK t \in Range(trusts) :
        t.id = s.trust /\ t.state = "ACCEPT" /\ t.match = s.match
  BY <1>2, <1>3 DEF SpatialsStand, SpatialStands
<1>5. PICK m \in Range(matches) : m.id = t.match /\ m.status = "SUCCESS" /\ m.found
  BY <1>2, <1>4 DEF TrustsStand, TrustStands
<1>6. /\ Get(spatials, registrations[i].spatial) = s /\ registrations[i].spatial # NoRun
      /\ Get(trusts, s.trust) = t /\ s.trust # NoRun
      /\ Get(matches, t.match) = m
  BY <1>2, <1>3, <1>4, <1>5, FoundById
<1>7. QED
  BY <1>3, <1>4, <1>5, <1>6

\* A registration that succeeded rests on one usable spatial run, over the
\* accepting trust run that it was selected from, over the successful matcher
\* run with candidates that both name.
THEOREM RegistrationRestsOnOneChain == Spec => []RegisteredFromOneChain
  BY ChainInvHolds, ChainInvMakesOneChain, PTL

LEMMA ChainInvKeepsReal == ChainInv => RealFromReal
<1>1. SUFFICES ASSUME ChainInv PROVE RealFromReal
  OBVIOUS
<1>2. TypeOK /\ TrustsStand /\ SpatialsStand /\ RegistrationsStand
  BY <1>1 DEF ChainInv
<1>3. ASSUME NEW t \in Range(trusts)
      PROVE  Get(matches, t.match).synthetic = t.synthetic
  <2>1. PICK m \in Range(matches) : m.id = t.match /\ m.synthetic = t.synthetic
    BY <1>2 DEF TrustsStand, TrustStands
  <2>2. QED
    BY <1>2, <2>1, FoundById
<1>4. ASSUME NEW s \in Range(spatials), Usable(s)
      PROVE  Get(matches, s.match).synthetic = s.synthetic
  <2>1. PICK t \in Range(trusts) : t.match = s.match /\ t.synthetic = s.synthetic
    BY <1>2, <1>4 DEF SpatialsStand, SpatialStands
  <2>2. QED
    BY <1>3, <2>1
<1>5. ASSUME NEW i \in DOMAIN trusts, trusts[i].state = "ACCEPT" /\ trusts[i].for_real
      PROVE  ~ Get(matches, trusts[i].match).synthetic
  <2>1. trusts[i] \in Range(trusts)
    BY DEF Range
  <2>2. ~ trusts[i].synthetic
    BY <1>2, <1>5, <2>1 DEF TrustsStand, TrustStands
  <2>3. QED
    BY <1>3, <2>1, <2>2
<1>6. ASSUME NEW i \in DOMAIN spatials, Usable(spatials[i]) /\ spatials[i].for_real
      PROVE  ~ Get(matches, spatials[i].match).synthetic
  <2>1. spatials[i] \in Range(spatials)
    BY DEF Range
  <2>2. ~ spatials[i].synthetic
    BY <1>2, <1>6, <2>1 DEF SpatialsStand, SpatialStands
  <2>3. QED
    BY <1>4, <1>6, <2>1, <2>2
<1>7. ASSUME NEW i \in DOMAIN registrations,
             registrations[i].state = "SUCCESS" /\ registrations[i].for_real
      PROVE  ~ Get(matches, Get(spatials, registrations[i].spatial).match).synthetic
  <2>1. PICK s \in Range(spatials) :
          s.id = registrations[i].spatial /\ Usable(s) /\ ~ s.synthetic
    BY <1>2, <1>7 DEF RegistrationsStand, RegistrationStands, Range
  <2>2. Get(spatials, registrations[i].spatial) = s
    BY <1>2, <2>1, FoundById
  <2>3. QED
    BY <1>4, <2>1, <2>2
<1>8. QED
  BY <1>5, <1>6, <1>7 DEF RealFromReal

\* What a stage accepted, selected or registered for a pair that was registered
\* as real data rests on a matcher run that was not synthetic, however often
\* the pair's record was replaced.
THEOREM RealRestsOnReal == Spec => []RealFromReal
  BY ChainInvHolds, ChainInvKeepsReal, PTL

LEMMA ChainInvFinalRoute == ChainInv => FinalRouteStands
<1>1. SUFFICES ASSUME ChainInv, NEW i \in DOMAIN trusts, trusts[i].routing # NoRun
               PROVE  LET r == Get(routings, trusts[i].routing)
                          e == r.execution
                          m == Get(matches, trusts[i].match)
                      IN  /\ e.tried # <<>> /\ m.by = Last(e.tried)
                          /\ \/ m.found
                             \/ Len(e.tried) = IF max_fallback_attempts = 0 THEN 1 ELSE 2
                             \/ r.fallback = NoMatcher
  BY DEF FinalRouteStands
<1>2. TypeOK /\ TrustsStand /\ RoutingsStand
  BY <1>1 DEF ChainInv
<1>3. PICK r \in Range(routings) :
        r.id = trusts[i].routing /\ EndedWith(r, trusts[i].match)
  BY <1>1, <1>2 DEF TrustsStand, TrustStands, Range
<1>4. /\ r.execution.tried # <<>>
      /\ trusts[i].match = r.execution.runs[Last(r.execution.tried)]
  BY <1>3 DEF EndedWith, executed_matcher_run
<1>5. PICK m \in Range(matches) :
        /\ EndsWith(r.execution.tried, r.execution.runs, m)
        /\ m.found \/ Len(r.execution.tried) = Limit \/ r.fallback = NoMatcher
  BY <1>2, <1>4 DEF RoutingsStand, RoutingStands, ExecutionRecorded
<1>6. m.id = trusts[i].match /\ m.by = Last(r.execution.tried)
  BY <1>4, <1>5 DEF EndsWith
<1>7. Get(routings, trusts[i].routing) = r /\ Get(matches, trusts[i].match) = m
  BY <1>2, <1>3, <1>6, FoundById
<1>8. QED
  BY <1>4, <1>5, <1>6, <1>7 DEF Limit

\* A verdict that names a routing run judges the matcher run that its
\* execution ended with: one that found candidates, or the last it may try.
THEOREM VerdictJudgesFinalRoute == Spec => []FinalRouteStands
  BY ChainInvHolds, ChainInvFinalRoute, PTL

LEMMA ChainInvSharesNoRun == ChainInv => ExecutionsShareNoRun
<1>1. SUFFICES ASSUME ChainInv, NEW i \in DOMAIN routings, NEW j \in DOMAIN routings,
                      RunsOf(routings[i]) \cap RunsOf(routings[j]) # {}
               PROVE  i = j
  BY DEF ExecutionsShareNoRun
<1>2. TypeOK /\ ExecutionsApart
  BY <1>1 DEF ChainInv
<1>3. routings[i].id = routings[j].id
  BY <1>1, <1>2 DEF ExecutionsApart, Range
<1>4. QED
  BY <1>2, <1>3 DEF TypeOK, Listing

\* No matcher run is accounted to two executions.
THEOREM ExecutionsOwnTheirRuns == Spec => []ExecutionsShareNoRun
  BY ChainInvHolds, ChainInvSharesNoRun, PTL

LEMMA ChainInvNewest == ChainInv => DefaultsAreNewest
<1>1. SUFFICES ASSUME ChainInv PROVE DefaultsAreNewest
  OBVIOUS
<1>2. TypeOK /\ Sorted(matches) /\ Sorted(trusts)
  BY <1>1 DEF ChainInv, NewestFirst
<1>3. ASSUME NEW Row, \A r \in Row : r.at \in Nat, NEW runs, Listing(runs, Row),
             Sorted(runs), NEW places \in SUBSET DOMAIN runs, NEW j \in places
      PROVE  /\ latest(runs, places) # NoRun
             /\ runs[j].at <= Get(runs, latest(runs, places)).at
  <2>1. PICK i \in places : /\ Get(runs, latest(runs, places)) = runs[i]
                            /\ latest(runs, places) # NoRun
                            /\ i <= j
    BY <1>3, LatestIsFirst
  <2>2. runs[i].at \in Nat /\ runs[j].at \in Nat
    BY <1>3, RowsOfListing
  <2>3. i \in Nat /\ j \in Nat
    BY <1>3, RowsOfListing
  <2>4. CASE i = j
    BY <2>1, <2>2, <2>4
  <2>5. CASE i # j
    <3>1. i < j
      BY <2>1, <2>3, <2>5
    <3>2. runs[i].at >= runs[j].at
      BY <1>3, <3>1 DEF Sorted
    <3>3. QED
      BY <2>1, <2>2, <3>2
  <2>6. QED
    BY <2>4, <2>5
<1>4. Listing(matches, MatchRow) /\ Listing(trusts, TrustRow)
  BY <1>2 DEF TypeOK
<1>5. Successful \in SUBSET DOMAIN matches /\ Accepting \in SUBSET DOMAIN trusts
  BY DEF Successful, Accepting
<1>6. NewestOf(matches, Successful)
  BY <1>2, <1>3, <1>4, <1>5, RowTypes DEF NewestOf
<1>7. NewestOf(trusts, Accepting)
  BY <1>2, <1>3, <1>4, <1>5, RowTypes DEF NewestOf
<1>8. QED
  BY <1>6, <1>7 DEF DefaultsAreNewest

\* No run that a stage may build on is newer than the one it takes by default.
THEOREM DefaultsTakeTheNewest == Spec => []DefaultsAreNewest
  BY ChainInvHolds, ChainInvNewest, PTL

\* No step takes a run out of its history or changes one, but for a routing
\* run's execution, which is recorded once.
THEOREM WrittenRunsStand == Spec => HistoryStands
<1> DEFINE Stays ==
        /\ Stand(conditions) /\ Stand(matches) /\ Stand(trusts) /\ Stand(spatials)
        /\ Stand(registrations)
        /\ \A i \in DOMAIN routings : LET r == routings[i] IN
              \E q \in Range(routings') :
                 /\ [q EXCEPT !.execution = r.execution] = r
                 /\ r.execution # NotExecuted => q = r
<1>1. ASSUME ChainInv, [Next]_vars PROVE Stays
  <2>1. TypeOK /\ RoutingsStand /\ JobStands /\ TrustsStand
    BY <1>1 DEF ChainInv
  <2>2. Stand(conditions) /\ Stand(matches) /\ Stand(trusts) /\ Stand(spatials)
        /\ Stand(registrations)
    BY <1>1, <2>1, RowsStay DEF Stand, Range
  <2>3. ASSUME NEW i \in DOMAIN routings
        PROVE  LET r == routings[i] IN
               \E q \in Range(routings') :
                  /\ [q EXCEPT !.execution = r.execution] = r
                  /\ r.execution # NotExecuted => q = r
    <3>1. routings[i] \in Range(routings)
      BY DEF Range
    <3>2. QED
      BY <1>1, <2>1, <3>1, RowsStay
  <2>4. QED
    BY <2>2, <2>3
<1>2. ChainInv /\ [Next]_vars => [Stays]_vars
  BY <1>1
<1>3. QED
  BY <1>2, ChainInvHolds, PTL DEF Spec, HistoryStands

===============================================================================
