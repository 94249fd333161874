-------------------------- MODULE FinalEvidenceProofs --------------------------
(***************************************************************************)
(* Proofs about FinalEvidence: for any number of build requests, documents *)
(* and artifacts, a package that verifies is one build's                   *)
(* (FrozenIsOneBuild), and VERIFIED is never the answer about a package    *)
(* that was not whole at any moment of the verification                    *)
(* (VerifiedWasWhole), unless builds overlap or rmtree fails.              *)
(***************************************************************************)
EXTENDS FinalEvidence, FiniteSetTheorems, SequenceTheorems, TLAPS

-------------------------------------------------------------------------------
(***************************************************************************)
(* The inductive invariant.                                                *)
(***************************************************************************)
Active(r) == build[r].pc # "idle"

\* Builds in progress are different ones, and if there is another, disturbed.
BuildsApart ==
    /\ \A r \in Request : Active(r) => Id(r) \in 1 .. builds
    /\ \A r, q \in Request : Active(r) /\ Active(q) /\ r # q =>
          Id(r) # Id(q) /\ Id(r) \in disturbed
    /\ pkg["manifest"] <= builds /\ pkg["digest"] <= builds
    /\ disturbed \subseteq 1 .. builds

\* What a build still has to visit, and what it has hashed when.
Work(r) ==
    /\ At(r, "trace") \/ At(r, "copy") =>
          build[r].todo # <<>> /\ Range(build[r].todo) \subseteq Artifact
    /\ At(r, "docs") =>
          build[r].todo # <<>> /\ Range(build[r].todo) \subseteq Range(DocSeq)
    /\ build[r].pc \in {"trace", "clear", "docs", "copy", "scan"} =>
          build[r].hash = Nothing

WorkIsLaidOut == \A r \in Request : Work(r)

\* An artifact is never replaced by an older version.
VersionsGrow ==
    \A a \in Artifact :
        /\ data[a] <= versions
        /\ \A n \in Build : traced[n][a] <= versions
                            /\ (data[a] # 0 => traced[n][a] <= data[a])

\* A copy of artifact a that build n may have made.
MayCopy(n, a, version) ==
    version = 0 \/ (traced[n][a] # 0 /\ traced[n][a] <= version)

\* What the manifest of an undisturbed build n lists.
ListsItsOwn(n) ==
    /\ \A d \in Doc : lists[n][d] = n
    /\ \A a \in Artifact : MayCopy(n, a, lists[n][a])
    /\ lists[n]["digest"] = 0

DocsAndCopies(n) ==
    /\ \A d \in Range(DocSeq) : pkg[d] = n
    /\ \A a \in Artifact : MayCopy(n, a, pkg[a])
    /\ pkg["digest"] = 0

\* How far an undisturbed build has come: the package holds what it has
\* written, and nothing else.
Progress(r) ==
    LET n == Id(r) IN
    /\ At(r, "clear") => Present \subseteq build[r].left
    /\ At(r, "docs") =>
          /\ Present \subseteq Range(DocSeq)
          /\ \A d \in Range(DocSeq) : d \in Range(build[r].todo) \/ pkg[d] = n
    /\ At(r, "copy") \/ At(r, "scan") => DocsAndCopies(n)
    /\ At(r, "hash") =>
          /\ DocsAndCopies(n) /\ pkg["security"] = n
          /\ \A f \in Listable :
                f \in Range(build[r].todo) \/ build[r].hash[f] = pkg[f]
    /\ At(r, "freeze") \/ At(r, "digest") =>
          /\ pkg["manifest"] = n /\ pkg["digest"] = 0
          /\ \A f \in Listable : pkg[f] = lists[n][f]
    /\ At(r, "digest") => build[r].frozen = n

BuildsProgress ==
    \A r \in Request : Active(r) /\ Id(r) \notin disturbed => Progress(r)

\* A build freezes its own manifest, or that of one that disturbs it.
Freezes(r) ==
    /\ At(r, "freeze") => pkg["manifest"] \in {0, Id(r)} \cup disturbed
    /\ At(r, "digest") => build[r].frozen \in {Id(r)} \cup disturbed

FreezesItsOwn == \A r \in Request : Freezes(r)

\* The manifest of an undisturbed build lists what that build wrote, and the
\* build has nothing left to write but the digest.
Stands(n) ==
    /\ ListsItsOwn(n)
    /\ \A r \in Request :
          Active(r) /\ Id(r) = n => build[r].pc \in {"freeze", "digest"}

ManifestStands ==
    \A n \in Build : pkg["manifest"] = n /\ n \notin disturbed => Stands(n)

\* The package of an undisturbed build is frozen: nothing is written in it, and
\* whoever removes it has yet to remove the digest.
Remains(n) ==
    /\ ListsItsOwn(n)
    /\ pkg["manifest"] \in {0, n}
    /\ \A f \in Listable \ {"digest"} : pkg[f] \in {0, lists[n][f]}
    /\ \A r \in Request : Active(r) =>
          /\ Id(r) # n
          /\ At(r, "trace") \/ (At(r, "clear") /\ "digest" \in build[r].left)

Frozen(n) == pkg["digest"] = n /\ n \notin disturbed

FrozenRemains == \A n \in Build : Frozen(n) => Remains(n)

UnderCheck == check.pc \in {"digest", "read", "files", "manifest", "frozen"}

\* A file that the manifest of n lists, that is missing and not yet looked at.
Missing(n, f) ==
    /\ lists[n][f] # 0 /\ pkg[f] = 0
    /\ Checking("files") => f \in Range(check.todo)

\* If the package was not whole since the verification began, the verification
\* is about to see that.
Misses(n) ==
    /\ check.pc \in {"digest", "read", "files"}
    /\ Checking("files") => check.by = n
    /\ \E f \in Listable : Missing(n, f)

WillBeMissed ==
    UnderCheck /\ ~ seenWhole => \A n \in Build : Frozen(n) => Misses(n)

NoAnswerYet == UnderCheck => check.answer = "none"

EvidenceInv ==
    /\ TypeOK /\ BuildsApart /\ WorkIsLaidOut /\ VersionsGrow
    /\ BuildsProgress /\ FreezesItsOwn /\ ManifestStands /\ FrozenRemains
    /\ WillBeMissed /\ NoAnswerYet /\ VerifiedWasWhole

-------------------------------------------------------------------------------
(***************************************************************************)
(* Names and sequences.                                                    *)
(***************************************************************************)
LEMMA Names ==
    /\ {"digest", "security"} \subseteq Listable /\ Doc \subseteq Listable
    /\ Artifact \subseteq Listable /\ Range(DocSeq) \subseteq Doc
    /\ Listable \subseteq Name /\ "manifest" \in Name /\ "digest" \in Name
    /\ "manifest" \notin Listable /\ "digest" \notin Doc \cup Artifact
    /\ "security" \in Doc /\ "security" \notin Range(DocSeq) \cup Artifact
    /\ Range(DocSeq) \cap Artifact = {}
    /\ \A f \in Listable :
          f \in Range(DocSeq) \/ f = "security" \/ f \in Artifact \/ f = "digest"
    /\ \A d \in Doc : d \in Range(DocSeq) \/ d = "security"
    /\ \A f \in Name : f \in Listable \/ f = "manifest"
BY NamesAssumption DEF Doc, Listable, Name

LEMMA Bounds == MaxBuilds \in Nat /\ MaxVersions \in Nat
BY BoundsAssumption

LEMMA FiniteNames == IsFiniteSet(Listable)
<1>1. ASSUME NEW S, NEW s \in Seq(S)
      PROVE  IsFiniteSet(Range(s))
  <2>1. Range(s) = {s[i] : i \in 1 .. Len(s)}
    BY <1>1, RangeEquality
  <2>2. Len(s) \in Nat /\ s \in [1 .. Len(s) -> S]
    BY <1>1, LenProperties
  <2>3. IsFiniteSet(1 .. Len(s))
    BY <2>2, FS_Interval
  <2>4. s \in Surjection(1 .. Len(s), Range(s))
    BY <2>1, <2>2 DEF Surjection
  <2> QED BY <2>3, <2>4, FS_Surjection
<1>2. IsFiniteSet(Range(DocSeq)) /\ IsFiniteSet(Artifact)
  BY <1>1, SequencesAssumption DEF Artifact
<1>3. IsFiniteSet({"security"}) /\ IsFiniteSet({"digest"})
  BY FS_Singleton
<1>4. IsFiniteSet(Doc)
  BY <1>2, <1>3, FS_Union DEF Doc
<1>5. IsFiniteSet(Doc \cup Artifact)
  BY <1>2, <1>4, FS_Union
<1> QED BY <1>3, <1>5, FS_Union DEF Listable

LEMMA SetToSeqLists ==
    ASSUME NEW S \in SUBSET Listable
    PROVE  SetToSeq(S) \in Seq(Listable) /\ Range(SetToSeq(S)) = S
<1> DEFINE n == Cardinality(S)
           s == SetToSeq(S)
<1>1. IsFiniteSet(S)
  BY FiniteNames, FS_Subset
<1>2. n \in Nat /\ ExistsBijection(1 .. n, S)
  BY <1>1, FS_CardinalityType
<1>3. \E f \in [1 .. n -> S] : IsInjective(f)
  BY <1>2 DEF ExistsBijection, Bijection, Injection, IsInjective
<1>4. s \in [1 .. n -> S] /\ IsInjective(s)
  BY <1>3 DEF SetToSeq
<1>5. s \in Injection(1 .. n, S)
  BY <1>4 DEF Injection
<1>6. Cardinality(1 .. n) = n
  BY <1>2, FS_Interval
<1>7. s \in Surjection(1 .. n, S)
  BY <1>1, <1>5, <1>6, FS_Injection
<1>8. \A x \in S : \E i \in 1 .. n : s[i] = x
  BY <1>7 DEF Surjection
<1>9. Range(s) = S
  BY <1>4, <1>8 DEF Range
<1>10. s \in Seq(S)
  <2> HIDE DEF s, n
  <2> QED BY <1>2, <1>4
<1>11. s \in Seq(Listable)
  <2> HIDE DEF s, n
  <2> QED BY <1>10, SeqMonotonic
<1> QED BY <1>9, <1>11

LEMMA HeadAndTail ==
    ASSUME NEW S, NEW s \in Seq(S), s # <<>>
    PROVE  /\ Head(s) \in Range(s) /\ Tail(s) \in Seq(S)
           /\ Range(Tail(s)) \subseteq Range(s)
           /\ \A x \in Range(s) : x = Head(s) \/ x \in Range(Tail(s))
<1>1. /\ Tail(s) \in Seq(S) /\ Len(Tail(s)) = Len(s) - 1
      /\ \A i \in 1 .. Len(Tail(s)) : Tail(s)[i] = s[i + 1]
  BY HeadTailProperties
<1>2. Len(s) \in Nat /\ Len(s) # 0 /\ Head(s) = s[1]
  BY EmptySeq, LenProperties, HeadTailProperties
<1>3. Range(s) = {s[i] : i \in 1 .. Len(s)}
  BY RangeEquality
<1>4. Range(Tail(s)) = {Tail(s)[i] : i \in 1 .. Len(Tail(s))}
  BY <1>1, RangeEquality
<1>5. Head(s) \in Range(s)
  BY <1>2, <1>3
<1>6. Range(Tail(s)) \subseteq Range(s)
  BY <1>1, <1>2, <1>3, <1>4
<1>7. ASSUME NEW x \in Range(s), x # Head(s) PROVE x \in Range(Tail(s))
  <2>1. PICK i \in 1 .. Len(s) : x = s[i]
    BY <1>3
  <2>2. i # 1
    BY <1>2, <1>7, <2>1
  <2>3. i - 1 \in 1 .. Len(Tail(s)) /\ Tail(s)[i - 1] = s[i]
    BY <1>1, <1>2, <2>2
  <2> QED BY <1>4, <2>1, <2>3
<1> QED BY <1>1, <1>5, <1>6, <1>7

LEMMA EmptyRange == Range(<<>>) = {}
BY DEF Range

LEMMA NoBuildIsIdle ==
    /\ NoBuild \in BuildState /\ NoBuild.pc = "idle" /\ NoBuild.hash = Nothing
    /\ NoBuild.id = 0 /\ NoBuild.left = {} /\ NoBuild.todo = <<>>
BY DEF NoBuild, BuildState, Nothing

LEMMA NoCheckFields ==
    /\ NoCheck \in CheckState /\ NoCheck.pc = "idle" /\ NoCheck.todo = <<>>
    /\ NoCheck.by = 0 /\ NoCheck.answer = "none"
BY DEF NoCheck, CheckState

\* What is written is by a build that was started.
LEMMA NamesOfBuilds ==
    ASSUME TypeOK, BuildsApart
    PROVE  /\ 1 .. builds \subseteq Build
           /\ pkg["manifest"] # 0 => pkg["manifest"] \in Build
           /\ pkg["digest"] # 0 => pkg["digest"] \in Build
<1> DEFINE m == pkg["manifest"]
           d == pkg["digest"]
<1>1. builds \in 0 .. MaxBuilds /\ MaxBuilds \in Nat
  BY BoundsAssumption DEF TypeOK
<1>2. m \in Nat /\ d \in Nat
  BY Names DEF TypeOK
<1>3. m <= builds /\ d <= builds
  BY DEF BuildsApart
<1> HIDE DEF m, d
<1>4. 1 .. builds \subseteq Build /\ (m # 0 => m \in Build) /\ (d # 0 => d \in Build)
  BY <1>1, <1>2, <1>3 DEF Build
<1> QED BY <1>4 DEF m, d

\* A build that nobody disturbs is the only one in progress.
LEMMA Alone ==
    ASSUME BuildsApart, NEW r \in Request, Active(r), Id(r) \notin disturbed
    PROVE  \A q \in Request : Active(q) => q = r
BY DEF BuildsApart

-------------------------------------------------------------------------------
(***************************************************************************)
(* The first state.                                                        *)
(***************************************************************************)
LEMMA InitInv == Init => EvidenceInv
<1> SUFFICES ASSUME Init PROVE EvidenceInv
  OBVIOUS
<1>1. /\ data = [a \in Artifact |-> 0] /\ versions = 0 /\ pkg = [f \in Name |-> 0]
      /\ lists = [n \in Build |-> Nothing] /\ build = [r \in Request |-> NoBuild]
      /\ builds = 0 /\ crashes = 0 /\ check = NoCheck
      /\ traced = [n \in Build |-> [a \in Artifact |-> 0]]
      /\ disturbed = {} /\ seenWhole = FALSE
  BY DEF Init
<1>2. TypeOK
  <2>1. lists \in [Build -> [Listable -> Nat]]
    BY <1>1 DEF Nothing
  <2>2. builds \in 0 .. MaxBuilds
    BY <1>1, Bounds
  <2>3. build \in [Request -> BuildState] /\ check \in CheckState
    BY <1>1, NoBuildIsIdle, NoCheckFields
  <2>4. data \in [Artifact -> Nat] /\ pkg \in [Name -> Nat]
    BY <1>1
  <2>5. traced \in [Build -> [Artifact -> Nat]]
    BY <1>1
  <2> QED BY <1>1, <2>1, <2>2, <2>3, <2>4, <2>5 DEF TypeOK
<1>3. \A r \in Request : build[r].pc = "idle"
  BY <1>1, NoBuildIsIdle
<1>4. pkg["manifest"] = 0 /\ pkg["digest"] = 0 /\ 0 \notin Build
  BY <1>1, Names DEF Build
<1>5. BuildsApart
  BY <1>1, <1>3, <1>4 DEF BuildsApart, Active
<1>6. WorkIsLaidOut /\ BuildsProgress /\ FreezesItsOwn
  BY <1>3 DEF WorkIsLaidOut, Work, BuildsProgress, FreezesItsOwn, Freezes,
              Active, At
<1>7. VersionsGrow
  BY <1>1 DEF VersionsGrow
<1>8. ManifestStands /\ FrozenRemains
  BY <1>4 DEF ManifestStands, FrozenRemains, Frozen
<1>9. WillBeMissed /\ NoAnswerYet /\ VerifiedWasWhole
  BY <1>1, NoCheckFields DEF WillBeMissed, NoAnswerYet, VerifiedWasWhole, UnderCheck
<1> QED BY <1>2, <1>5, <1>6, <1>7, <1>8, <1>9 DEF EvidenceInv

-------------------------------------------------------------------------------
(***************************************************************************)
(* Steps of the stages change artifacts only.                              *)
(***************************************************************************)
LEMMA DataFrame ==
    ASSUME EvidenceInv, TypeOK', VersionsGrow',
           UNCHANGED <<pkg, lists, build, builds, check, traced, disturbed,
                       seenWhole>>
    PROVE  EvidenceInv'
<1>1. BuildsApart'
  BY DEF EvidenceInv, BuildsApart, Active, Id
<1>2. WorkIsLaidOut' /\ FreezesItsOwn'
  BY DEF EvidenceInv, WorkIsLaidOut, Work, FreezesItsOwn, Freezes, At, Id
<1>3. BuildsProgress'
  BY DEF EvidenceInv, BuildsProgress, Progress, DocsAndCopies, MayCopy, Present,
         Active, At, Id
<1>4. ManifestStands' /\ FrozenRemains'
  BY DEF EvidenceInv, ManifestStands, Stands, FrozenRemains, Frozen, Remains,
         ListsItsOwn, MayCopy, Active, At, Id
<1>5. WillBeMissed' /\ NoAnswerYet' /\ VerifiedWasWhole'
  BY DEF EvidenceInv, WillBeMissed, Misses, Missing, Frozen, Checking, UnderCheck,
         NoAnswerYet, VerifiedWasWhole
<1> QED BY <1>1, <1>2, <1>3, <1>4, <1>5 DEF EvidenceInv

LEMMA RewriteStep ==
    ASSUME EvidenceInv, NEW a \in Artifact, Rewrite(a)
    PROVE  EvidenceInv'
<1>1. /\ versions' = versions + 1 /\ data' = [data EXCEPT ![a] = versions + 1]
      /\ UNCHANGED <<pkg, lists, build, builds, crashes, check, traced,
                     disturbed, seenWhole>>
  BY DEF Rewrite
<1>2. TypeOK /\ VersionsGrow
  BY DEF EvidenceInv
<1>3. versions \in Nat /\ data \in [Artifact -> Nat] /\ traced \in [Build -> [Artifact -> Nat]]
  BY <1>2 DEF TypeOK
<1>4. versions' \in Nat /\ data' \in [Artifact -> Nat]
  BY <1>1, <1>3
<1>5. TypeOK'
  BY <1>1, <1>2, <1>4 DEF TypeOK
<1>6. ASSUME NEW b \in Artifact
      PROVE  /\ data'[b] <= versions'
             /\ \A n \in Build : traced'[n][b] <= versions'
                                 /\ (data'[b] # 0 => traced'[n][b] <= data'[b])
  <2>1. data[b] <= versions /\ data[b] \in Nat
    BY <1>2, <1>3 DEF VersionsGrow
  <2>2. \A n \in Build : /\ traced[n][b] \in Nat /\ traced[n][b] <= versions
                         /\ (data[b] # 0 => traced[n][b] <= data[b])
    BY <1>2, <1>3 DEF VersionsGrow
  <2>3. data'[b] = IF b = a THEN versions + 1 ELSE data[b]
    BY <1>1, <1>3
  <2>4. traced' = traced
    BY <1>1
  <2> QED BY <1>1, <1>3, <2>1, <2>2, <2>3, <2>4
<1>7. VersionsGrow'
  BY <1>6 DEF VersionsGrow
<1> QED BY <1>1, <1>5, <1>7, DataFrame

LEMMA RemoveArtifactStep ==
    ASSUME EvidenceInv, NEW a \in Artifact, RemoveArtifact(a)
    PROVE  EvidenceInv'
<1>1. /\ data' = [data EXCEPT ![a] = 0]
      /\ UNCHANGED <<versions, pkg, lists, build, builds, crashes, check, traced,
                     disturbed, seenWhole>>
  BY DEF RemoveArtifact
<1>2. TypeOK /\ VersionsGrow
  BY DEF EvidenceInv
<1>3. versions \in Nat /\ data \in [Artifact -> Nat]
  BY <1>2 DEF TypeOK
<1>4. TypeOK'
  BY <1>1, <1>2, <1>3 DEF TypeOK
<1>5. \A b \in Artifact : data'[b] = IF b = a THEN 0 ELSE data[b]
  BY <1>1, <1>3
<1>6. VersionsGrow'
  BY <1>1, <1>2, <1>3, <1>5 DEF VersionsGrow
<1> QED BY <1>1, <1>4, <1>6, DataFrame

-------------------------------------------------------------------------------
(***************************************************************************)
(* A crash: no build and no verification is in progress any more.          *)
(***************************************************************************)
LEMMA CrashStep ==
    ASSUME EvidenceInv, Crash
    PROVE  EvidenceInv'
<1>1. /\ crashes' = crashes + 1 /\ build' = [r \in Request |-> NoBuild] /\ check' = NoCheck
      /\ UNCHANGED <<data, versions, pkg, lists, builds, traced, disturbed, seenWhole>>
  BY DEF Crash
<1>2. /\ TypeOK /\ BuildsApart /\ VersionsGrow /\ ManifestStands /\ FrozenRemains
  BY DEF EvidenceInv
<1>3. TypeOK'
  <2>1. build' \in [Request -> BuildState] /\ check' \in CheckState
    BY <1>1, NoBuildIsIdle, NoCheckFields
  <2>2. crashes' \in Nat
    BY <1>1, <1>2 DEF TypeOK
  <2> QED BY <1>1, <1>2, <2>1, <2>2 DEF TypeOK
<1>4. \A r \in Request : build'[r].pc = "idle"
  BY <1>1, NoBuildIsIdle
<1>5. BuildsApart'
  BY <1>1, <1>2, <1>4 DEF BuildsApart, Active, Id
<1>6. WorkIsLaidOut' /\ BuildsProgress' /\ FreezesItsOwn'
  BY <1>4 DEF WorkIsLaidOut, Work, BuildsProgress, FreezesItsOwn, Freezes,
              Active, At
<1>7. VersionsGrow'
  BY <1>1, <1>2 DEF VersionsGrow
<1>8. ManifestStands' /\ FrozenRemains'
  BY <1>1, <1>2, <1>4 DEF ManifestStands, Stands, FrozenRemains, Frozen, Remains,
         ListsItsOwn, MayCopy, Active, At, Id
<1>9. WillBeMissed' /\ NoAnswerYet' /\ VerifiedWasWhole'
  BY <1>1, NoCheckFields DEF WillBeMissed, NoAnswerYet, VerifiedWasWhole, UnderCheck
<1> QED BY <1>3, <1>5, <1>6, <1>7, <1>8, <1>9 DEF EvidenceInv

-------------------------------------------------------------------------------
(***************************************************************************)
(* Steps of a verification change its record and the history only.         *)
(***************************************************************************)
LEMMA CheckFrame ==
    ASSUME EvidenceInv, check' \in CheckState, seenWhole' \in BOOLEAN,
           UNCHANGED <<data, versions, pkg, lists, build, builds, crashes, traced,
                       disturbed>>,
           WillBeMissed', NoAnswerYet', VerifiedWasWhole'
    PROVE  EvidenceInv'
<1>1. TypeOK'
  BY DEF EvidenceInv, TypeOK
<1>2. BuildsApart' /\ VersionsGrow'
  BY DEF EvidenceInv, BuildsApart, VersionsGrow, Active, Id
<1>3. WorkIsLaidOut' /\ FreezesItsOwn'
  BY DEF EvidenceInv, WorkIsLaidOut, Work, FreezesItsOwn, Freezes, At, Id
<1>4. BuildsProgress'
  BY DEF EvidenceInv, BuildsProgress, Progress, DocsAndCopies, MayCopy, Present,
         Active, At, Id
<1>5. ManifestStands' /\ FrozenRemains'
  BY DEF EvidenceInv, ManifestStands, Stands, FrozenRemains, Frozen, Remains,
         ListsItsOwn, MayCopy, Active, At, Id
<1> QED BY <1>1, <1>2, <1>3, <1>4, <1>5 DEF EvidenceInv

LEMMA AnswerFields ==
    ASSUME check \in CheckState,
           NEW a \in {"none", "VERIFIED", "INCOMPLETE", "INTEGRITY_DEGRADED", "ERROR"},
           Answer(a)
    PROVE  /\ check' \in CheckState /\ check'.pc = "answered" /\ check'.answer = a
           /\ check'.by = check.by
<1>1. check' = [NoCheck EXCEPT !.pc = "answered", !.answer = a, !.by = check.by]
  BY DEF Answer
<1> QED BY <1>1, NoCheckFields DEF CheckState

\* An answer other than VERIFIED leaves nothing to show.
LEMMA OtherAnswer ==
    ASSUME EvidenceInv, NEW a \in {"INCOMPLETE", "INTEGRITY_DEGRADED", "ERROR"},
           Answer(a), seenWhole' \in BOOLEAN,
           UNCHANGED <<data, versions, pkg, lists, build, builds, crashes, traced,
                       disturbed>>
    PROVE  EvidenceInv'
<1>1. check' \in CheckState /\ check'.pc = "answered" /\ check'.answer = a
  BY AnswerFields DEF EvidenceInv, TypeOK
<1>2. WillBeMissed' /\ NoAnswerYet' /\ VerifiedWasWhole'
  BY <1>1 DEF WillBeMissed, NoAnswerYet, VerifiedWasWhole, UnderCheck
<1> QED BY <1>1, <1>2, CheckFrame

\* So does a step that goes on and keeps an eye on what will be missed.
LEMMA GoesOn ==
    ASSUME EvidenceInv, check' \in CheckState, check'.answer = "none",
           seenWhole' \in BOOLEAN,
           UNCHANGED <<data, versions, pkg, lists, build, builds, crashes, traced,
                       disturbed>>,
           ASSUME ~ seenWhole', NEW n \in Build, Frozen(n)
           PROVE  Misses(n)'
    PROVE  EvidenceInv'
<1>1. WillBeMissed'
  <2>1. \A n \in Build : Frozen(n)' <=> Frozen(n)
    BY DEF Frozen
  <2>2. Build' = Build
    OBVIOUS
  <2> QED BY <2>1, <2>2 DEF WillBeMissed
<1>2. NoAnswerYet' /\ VerifiedWasWhole'
  BY DEF NoAnswerYet, VerifiedWasWhole
<1> QED BY <1>1, <1>2, CheckFrame

LEMMA WatchKeeps ==
    ASSUME EvidenceInv, Watch
    PROVE  seenWhole' \in BOOLEAN /\ (seenWhole => seenWhole')
           /\ (~ seenWhole' => ~ seenWhole /\ ~ Whole')
<1>1. seenWhole \in BOOLEAN /\ Whole' \in BOOLEAN
  BY DEF EvidenceInv, TypeOK, Whole
<1> QED BY <1>1 DEF Watch

LEMMA LookStep ==
    ASSUME EvidenceInv, Look
    PROVE  EvidenceInv'
<1>1. /\ UNCHANGED <<data, versions, pkg, lists, build, builds, crashes, traced,
                     disturbed>>
      /\ seenWhole' = Whole
      /\ IF pkg["manifest"] = 0 THEN Answer("INCOMPLETE")
         ELSE check' = [NoCheck EXCEPT !.pc = "digest"]
  BY DEF Look
<1>2. seenWhole' \in BOOLEAN
  BY <1>1 DEF Whole
<1>3. CASE pkg["manifest"] = 0
  BY <1>1, <1>2, <1>3, OtherAnswer
<1>4. CASE pkg["manifest"] # 0
  <2>1. check' = [NoCheck EXCEPT !.pc = "digest"]
    BY <1>1, <1>4
  <2>2. check' \in CheckState /\ check'.pc = "digest" /\ check'.answer = "none"
    BY <2>1, NoCheckFields DEF CheckState
  <2>3. ASSUME ~ seenWhole', NEW n \in Build, Frozen(n)
        PROVE  Misses(n)'
    <3>1. ~ Whole
      BY <1>1, <2>3
    <3>2. Remains(n) /\ pkg["digest"] = n
      BY <2>3 DEF EvidenceInv, FrozenRemains, Frozen
    <3>3. pkg["manifest"] = n /\ lists[n]["digest"] = 0
      BY <1>4, <3>2 DEF Remains, ListsItsOwn
    <3>4. \E f \in Listable \ {"digest"} : pkg[f] # lists[n][f]
      BY <1>4, <3>1, <3>2, <3>3 DEF Whole
    <3>5. PICK f \in Listable \ {"digest"} : pkg[f] # lists[n][f]
      BY <3>4
    <3>6. pkg[f] = 0 /\ lists[n][f] # 0
      BY <3>2, <3>5 DEF Remains
    <3>7. Missing(n, f)'
      BY <1>1, <2>2, <3>6 DEF Missing, Checking
    <3> QED BY <2>2, <3>5, <3>7 DEF Misses, Checking
  <2> QED BY <1>1, <1>2, <2>2, <2>3, GoesOn
<1> QED BY <1>3, <1>4

LEMMA LookForDigestStep ==
    ASSUME EvidenceInv, LookForDigest
    PROVE  EvidenceInv'
<1>1. /\ UNCHANGED <<data, versions, pkg, lists, build, builds, crashes, traced,
                     disturbed>>
      /\ Watch /\ check.pc = "digest"
      /\ IF pkg["digest"] = 0 THEN Answer("INCOMPLETE")
         ELSE check' = [check EXCEPT !.pc = "read"]
  BY DEF LookForDigest, Reading, Checking
<1>2. seenWhole' \in BOOLEAN /\ (~ seenWhole' => ~ seenWhole)
  BY <1>1, WatchKeeps
<1>3. CASE pkg["digest"] = 0
  BY <1>1, <1>2, <1>3, OtherAnswer
<1>4. CASE pkg["digest"] # 0
  <2>1. check \in CheckState /\ check.answer = "none"
    BY <1>1 DEF EvidenceInv, TypeOK, NoAnswerYet, UnderCheck
  <2>2. check' = [check EXCEPT !.pc = "read"]
    BY <1>1, <1>4
  <2>3. check' \in CheckState /\ check'.pc = "read" /\ check'.answer = "none"
    BY <2>1, <2>2 DEF CheckState
  <2>4. ASSUME ~ seenWhole', NEW n \in Build, Frozen(n)
        PROVE  Misses(n)'
    <3>1. Misses(n)
      BY <1>1, <1>2, <2>4 DEF EvidenceInv, WillBeMissed, UnderCheck
    <3> QED BY <1>1, <2>3, <3>1 DEF Misses, Missing, Checking
  <2> QED BY <1>1, <1>2, <2>3, <2>4, GoesOn
<1> QED BY <1>3, <1>4

LEMMA ReadManifestStep ==
    ASSUME EvidenceInv, ReadManifest
    PROVE  EvidenceInv'
<1> DEFINE m == pkg["manifest"]
           listed == {f \in Listable : lists[m][f] # 0}
<1>1. /\ UNCHANGED <<data, versions, pkg, lists, build, builds, crashes, traced,
                     disturbed>>
      /\ Watch /\ check.pc = "read"
      /\ IF m = 0 THEN Answer("ERROR")
         ELSE check' = [check EXCEPT !.pc = "files", !.by = m,
                                     !.todo = SetToSeq(listed)]
  BY DEF ReadManifest, Reading, Checking
<1>2. seenWhole' \in BOOLEAN /\ (~ seenWhole' => ~ seenWhole)
  BY <1>1, WatchKeeps
<1>3. CASE m = 0
  BY <1>1, <1>2, <1>3, OtherAnswer
<1>4. CASE m # 0
  <2>1. check \in CheckState /\ check.answer = "none"
    BY <1>1 DEF EvidenceInv, TypeOK, NoAnswerYet, UnderCheck
  <2>2. SetToSeq(listed) \in Seq(Listable) /\ Range(SetToSeq(listed)) = listed
    BY SetToSeqLists
  <2>3. m \in Nat
    BY Names DEF EvidenceInv, TypeOK
  <2>4. check' = [check EXCEPT !.pc = "files", !.by = m, !.todo = SetToSeq(listed)]
    BY <1>1, <1>4
  <2>5. /\ check' \in CheckState /\ check'.pc = "files" /\ check'.answer = "none"
        /\ check'.by = m /\ Range(check'.todo) = listed
    <3> HIDE DEF m, listed
    <3> QED BY <2>1, <2>2, <2>3, <2>4 DEF CheckState
  <2>6. ASSUME ~ seenWhole', NEW n \in Build, Frozen(n)
        PROVE  Misses(n)'
    <3>1. Misses(n)
      BY <1>1, <1>2, <2>6 DEF EvidenceInv, WillBeMissed, UnderCheck
    <3>2. m = n
      BY <1>4, <2>6 DEF EvidenceInv, FrozenRemains, Remains
    <3>3. PICK f \in Listable : Missing(n, f)
      BY <3>1 DEF Misses
    <3>4. Missing(n, f)'
      BY <1>1, <2>5, <3>2, <3>3 DEF Missing, Checking
    <3> QED BY <2>5, <3>2, <3>4 DEF Misses, Checking
  <2> QED BY <1>1, <1>2, <2>5, <2>6, GoesOn
<1> QED BY <1>3, <1>4

LEMMA CheckFileStep ==
    ASSUME EvidenceInv, CheckFile
    PROVE  EvidenceInv'
<1> DEFINE h == Head(check.todo)
<1>1. /\ UNCHANGED <<data, versions, pkg, lists, build, builds, crashes, traced,
                     disturbed>>
      /\ Watch /\ check.pc = "files" /\ check.todo # <<>>
      /\ IF pkg[h] = lists[check.by][h] THEN check' = [check EXCEPT !.todo = Tail(@)]
         ELSE Answer("INTEGRITY_DEGRADED")
  BY DEF CheckFile, Reading, Checking, Matches
<1>2. seenWhole' \in BOOLEAN /\ (~ seenWhole' => ~ seenWhole)
  BY <1>1, WatchKeeps
<1>3. CASE pkg[h] # lists[check.by][h]
  BY <1>1, <1>2, <1>3, OtherAnswer
<1>4. CASE pkg[h] = lists[check.by][h]
  <2>1. check \in CheckState /\ check.answer = "none"
    BY <1>1 DEF EvidenceInv, TypeOK, NoAnswerYet, UnderCheck
  <2>2. check.todo \in Seq(Listable)
    BY <2>1 DEF CheckState
  <2>3. /\ Tail(check.todo) \in Seq(Listable)
        /\ \A f \in Range(check.todo) : f = h \/ f \in Range(Tail(check.todo))
    BY <1>1, <2>2, HeadAndTail
  <2>4. check' = [check EXCEPT !.todo = Tail(check.todo)]
    BY <1>1, <1>4
  <2>5. /\ check' \in CheckState /\ check'.pc = "files" /\ check'.answer = "none"
        /\ check'.by = check.by /\ check'.todo = Tail(check.todo)
    BY <1>1, <2>1, <2>3, <2>4 DEF CheckState
  <2>6. ASSUME ~ seenWhole', NEW n \in Build, Frozen(n)
        PROVE  Misses(n)'
    <3>1. Misses(n) /\ check.by = n
      BY <1>1, <1>2, <2>6 DEF EvidenceInv, WillBeMissed, UnderCheck, Misses, Checking
    <3>2. PICK f \in Listable : Missing(n, f)
      BY <3>1 DEF Misses
    <3>3. lists[n][f] # 0 /\ pkg[f] = 0 /\ f \in Range(check.todo)
      BY <1>1, <3>2 DEF Missing, Checking
    <3>4. f \in Range(Tail(check.todo))
      BY <1>4, <2>3, <3>1, <3>3
    <3>5. Missing(n, f)'
      BY <1>1, <2>5, <3>3, <3>4 DEF Missing, Checking
    <3> QED BY <2>5, <3>1, <3>5 DEF Misses, Checking
  <2> QED BY <1>1, <1>2, <2>5, <2>6, GoesOn
<1> QED BY <1>3, <1>4

LEMMA CheckExtraStep ==
    ASSUME EvidenceInv, CheckExtra
    PROVE  EvidenceInv'
<1> DEFINE more == \E f \in Present \ {"manifest", "digest"} : lists[check.by][f] = 0
<1>1. /\ UNCHANGED <<data, versions, pkg, lists, build, builds, crashes, traced,
                     disturbed>>
      /\ Watch /\ check.pc = "files" /\ check.todo = <<>>
      /\ IF more THEN Answer("INTEGRITY_DEGRADED")
         ELSE check' = [check EXCEPT !.pc = "manifest"]
  BY DEF CheckExtra, Reading, Checking
<1> HIDE DEF more
<1>2. seenWhole' \in BOOLEAN /\ (~ seenWhole' => ~ seenWhole)
  BY <1>1, WatchKeeps
<1>3. CASE more
  BY <1>1, <1>2, <1>3, OtherAnswer
<1>4. CASE ~ more
  <2>1. check \in CheckState /\ check.answer = "none"
    BY <1>1 DEF EvidenceInv, TypeOK, NoAnswerYet, UnderCheck
  <2>2. check' = [check EXCEPT !.pc = "manifest"]
    BY <1>1, <1>4
  <2>3. check' \in CheckState /\ check'.answer = "none"
    BY <2>1, <2>2 DEF CheckState
  <2>4. ASSUME ~ seenWhole', NEW n \in Build, Frozen(n)
        PROVE  FALSE
    <3>1. Misses(n)
      BY <1>1, <1>2, <2>4 DEF EvidenceInv, WillBeMissed, UnderCheck
    <3>2. PICK f \in Listable : Missing(n, f)
      BY <3>1 DEF Misses
    <3>3. f \in Range(<<>>)
      BY <1>1, <3>2 DEF Missing, Checking
    <3> QED BY <3>3, EmptyRange
  <2> QED BY <1>1, <1>2, <2>3, <2>4, GoesOn
<1> QED BY <1>3, <1>4

LEMMA RehashManifestStep ==
    ASSUME EvidenceInv, RehashManifest
    PROVE  EvidenceInv'
<1> DEFINE m == pkg["manifest"]
<1>1. /\ UNCHANGED <<data, versions, pkg, lists, build, builds, crashes, traced,
                     disturbed>>
      /\ Watch /\ check.pc = "manifest"
      /\ IF m = 0 THEN Answer("ERROR")
         ELSE check' = [check EXCEPT !.pc = "frozen", !.by = m]
  BY DEF RehashManifest, Reading, Checking
<1>2. seenWhole' \in BOOLEAN /\ (~ seenWhole' => ~ seenWhole)
  BY <1>1, WatchKeeps
<1>3. CASE m = 0
  BY <1>1, <1>2, <1>3, OtherAnswer
<1>4. CASE m # 0
  <2>1. check \in CheckState /\ check.answer = "none" /\ m \in Nat
    BY <1>1, Names DEF EvidenceInv, TypeOK, NoAnswerYet, UnderCheck
  <2>2. check' = [check EXCEPT !.pc = "frozen", !.by = m]
    BY <1>1, <1>4
  <2>3. check' \in CheckState /\ check'.answer = "none"
    <3> HIDE DEF m
    <3> QED BY <2>1, <2>2 DEF CheckState
  <2>4. ASSUME ~ seenWhole', NEW n \in Build, Frozen(n)
        PROVE  FALSE
    BY <1>1, <1>2, <2>4 DEF EvidenceInv, WillBeMissed, UnderCheck, Misses
  <2> QED BY <1>1, <1>2, <2>3, <2>4, GoesOn
<1> QED BY <1>3, <1>4

LEMMA CompareDigestStep ==
    ASSUME EvidenceInv, CompareDigest
    PROVE  EvidenceInv'
<1> DEFINE d == pkg["digest"]
<1>1. /\ UNCHANGED <<data, versions, pkg, lists, build, builds, crashes, traced,
                     disturbed>>
      /\ Watch /\ check.pc = "frozen"
      /\ \/ d = 0 /\ Answer("ERROR")
         \/ d # 0 /\ d = check.by /\ Answer("VERIFIED")
         \/ d # 0 /\ d # check.by /\ Answer("INTEGRITY_DEGRADED")
  <2>1. CompareDigest
    OBVIOUS
  <2>2. CASE d = 0
    BY <2>1, <2>2 DEF CompareDigest, Reading, Checking
  <2>3. CASE d # 0 /\ d = check.by
    BY <2>1, <2>3 DEF CompareDigest, Reading, Checking
  <2>4. CASE d # 0 /\ d # check.by
    BY <2>1, <2>4 DEF CompareDigest, Reading, Checking
  <2> QED BY <2>2, <2>3, <2>4
<1>2. seenWhole' \in BOOLEAN /\ (~ seenWhole' => ~ seenWhole)
  BY <1>1, WatchKeeps
<1>3. CASE \E a \in {"ERROR", "INTEGRITY_DEGRADED"} : Answer(a)
  BY <1>1, <1>2, <1>3, OtherAnswer
<1>4. CASE d # 0 /\ d = check.by /\ Answer("VERIFIED")
  <2>1. check \in CheckState /\ d \in Build
    BY <1>4, NamesOfBuilds DEF EvidenceInv, TypeOK
  <2>2. check' \in CheckState /\ check'.pc = "answered" /\ check'.by = d
    BY <1>4, <2>1, AnswerFields
  <2>3. seenWhole' \/ d \in disturbed
    <3>1. SUFFICES ASSUME ~ seenWhole', d \notin disturbed PROVE FALSE
      OBVIOUS
    <3>2. Frozen(d)
      BY <3>1 DEF Frozen
    <3> QED BY <1>1, <1>2, <2>1, <3>1, <3>2
            DEF EvidenceInv, WillBeMissed, UnderCheck, Misses
  <2>4. VerifiedWasWhole'
    BY <1>1, <2>2, <2>3 DEF VerifiedWasWhole
  <2>5. WillBeMissed' /\ NoAnswerYet'
    BY <2>2 DEF WillBeMissed, NoAnswerYet, UnderCheck
  <2> QED BY <1>1, <1>2, <2>2, <2>4, <2>5, CheckFrame
<1> QED BY <1>1, <1>3, <1>4

LEMMA VerifyStep ==
    ASSUME EvidenceInv, Verify
    PROVE  EvidenceInv'
BY LookStep, LookForDigestStep, ReadManifestStep, CheckFileStep, CheckExtraStep,
   RehashManifestStep, CompareDigestStep DEF Verify

-------------------------------------------------------------------------------
(***************************************************************************)
(* Steps of a build in progress.                                           *)
(***************************************************************************)
Moves(r) ==
    /\ Active(r)
    /\ build' \in [Request -> BuildState]
    /\ \A q \in Request : q # r => build'[q] = build[q]
    /\ build'[r].pc = "idle" \/ build'[r].id = Id(r)
    /\ UNCHANGED <<data, versions, builds, crashes, check, disturbed>>

LEMMA LeavingMoves ==
    ASSUME TypeOK, NEW r \in Request, Active(r), NEW b \in BuildState,
           Leaving(r, b), b.pc = "idle" \/ b.id = Id(r), Quiet, UNCHANGED disturbed
    PROVE  Moves(r) /\ build'[r] = b
<1>1. build' = [build EXCEPT ![r] = b] /\ build \in [Request -> BuildState]
  BY DEF Leaving, TypeOK
<1>2. build' \in [Request -> BuildState] /\ build'[r] = b
  BY <1>1
<1>3. \A q \in Request : q # r => build'[q] = build[q]
  BY <1>1
<1> QED BY <1>2, <1>3 DEF Moves, Quiet

\* What every such step keeps, whatever it writes.
LEMMA MovesKeep ==
    ASSUME EvidenceInv, NEW r \in Request, Moves(r),
           pkg'["manifest"] <= builds, pkg'["digest"] <= builds,
           Work(r)', Freezes(r)',
           Active(r)' /\ Id(r) \notin disturbed => Progress(r)',
           seenWhole => seenWhole',
           pkg'["manifest"] \in {0, pkg["manifest"], Id(r)}
    PROVE  /\ BuildsApart' /\ WorkIsLaidOut' /\ BuildsProgress' /\ FreezesItsOwn'
           /\ NoAnswerYet' /\ VerifiedWasWhole'
<1> USE DEF Moves
<1>1. BuildsApart /\ WorkIsLaidOut /\ BuildsProgress /\ FreezesItsOwn /\ NoAnswerYet
      /\ VerifiedWasWhole
  BY DEF EvidenceInv
<1>2. \A q \in Request : Active(q)' => Active(q) /\ Id(q)' = Id(q)
  BY DEF Active, Id
<1>3. BuildsApart'
  BY <1>1, <1>2 DEF BuildsApart
<1>4. WorkIsLaidOut'
  <2>1. \A q \in Request : q # r => (Work(q)' <=> Work(q))
    BY DEF Work, At
  <2> QED BY <1>1, <2>1 DEF WorkIsLaidOut
<1>5. BuildsProgress'
  <2>1. SUFFICES ASSUME NEW q \in Request, Active(q)', Id(q)' \notin disturbed'
                 PROVE  Progress(q)'
    BY DEF BuildsProgress
  <2>2. Active(q) /\ Id(q) \notin disturbed
    BY <1>2, <2>1
  <2>3. q = r
    BY <1>1, <2>2, Alone
  <2> QED BY <2>1, <2>2, <2>3
<1>6. FreezesItsOwn'
  <2>1. SUFFICES ASSUME NEW q \in Request, q # r PROVE Freezes(q)'
    BY DEF FreezesItsOwn
  <2>2. Freezes(q) /\ build'[q] = build[q]
    BY <1>1, <2>1 DEF FreezesItsOwn
  <2>3. At(q, "digest")' => build'[q].frozen \in {Id(q)'} \cup disturbed'
    BY <2>2 DEF Freezes, At, Id
  <2>4. At(q, "freeze")' => pkg'["manifest"] \in {0, Id(q)'} \cup disturbed'
    <3>1. SUFFICES ASSUME At(q, "freeze")
                   PROVE  pkg'["manifest"] \in {0, Id(q)} \cup disturbed
      BY <2>2 DEF At, Id
    <3>2. Id(r) \in disturbed
      BY <1>1, <2>1, <3>1 DEF BuildsApart, Active, At
    <3>3. pkg["manifest"] \in {0, Id(q)} \cup disturbed
      BY <2>2, <3>1 DEF Freezes
    <3> QED BY <3>2, <3>3
  <2> QED BY <2>3, <2>4 DEF Freezes
<1>7. NoAnswerYet' /\ VerifiedWasWhole'
  BY <1>1 DEF NoAnswerYet, VerifiedWasWhole, UnderCheck
<1> QED BY <1>3, <1>4, <1>5, <1>6, <1>7

\* A build past its clearing of the digest: no frozen package is left, and if
\* the build does not write the digest, there is none after its step either.
LEMMA NothingFrozen ==
    ASSUME EvidenceInv, NEW r \in Request, Active(r),
           ~ At(r, "trace"), ~ (At(r, "clear") /\ "digest" \in build[r].left)
    PROVE  \A n \in Build : ~ Frozen(n)
BY DEF EvidenceInv, FrozenRemains, Remains

LEMMA StillNothingFrozen ==
    ASSUME EvidenceInv, NEW r \in Request, Moves(r),
           ~ At(r, "trace"), ~ (At(r, "clear") /\ "digest" \in build[r].left),
           pkg'["digest"] = pkg["digest"]
    PROVE  FrozenRemains' /\ WillBeMissed'
<1>1. \A n \in Build : ~ Frozen(n)
  BY NothingFrozen DEF Moves
<1>2. \A n \in Build : ~ Frozen(n)'
  BY <1>1 DEF Moves, Frozen
<1> QED BY <1>2 DEF FrozenRemains, WillBeMissed

\* A build that is not about to freeze leaves a manifest and its list alone.
LEMMA ManifestStays ==
    ASSUME EvidenceInv, NEW r \in Request, Moves(r),
           build[r].pc \notin {"freeze", "digest"},
           pkg'["manifest"] \in {0, pkg["manifest"]}, lists' = lists,
           \A n \in Build : n # Id(r) => traced'[n] = traced[n]
    PROVE  ManifestStands'
<1>1. SUFFICES ASSUME NEW n \in Build, pkg'["manifest"] = n, n \notin disturbed
               PROVE  Stands(n)'
  BY DEF ManifestStands, Moves
<1>2. pkg["manifest"] = n
  BY <1>1 DEF Build
<1>3. Stands(n)
  BY <1>1, <1>2 DEF EvidenceInv, ManifestStands
<1>4. n # Id(r)
  BY <1>3 DEF Stands, Moves
<1>5. ListsItsOwn(n)'
  BY <1>3, <1>4 DEF Stands, ListsItsOwn, MayCopy
<1>6. \A q \in Request : Active(q)' /\ Id(q)' = n => build'[q].pc \in {"freeze", "digest"}
  BY <1>3, <1>4 DEF Stands, Moves, Active, Id
<1> QED BY <1>5, <1>6 DEF Stands

LEMMA IdIsBuild ==
    ASSUME EvidenceInv, NEW r \in Request, Active(r)
    PROVE  Id(r) \in Build /\ Id(r) \in 1 .. builds
BY NamesOfBuilds DEF EvidenceInv, BuildsApart

\* Steps that write no package file keep what is frozen.
LEMMA PackageFrame ==
    ASSUME EvidenceInv, NEW r \in Request, Moves(r),
           UNCHANGED <<pkg, lists, seenWhole>>
    PROVE  /\ WillBeMissed'
           /\ pkg'["manifest"] <= builds /\ pkg'["digest"] <= builds
           /\ pkg'["manifest"] \in {0, pkg["manifest"], Id(r)}
           /\ seenWhole => seenWhole'
BY DEF EvidenceInv, WillBeMissed, Misses, Missing, Frozen, Checking, UnderCheck,
       Moves, BuildsApart

LEMMA TraceStep ==
    ASSUME EvidenceInv, NEW r \in Request, Trace(r)
    PROVE  EvidenceInv'
<1> DEFINE s == build[r]
           n == Id(r)
           a == Head(s.todo)
           rest == Tail(s.todo)
           b == IF rest # <<>> THEN [s EXCEPT !.todo = rest]
                ELSE [s EXCEPT !.pc = "clear", !.todo = <<>>, !.left = Present]
<1>1. /\ s.pc = "trace" /\ Active(r)
      /\ traced' = [traced EXCEPT ![n][a] = data[a]]
      /\ Leaving(r, b) /\ Quiet /\ UNCHANGED <<pkg, lists, disturbed, seenWhole>>
  BY DEF Trace, At, Active, Found
<1>2. TypeOK /\ s \in BuildState /\ n \in Build /\ n \in 1 .. builds
  BY <1>1, IdIsBuild DEF EvidenceInv, TypeOK
<1>3. s.todo # <<>> /\ Range(s.todo) \subseteq Artifact /\ s.hash = Nothing
  BY <1>1 DEF EvidenceInv, WorkIsLaidOut, Work, At
<1>4. s.todo \in Seq(Listable)
  BY <1>2 DEF BuildState
<1>5. a \in Artifact /\ rest \in Seq(Listable) /\ Range(rest) \subseteq Artifact
  BY <1>3, <1>4, HeadAndTail
<1>6. Present \in SUBSET Name
  BY DEF Present
<1>7. b \in BuildState /\ b.id = n /\ b.hash = Nothing
      /\ \/ b.pc = "trace" /\ b.todo = rest /\ rest # <<>>
         \/ b.pc = "clear" /\ b.left = Present
  <2>1. CASE rest # <<>>
    <3>1. b = [s EXCEPT !.todo = rest]
      BY <2>1
    <3> HIDE DEF s, b, rest
    <3>2. b \in BuildState /\ b.id = s.id /\ b.hash = s.hash
          /\ b.pc = s.pc /\ b.todo = rest
      BY <1>2, <1>5, <3>1 DEF BuildState
    <3> QED BY <1>1, <1>3, <2>1, <3>2 DEF Id, s
  <2>2. CASE rest = <<>>
    <3>1. b = [s EXCEPT !.pc = "clear", !.todo = <<>>, !.left = Present]
      BY <2>2
    <3> HIDE DEF s, b, rest
    <3>2. b \in BuildState /\ b.id = s.id /\ b.hash = s.hash
          /\ b.pc = "clear" /\ b.left = Present
      BY <1>2, <1>6, <3>1, NoBuildIsIdle DEF BuildState
    <3> QED BY <1>3, <3>2 DEF Id, s
  <2> QED BY <2>1, <2>2
<1> HIDE DEF b
<1>8. Moves(r) /\ build'[r] = b
  BY <1>1, <1>2, <1>7, LeavingMoves
<1>9. /\ traced' \in [Build -> [Artifact -> Nat]]
      /\ \A m \in Build : m # n => traced'[m] = traced[m]
      /\ \A c \in Artifact : traced'[n][c] = IF c = a THEN data[a] ELSE traced[n][c]
  <2>1. traced \in [Build -> [Artifact -> Nat]] /\ data[a] \in Nat
    BY <1>2, <1>5 DEF TypeOK
  <2> HIDE DEF n, a, rest, s
  <2> QED BY <1>1, <1>2, <1>5, <2>1
<1>10. TypeOK'
  BY <1>1, <1>2, <1>8, <1>9 DEF TypeOK, Moves, Quiet
<1>11. Work(r)' /\ Freezes(r)'
  BY <1>5, <1>7, <1>8 DEF Work, Freezes, At
<1>12. Progress(r)'
  <2>1. At(r, "clear")' => Present' \subseteq build'[r].left
    BY <1>1, <1>7, <1>8 DEF At, Present
  <2>2. build'[r].pc \in {"trace", "clear"}
    BY <1>7, <1>8
  <2> QED BY <2>1, <2>2 DEF Progress, At
<1>13. /\ WillBeMissed' /\ BuildsApart' /\ WorkIsLaidOut' /\ BuildsProgress'
       /\ FreezesItsOwn' /\ NoAnswerYet' /\ VerifiedWasWhole'
  BY <1>1, <1>8, <1>11, <1>12, MovesKeep, PackageFrame
<1>14. VersionsGrow'
  <2>1. SUFFICES ASSUME NEW c \in Artifact
                 PROVE  /\ data'[c] <= versions'
                        /\ \A m \in Build : traced'[m][c] <= versions'
                              /\ (data'[c] # 0 => traced'[m][c] <= data'[c])
    BY DEF VersionsGrow
  <2>2. data' = data /\ versions' = versions
    BY <1>1 DEF Quiet
  <2>3. /\ data[c] <= versions /\ data[c] \in Nat
        /\ \A m \in Build : traced[m][c] <= versions
                            /\ (data[c] # 0 => traced[m][c] <= data[c])
    BY DEF EvidenceInv, VersionsGrow, TypeOK
  <2>4. ASSUME NEW m \in Build PROVE traced'[m][c] \in {traced[m][c], data[c]}
    BY <1>9
  <2> QED BY <2>2, <2>3, <2>4
<1>15. ManifestStands'
  BY <1>1, <1>8, <1>9, ManifestStays
<1>16. FrozenRemains'
  <2>1. SUFFICES ASSUME NEW m \in Build, Frozen(m)'
                 PROVE  Remains(m)'
    BY DEF FrozenRemains
  <2>2. Frozen(m) /\ pkg["digest"] = m /\ m # 0
    BY <1>1, <2>1 DEF Frozen, Build
  <2>3. Remains(m)
    BY <2>2 DEF EvidenceInv, FrozenRemains
  <2>4. m # n
    BY <1>1, <2>3 DEF Remains
  <2>5. ListsItsOwn(m)'
    BY <1>1, <1>9, <2>3, <2>4 DEF Remains, ListsItsOwn, MayCopy
  <2>6. ASSUME NEW q \in Request, Active(q)'
        PROVE  /\ Id(q)' # m
               /\ At(q, "trace")' \/ (At(q, "clear")' /\ "digest" \in build'[q].left)
    <3>1. CASE q = r
      <4>1. "digest" \in Present
        BY <2>2, Names DEF Present
      <4>2. Id(q)' = n
        BY <1>7, <1>8, <3>1 DEF Id
      <4> QED BY <1>7, <1>8, <2>4, <3>1, <4>1, <4>2 DEF At
    <3>2. CASE q # r
      BY <1>8, <2>3, <2>6, <3>2 DEF Remains, Moves, Active, Id, At
    <3> QED BY <3>1, <3>2
  <2> QED BY <1>1, <2>3, <2>5, <2>6 DEF Remains
<1> QED BY <1>10, <1>13, <1>14, <1>15, <1>16 DEF EvidenceInv

\* Without a new trace the versions are in order as they were.
LEMMA VersionsFrame ==
    ASSUME EvidenceInv, Quiet, UNCHANGED traced
    PROVE  VersionsGrow'
BY DEF EvidenceInv, VersionsGrow, Quiet

LEMMA ClearStep ==
    ASSUME EvidenceInv, NEW r \in Request, Clear(r)
    PROVE  EvidenceInv'
<1> DEFINE s == build[r]
<1>1. PICK f \in s.left \cup Present :
         pkg' = [pkg EXCEPT ![f] = 0] /\ Leaving(r, [s EXCEPT !.left = @ \ {f}])
  BY DEF Clear
<1> DEFINE b == [s EXCEPT !.left = s.left \ {f}]
<1>2. /\ s.pc = "clear" /\ Active(r) /\ Leaving(r, b)
      /\ Quiet /\ Watch /\ UNCHANGED <<lists, traced, disturbed>>
  BY <1>1 DEF Clear, At, Active
<1>3. TypeOK /\ s \in BuildState /\ pkg \in [Name -> Nat] /\ f \in Name
  BY <1>1 DEF EvidenceInv, TypeOK, BuildState, Present
<1>4. /\ b \in BuildState /\ b.id = Id(r) /\ b.hash = s.hash /\ b.pc = "clear"
      /\ b.left = s.left \ {f}
  BY <1>2, <1>3 DEF BuildState, Id
<1> HIDE DEF b
<1>5. Moves(r) /\ build'[r] = b
  BY <1>2, <1>3, <1>4, LeavingMoves
<1>6. pkg' \in [Name -> Nat] /\ \A g \in Name : pkg'[g] = IF g = f THEN 0 ELSE pkg[g]
  BY <1>1, <1>3
<1>7. seenWhole' \in BOOLEAN /\ (seenWhole => seenWhole') /\ (~ seenWhole' => ~ seenWhole)
  BY <1>2, WatchKeeps
<1>8. TypeOK'
  BY <1>2, <1>3, <1>5, <1>6, <1>7 DEF TypeOK, Moves, Quiet
<1>9. Work(r)' /\ Freezes(r)'
  <2>1. s.hash = Nothing
    BY <1>2 DEF EvidenceInv, WorkIsLaidOut, Work, At
  <2> QED BY <1>4, <1>5, <2>1 DEF Work, Freezes, At
<1>10. Id(r) \notin disturbed => Progress(r)'
  <2>1. SUFFICES ASSUME Id(r) \notin disturbed
                 PROVE  Present' \subseteq build'[r].left
    BY <1>4, <1>5 DEF Progress, At
  <2>2. Present \subseteq s.left
    BY <1>2, <2>1 DEF EvidenceInv, BuildsProgress, Progress, At
  <2>3. Present' \subseteq Present \ {f}
    BY <1>6 DEF Present
  <2> QED BY <1>4, <1>5, <2>2, <2>3
<1>11. /\ pkg'["manifest"] \in {0, pkg["manifest"]} /\ pkg'["digest"] \in {0, pkg["digest"]}
  BY <1>6, Names
<1>12. pkg'["manifest"] <= builds /\ pkg'["digest"] <= builds
  BY <1>3, <1>11 DEF EvidenceInv, BuildsApart, TypeOK
<1>13. /\ BuildsApart' /\ WorkIsLaidOut' /\ BuildsProgress'
       /\ FreezesItsOwn' /\ NoAnswerYet' /\ VerifiedWasWhole'
  BY <1>5, <1>7, <1>9, <1>10, <1>11, <1>12, MovesKeep
<1>14. VersionsGrow' /\ ManifestStands'
  BY <1>2, <1>5, <1>11, VersionsFrame, ManifestStays
<1>15. ASSUME NEW m \in Build, Frozen(m)'
       PROVE  Frozen(m) /\ f # "digest" /\ Remains(m)
  <2>1. pkg'["digest"] = m /\ m # 0 /\ m \notin disturbed
    BY <1>15, <1>2 DEF Frozen, Build
  <2>2. Frozen(m) /\ f # "digest"
    BY <1>6, <1>11, <2>1, Names DEF Frozen
  <2> QED BY <2>2 DEF EvidenceInv, FrozenRemains
<1>16. FrozenRemains'
  <2>1. SUFFICES ASSUME NEW m \in Build, Frozen(m)'
                 PROVE  Remains(m)'
    BY DEF FrozenRemains
  <2>2. f # "digest" /\ Remains(m)
    BY <1>15, <2>1
  <2>3. ListsItsOwn(m)'
    BY <1>2, <2>2 DEF Remains, ListsItsOwn, MayCopy
  <2>4. pkg'["manifest"] \in {0, m}
    BY <1>11, <2>2 DEF Remains
  <2>5. \A g \in Listable \ {"digest"} : pkg'[g] \in {0, lists'[m][g]}
    BY <1>2, <1>6, <2>2, Names DEF Remains
  <2>6. ASSUME NEW q \in Request, Active(q)'
        PROVE  /\ Id(q)' # m
               /\ At(q, "trace")' \/ (At(q, "clear")' /\ "digest" \in build'[q].left)
    <3>1. CASE q = r
      <4>1. Id(r) # m /\ "digest" \in s.left
        BY <1>2, <2>2 DEF Remains, At
      <4> QED BY <1>4, <1>5, <2>2, <3>1, <4>1 DEF At, Id
    <3>2. CASE q # r
      BY <1>5, <2>2, <2>6, <3>2 DEF Remains, Moves, Active, Id, At
    <3> QED BY <3>1, <3>2
  <2> QED BY <2>3, <2>4, <2>5, <2>6 DEF Remains
<1>17. WillBeMissed'
  <2>1. SUFFICES ASSUME UnderCheck, ~ seenWhole', NEW m \in Build, Frozen(m)'
                 PROVE  Misses(m)'
    BY <1>5 DEF WillBeMissed, UnderCheck, Moves
  <2>2. Misses(m)
    BY <1>7, <1>15, <2>1 DEF EvidenceInv, WillBeMissed
  <2>3. PICK g \in Listable : Missing(m, g)
    BY <2>2 DEF Misses
  <2>4. Missing(m, g)'
    BY <1>2, <1>5, <1>6, <2>3, Names DEF Missing, Checking, Moves
  <2> QED BY <1>5, <2>2, <2>4 DEF Misses, Checking, Moves
<1> QED BY <1>8, <1>13, <1>14, <1>16, <1>17 DEF EvidenceInv

\* What an unlink that fails leaves behind excuses this build and the one whose
\* files stay; of every other build the same is known as before.
LEMMA LeaveBehindStep ==
    ASSUME EvidenceInv, NEW r \in Request, LeaveBehind(r)
    PROVE  EvidenceInv'
<1> DEFINE s == build[r]
<1>1. PICK f \in s.left : Leaving(r, [s EXCEPT !.left = @ \ {f}])
  BY DEF LeaveBehind
<1> DEFINE b == [s EXCEPT !.left = s.left \ {f}]
<1>2. /\ s.pc = "clear" /\ Active(r) /\ build' = [build EXCEPT ![r] = b] /\ Quiet
      /\ UNCHANGED <<pkg, lists, traced, seenWhole>>
      /\ disturbed' = disturbed \cup ({Id(r), pkg["manifest"], pkg["digest"]} \ {0})
  BY <1>1 DEF LeaveBehind, At, Active, Leaving
<1>3. /\ TypeOK /\ BuildsApart /\ s \in BuildState /\ build \in [Request -> BuildState]
      /\ s.hash = Nothing
  BY <1>2 DEF EvidenceInv, TypeOK, WorkIsLaidOut, Work, At
<1>4. /\ b \in BuildState /\ b.id = Id(r) /\ b.hash = s.hash /\ b.pc = "clear"
      /\ b.todo = s.todo
  BY <1>2, <1>3 DEF BuildState, Id
<1> HIDE DEF b
<1>5. /\ build' \in [Request -> BuildState] /\ build'[r] = b
      /\ \A q \in Request : q # r => build'[q] = build[q]
  BY <1>2, <1>3, <1>4
<1>6. \A q \in Request : /\ build'[q].pc = build[q].pc /\ build'[q].id = build[q].id
                         /\ build'[q].todo = build[q].todo
                         /\ build'[q].hash = build[q].hash
  BY <1>2, <1>4, <1>5 DEF Id
<1>7. /\ \A q \in Request : /\ Active(q)' <=> Active(q)
                            /\ Id(q)' = Id(q)
      /\ \A q \in Request, where \in STRING : At(q, where)' <=> At(q, where)
  BY <1>6 DEF Active, Id, At
<1>8. /\ disturbed \subseteq disturbed' /\ Id(r) \in disturbed'
      /\ \A n \in Build : n \notin disturbed' => n # pkg["manifest"] /\ n # pkg["digest"]
  <2>1. Id(r) \in 1 .. builds
    BY <1>2, IdIsBuild
  <2>2. Id(r) # 0 /\ 0 \notin Build
    BY <1>3, <2>1 DEF Build, TypeOK
  <2> QED BY <1>2, <2>2
<1>9. disturbed' \subseteq 1 .. builds /\ builds \in 0 .. MaxBuilds
  <2> DEFINE m == pkg["manifest"]
             d == pkg["digest"]
  <2>1. m \in Nat /\ d \in Nat /\ m <= builds /\ d <= builds /\ builds \in Nat
    BY <1>3, Names, Bounds DEF BuildsApart, TypeOK
  <2>2. Id(r) \in 1 .. builds /\ disturbed \subseteq 1 .. builds
    BY <1>2, <1>3, IdIsBuild DEF BuildsApart
  <2>3. {Id(r), m, d} \ {0} \subseteq 1 .. builds
    <3> HIDE DEF m, d
    <3> QED BY <2>1, <2>2
  <2> QED BY <1>2, <1>3, <2>2, <2>3 DEF TypeOK
<1>10. TypeOK'
  <2>1. disturbed' \subseteq Build
    BY <1>3, <1>9, NamesOfBuilds
  <2> QED BY <1>2, <1>3, <1>5, <2>1 DEF TypeOK, Quiet
<1>11. BuildsApart'
  BY <1>2, <1>3, <1>7, <1>8, <1>9 DEF BuildsApart, Quiet
<1>12. WorkIsLaidOut' /\ FreezesItsOwn'
  <2>1. SUFFICES ASSUME NEW q \in Request PROVE Work(q)' /\ Freezes(q)'
    BY DEF WorkIsLaidOut, FreezesItsOwn
  <2>2. Work(q) /\ Freezes(q)
    BY DEF EvidenceInv, WorkIsLaidOut, FreezesItsOwn
  <2>3. Work(q)'
    BY <1>6, <2>2 DEF Work, At
  <2>4. At(q, "digest")' => build'[q].frozen = build[q].frozen
    BY <1>2, <1>5, <1>6 DEF At
  <2> QED BY <1>2, <1>6, <1>8, <2>2, <2>3, <2>4 DEF Freezes, At, Id
<1>13. VersionsGrow'
  BY <1>2, VersionsFrame
<1>14. BuildsProgress'
  <2>1. SUFFICES ASSUME NEW q \in Request, Active(q)', Id(q)' \notin disturbed'
                 PROVE  Progress(q)'
    BY DEF BuildsProgress
  <2>2. q # r /\ Active(q)
    BY <1>7, <1>8, <2>1
  <2>3. Id(q) \in disturbed
    BY <1>2, <1>3, <2>2 DEF BuildsApart
  <2> QED BY <1>7, <1>8, <2>1, <2>3
<1>15. ManifestStands' /\ FrozenRemains' /\ WillBeMissed'
  BY <1>2, <1>8 DEF ManifestStands, FrozenRemains, WillBeMissed, Frozen
<1>16. NoAnswerYet' /\ VerifiedWasWhole'
  BY <1>2, <1>8 DEF EvidenceInv, Quiet, NoAnswerYet, VerifiedWasWhole, UnderCheck
<1> QED BY <1>10, <1>11, <1>12, <1>13, <1>14, <1>15, <1>16 DEF EvidenceInv

\* A step of a build past its clearing that does not write the digest.
LEMMA PastClearing ==
    ASSUME EvidenceInv, NEW r \in Request, Moves(r), TypeOK', Quiet,
           ~ At(r, "trace"), ~ (At(r, "clear") /\ "digest" \in build[r].left),
           pkg'["digest"] = pkg["digest"],
           pkg'["manifest"] \in {pkg["manifest"], Id(r)},
           Work(r)', Freezes(r)',
           Active(r)' /\ Id(r) \notin disturbed => Progress(r)',
           seenWhole => seenWhole', UNCHANGED traced, ManifestStands'
    PROVE  EvidenceInv'
<1> DEFINE m == pkg["manifest"]
           m2 == pkg'["manifest"]
           n == Id(r)
<1>1. m <= builds /\ pkg["digest"] <= builds /\ n \in 1 .. builds /\ builds \in Nat
  BY IdIsBuild DEF EvidenceInv, BuildsApart, TypeOK, Moves
<1>2. m2 \in {m, n}
  OBVIOUS
<1>3. m2 <= builds
  <2> HIDE DEF m, m2, n
  <2> QED BY <1>1, <1>2
<1>4. pkg'["manifest"] \in {0, pkg["manifest"], Id(r)}
  OBVIOUS
<1>5. /\ BuildsApart' /\ WorkIsLaidOut' /\ BuildsProgress'
      /\ FreezesItsOwn' /\ NoAnswerYet' /\ VerifiedWasWhole'
  BY <1>1, <1>3, <1>4, MovesKeep
<1>6. FrozenRemains' /\ WillBeMissed' /\ VersionsGrow'
  BY StillNothingFrozen, VersionsFrame
<1> QED BY <1>5, <1>6 DEF EvidenceInv

LEMMA ClearedStep ==
    ASSUME EvidenceInv, NEW r \in Request, Cleared(r)
    PROVE  EvidenceInv'
<1> DEFINE s == build[r]
           b == [s EXCEPT !.pc = "docs", !.todo = DocSeq]
<1>1. /\ s.pc = "clear" /\ s.left = {} /\ Active(r) /\ Leaving(r, b) /\ Quiet
      /\ UNCHANGED <<pkg, lists, traced, disturbed, seenWhole>>
  BY DEF Cleared, At, Active
<1>2. TypeOK /\ s \in BuildState /\ s.hash = Nothing
  BY <1>1 DEF EvidenceInv, TypeOK, WorkIsLaidOut, Work, At
<1>3. DocSeq \in Seq(Listable) /\ DocSeq # <<>>
  BY SequencesAssumption, SeqMonotonic, Names
<1>4. b \in BuildState /\ b.id = Id(r) /\ b.hash = Nothing /\ b.pc = "docs" /\ b.todo = DocSeq
  BY <1>2, <1>3 DEF BuildState, Id
<1> HIDE DEF b
<1>5. Moves(r) /\ build'[r] = b
  BY <1>1, <1>2, <1>4, LeavingMoves
<1>6. TypeOK'
  BY <1>1, <1>2, <1>5 DEF TypeOK, Moves, Quiet
<1>7. Work(r)' /\ Freezes(r)'
  BY <1>3, <1>4, <1>5 DEF Work, Freezes, At
<1>8. Id(r) \notin disturbed => Progress(r)'
  <2>1. SUFFICES ASSUME Id(r) \notin disturbed
                 PROVE  /\ Present' \subseteq Range(DocSeq)
                        /\ \A d \in Range(DocSeq) : d \in Range(build'[r].todo)
    BY <1>4, <1>5 DEF Progress, At
  <2>2. Present \subseteq s.left
    BY <1>1, <2>1 DEF EvidenceInv, BuildsProgress, Progress, At
  <2> QED BY <1>1, <1>4, <1>5, <2>2 DEF Present
<1>9. ManifestStands'
  BY <1>1, <1>5, ManifestStays
<1> QED BY <1>1, <1>5, <1>6, <1>7, <1>8, <1>9, PastClearing DEF At

LEMMA WriteDocStep ==
    ASSUME EvidenceInv, NEW r \in Request, WriteDoc(r)
    PROVE  EvidenceInv'
<1> DEFINE s == build[r]
           n == Id(r)
           d == Head(s.todo)
           rest == Tail(s.todo)
           b == IF rest # <<>> THEN [s EXCEPT !.todo = rest]
                ELSE [s EXCEPT !.pc = "copy", !.todo = ArtifactSeq]
<1>1. /\ s.pc = "docs" /\ Active(r) /\ Leaving(r, b) /\ Quiet
      /\ pkg' = [pkg EXCEPT ![d] = n] /\ UNCHANGED <<lists, traced, disturbed>> /\ Watch
  BY DEF WriteDoc, At, Active
<1>2. TypeOK /\ s \in BuildState /\ s.hash = Nothing /\ s.todo # <<>>
      /\ Range(s.todo) \subseteq Range(DocSeq) /\ pkg \in [Name -> Nat]
  BY <1>1 DEF EvidenceInv, TypeOK, WorkIsLaidOut, Work, At
<1>3. s.todo \in Seq(Listable) /\ n \in Nat
  BY <1>2 DEF BuildState, Id
<1>4. /\ d \in Range(DocSeq) /\ rest \in Seq(Listable) /\ Range(rest) \subseteq Range(DocSeq)
      /\ \A e \in Range(s.todo) : e = d \/ e \in Range(rest)
  BY <1>2, <1>3, HeadAndTail
<1>5. /\ ArtifactSeq \in Seq(Listable) /\ ArtifactSeq # <<>>
      /\ Range(ArtifactSeq) = Artifact
  BY SequencesAssumption, SeqMonotonic, Names DEF Artifact
<1>6. b \in BuildState /\ b.id = n /\ b.hash = Nothing
      /\ \/ b.pc = "docs" /\ b.todo = rest /\ rest # <<>>
         \/ b.pc = "copy" /\ b.todo = ArtifactSeq /\ rest = <<>>
  <2>1. CASE rest # <<>>
    <3>1. b = [s EXCEPT !.todo = rest]
      BY <2>1
    <3> HIDE DEF s, b, rest
    <3>2. b \in BuildState /\ b.id = s.id /\ b.hash = s.hash
          /\ b.pc = s.pc /\ b.todo = rest
      BY <1>2, <1>4, <3>1 DEF BuildState
    <3> QED BY <1>1, <1>2, <2>1, <3>2 DEF Id, s
  <2>2. CASE rest = <<>>
    <3>1. b = [s EXCEPT !.pc = "copy", !.todo = ArtifactSeq]
      BY <2>2
    <3> HIDE DEF s, b, rest
    <3>2. b \in BuildState /\ b.id = s.id /\ b.hash = s.hash
          /\ b.pc = "copy" /\ b.todo = ArtifactSeq
      BY <1>2, <1>5, <3>1 DEF BuildState
    <3> QED BY <1>2, <2>2, <3>2 DEF Id, s
  <2> QED BY <2>1, <2>2
<1> HIDE DEF b
<1>7. Moves(r) /\ build'[r] = b
  BY <1>1, <1>2, <1>6, LeavingMoves
<1>8. /\ pkg' \in [Name -> Nat] /\ \A g \in Name : pkg'[g] = IF g = d THEN n ELSE pkg[g]
      /\ d \in Name /\ d # "digest" /\ d # "manifest"
  <2>1. d \in Name /\ d # "digest" /\ d # "manifest"
    BY <1>4, Names
  <2> QED BY <1>1, <1>2, <1>3, <2>1
<1>9. seenWhole' \in BOOLEAN /\ (seenWhole => seenWhole')
  BY <1>1, WatchKeeps
<1>10. TypeOK'
  BY <1>1, <1>2, <1>7, <1>8, <1>9 DEF TypeOK, Moves, Quiet
<1>11. Work(r)' /\ Freezes(r)'
  BY <1>4, <1>5, <1>6, <1>7 DEF Work, Freezes, At
<1>12. n \notin disturbed => Progress(r)'
  <2>1. SUFFICES ASSUME n \notin disturbed PROVE Progress(r)'
    OBVIOUS
  <2>2. /\ Present \subseteq Range(DocSeq)
        /\ \A e \in Range(DocSeq) : e \in Range(s.todo) \/ pkg[e] = n
    BY <1>1, <2>1 DEF EvidenceInv, BuildsProgress, Progress, At
  <2>3. Present' \subseteq Range(DocSeq)
    BY <1>4, <1>8, <2>2 DEF Present
  <2>4. \A e \in Range(DocSeq) : e \in Range(rest) \/ pkg'[e] = n
    BY <1>4, <1>8, <2>2, Names
  <2>5. Id(r)' = n
    BY <1>6, <1>7 DEF Id
  <2>6. CASE b.pc = "docs" /\ b.todo = rest
    BY <1>7, <2>3, <2>4, <2>5, <2>6 DEF Progress, At
  <2>7. CASE b.pc = "copy" /\ rest = <<>>
    <3>1. \A a \in Artifact : pkg'[a] = 0
      BY <2>3, Names DEF Present
    <3>2. pkg'["digest"] = 0
      BY <2>3, Names DEF Present
    <3>3. \A e \in Range(DocSeq) : pkg'[e] = n
      <4> HIDE DEF rest, n
      <4>1. Range(rest) = {}
        BY <2>7, EmptyRange
      <4> QED BY <2>4, <4>1
    <3>4. DocsAndCopies(Id(r))'
      <4> HIDE DEF n
      <4> QED BY <2>5, <3>1, <3>2, <3>3 DEF DocsAndCopies, MayCopy
    <3> QED BY <1>7, <2>7, <3>4 DEF Progress, At
  <2> QED BY <1>6, <2>6, <2>7
<1>13. /\ pkg'["digest"] = pkg["digest"] /\ pkg'["manifest"] = pkg["manifest"]
  BY <1>8, Names
<1>14. ManifestStands'
  BY <1>1, <1>7, <1>13, ManifestStays
<1> QED BY <1>1, <1>7, <1>9, <1>10, <1>11, <1>12, <1>13, <1>14, PastClearing DEF At

LEMMA CopyStep ==
    ASSUME EvidenceInv, NEW r \in Request, Copy(r)
    PROVE  EvidenceInv'
<1> DEFINE s == build[r]
           n == Id(r)
           a == Head(s.todo)
           rest == Tail(s.todo)
           copies == traced[n][a] # 0 /\ data[a] # 0 /\ pkg[a] = 0
           b == IF rest # <<>> THEN [s EXCEPT !.todo = rest]
                ELSE [s EXCEPT !.pc = "scan", !.todo = <<>>]
<1>1. /\ s.pc = "copy" /\ Active(r) /\ Leaving(r, b) /\ Quiet
      /\ pkg' = IF copies THEN [pkg EXCEPT ![a] = data[a]] ELSE pkg
      /\ UNCHANGED <<lists, traced, disturbed>> /\ Watch
  BY DEF Copy, At, Active
<1>2. TypeOK /\ s \in BuildState /\ s.hash = Nothing /\ s.todo # <<>>
      /\ Range(s.todo) \subseteq Artifact /\ pkg \in [Name -> Nat]
      /\ data \in [Artifact -> Nat]
  BY <1>1 DEF EvidenceInv, TypeOK, WorkIsLaidOut, Work, At
<1>3. s.todo \in Seq(Listable) /\ n \in Build
  BY <1>1, <1>2, IdIsBuild DEF BuildState
<1>4. a \in Artifact /\ rest \in Seq(Listable) /\ Range(rest) \subseteq Artifact
  BY <1>2, <1>3, HeadAndTail
<1>5. b \in BuildState /\ b.id = n /\ b.hash = Nothing
      /\ \/ b.pc = "copy" /\ b.todo = rest /\ rest # <<>>
         \/ b.pc = "scan"
  <2>1. CASE rest # <<>>
    <3>1. b = [s EXCEPT !.todo = rest]
      BY <2>1
    <3> HIDE DEF s, b, rest
    <3>2. b \in BuildState /\ b.id = s.id /\ b.hash = s.hash
          /\ b.pc = s.pc /\ b.todo = rest
      BY <1>2, <1>4, <3>1 DEF BuildState
    <3> QED BY <1>1, <1>2, <2>1, <3>2 DEF Id, s
  <2>2. CASE rest = <<>>
    <3>1. b = [s EXCEPT !.pc = "scan", !.todo = <<>>]
      BY <2>2
    <3> HIDE DEF s, b, rest
    <3>2. b \in BuildState /\ b.id = s.id /\ b.hash = s.hash /\ b.pc = "scan"
      BY <1>2, <3>1, NoBuildIsIdle DEF BuildState
    <3> QED BY <1>2, <3>2 DEF Id, s
  <2> QED BY <2>1, <2>2
<1> HIDE DEF b
<1>6. Moves(r) /\ build'[r] = b
  BY <1>1, <1>2, <1>5, LeavingMoves
<1>7. a \in Name /\ a # "digest" /\ a # "manifest" /\ a \notin Range(DocSeq)
  BY <1>4, Names
<1>8. /\ pkg' \in [Name -> Nat]
      /\ \A g \in Name : pkg'[g] = IF g = a /\ copies THEN data[a] ELSE pkg[g]
  <2> HIDE DEF copies, a
  <2>1. data[a] \in Nat
    BY <1>2, <1>4
  <2>2. CASE copies
    BY <1>1, <1>2, <1>7, <2>1, <2>2
  <2>3. CASE ~ copies
    BY <1>1, <1>2, <2>3
  <2> QED BY <2>2, <2>3
<1>9. seenWhole' \in BOOLEAN /\ (seenWhole => seenWhole')
  BY <1>1, WatchKeeps
<1>10. TypeOK'
  BY <1>1, <1>2, <1>6, <1>8, <1>9 DEF TypeOK, Moves, Quiet
<1>11. Work(r)' /\ Freezes(r)'
  BY <1>4, <1>5, <1>6 DEF Work, Freezes, At
<1>12. n \notin disturbed => Progress(r)'
  <2>1. SUFFICES ASSUME n \notin disturbed PROVE DocsAndCopies(Id(r))'
    BY <1>5, <1>6 DEF Progress, At
  <2>2. Id(r)' = n
    BY <1>5, <1>6 DEF Id
  <2>3. /\ \A d \in Range(DocSeq) : pkg[d] = n
        /\ \A c \in Artifact : pkg[c] = 0 \/ (traced[n][c] # 0 /\ traced[n][c] <= pkg[c])
        /\ pkg["digest"] = 0
    BY <1>1, <2>1 DEF EvidenceInv, BuildsProgress, Progress, At, DocsAndCopies, MayCopy
  <2>4. \A d \in Range(DocSeq) : pkg'[d] = n
    BY <1>7, <1>8, <2>3, Names
  <2>5. pkg'["digest"] = 0
    BY <1>7, <1>8, <2>3, Names
  <2>6. ASSUME NEW c \in Artifact
        PROVE  pkg'[c] = 0 \/ (traced[n][c] # 0 /\ traced[n][c] <= pkg'[c])
    <3>1. CASE c = a /\ copies
      <4>1. pkg'[c] = data[c] /\ traced[n][c] # 0 /\ data[c] # 0
        BY <1>7, <1>8, <3>1
      <4>2. traced[n][c] <= data[c]
        BY <1>3, <4>1 DEF EvidenceInv, VersionsGrow
      <4> QED BY <4>1, <4>2
    <3>2. CASE ~ (c = a /\ copies)
      <4>1. pkg'[c] = pkg[c]
        BY <1>8, <3>2, Names
      <4> QED BY <2>3, <4>1
    <3> QED BY <3>1, <3>2
  <2>7. traced' = traced
    BY <1>1
  <2> HIDE DEF n
  <2> QED BY <2>2, <2>4, <2>5, <2>6, <2>7 DEF DocsAndCopies, MayCopy
<1>13. /\ pkg'["digest"] = pkg["digest"] /\ pkg'["manifest"] = pkg["manifest"]
  BY <1>7, <1>8, Names
<1>14. ManifestStands'
  BY <1>1, <1>6, <1>13, ManifestStays
<1> QED BY <1>1, <1>6, <1>9, <1>10, <1>11, <1>12, <1>13, <1>14, PastClearing DEF At

LEMMA ScanStep ==
    ASSUME EvidenceInv, NEW r \in Request, Scan(r)
    PROVE  EvidenceInv'
<1> DEFINE s == build[r]
           n == Id(r)
           there == {f \in Listable : pkg'[f] # 0}
           b == [s EXCEPT !.pc = "hash", !.todo = SetToSeq(there)]
<1>1. /\ s.pc = "scan" /\ Active(r) /\ Leaving(r, b) /\ Quiet
      /\ pkg' = [pkg EXCEPT !["security"] = n]
      /\ UNCHANGED <<lists, traced, disturbed>> /\ Watch
  BY DEF Scan, At, Active
<1>2. TypeOK /\ s \in BuildState /\ s.hash = Nothing /\ pkg \in [Name -> Nat]
  BY <1>1 DEF EvidenceInv, TypeOK, WorkIsLaidOut, Work, At
<1>3. n \in Build /\ n \in Nat
  BY <1>1, IdIsBuild DEF Build
<1>4. SetToSeq(there) \in Seq(Listable) /\ Range(SetToSeq(there)) = there
  <2> there \in SUBSET Listable
    OBVIOUS
  <2> HIDE DEF there
  <2> QED BY SetToSeqLists
<1>5. b \in BuildState /\ b.id = n /\ b.hash = Nothing /\ b.pc = "hash"
      /\ Range(b.todo) = there
  <2> HIDE DEF there
  <2> QED BY <1>2, <1>4 DEF BuildState, Id
<1> HIDE DEF b
<1>6. Moves(r) /\ build'[r] = b
  BY <1>1, <1>2, <1>5, LeavingMoves
<1>7. /\ pkg' \in [Name -> Nat]
      /\ \A g \in Name : pkg'[g] = IF g = "security" THEN n ELSE pkg[g]
  BY <1>1, <1>2, <1>3, Names
<1>8. seenWhole' \in BOOLEAN /\ (seenWhole => seenWhole')
  BY <1>1, WatchKeeps
<1>9. TypeOK'
  BY <1>1, <1>2, <1>6, <1>7, <1>8 DEF TypeOK, Moves, Quiet
<1>10. Work(r)' /\ Freezes(r)'
  BY <1>5, <1>6 DEF Work, Freezes, At
<1>11. n \notin disturbed => Progress(r)'
  <2>1. Id(r)' = n
    BY <1>5, <1>6 DEF Id
  <2>2. SUFFICES ASSUME n \notin disturbed
                 PROVE  /\ DocsAndCopies(Id(r))' /\ pkg'["security"] = n
                        /\ \A f \in Listable : f \in Range(build'[r].todo)
                                               \/ build'[r].hash[f] = pkg'[f]
    BY <1>5, <1>6, <2>1 DEF Progress, At
  <2>3. /\ \A d \in Range(DocSeq) : pkg[d] = n
        /\ \A c \in Artifact : pkg[c] = 0 \/ (traced[n][c] # 0 /\ traced[n][c] <= pkg[c])
        /\ pkg["digest"] = 0
    BY <1>1, <2>2 DEF EvidenceInv, BuildsProgress, Progress, At, DocsAndCopies, MayCopy
  <2>4. /\ \A d \in Range(DocSeq) : pkg'[d] = n
        /\ \A c \in Artifact : pkg'[c] = pkg[c]
        /\ pkg'["digest"] = 0
    BY <1>7, <2>3, Names
  <2>5. DocsAndCopies(Id(r))'
    <3> traced' = traced
      BY <1>1
    <3> HIDE DEF n
    <3> QED BY <2>1, <2>3, <2>4 DEF DocsAndCopies, MayCopy
  <2>6. \A f \in Listable : f \in there \/ Nothing[f] = pkg'[f]
    BY DEF Nothing
  <2> QED BY <1>5, <1>6, <1>7, <2>5, <2>6, Names
<1>12. /\ pkg'["digest"] = pkg["digest"] /\ pkg'["manifest"] = pkg["manifest"]
  BY <1>7, Names
<1>13. ManifestStands'
  BY <1>1, <1>6, <1>12, ManifestStays
<1> QED BY <1>1, <1>6, <1>8, <1>9, <1>10, <1>11, <1>12, <1>13, PastClearing DEF At

\* A build that only raises, or goes on from freezing, leaves it as well.
LEMMA ManifestFrame ==
    ASSUME EvidenceInv, NEW r \in Request, Moves(r),
           build'[r].pc \in {"idle", "freeze", "digest"},
           pkg'["manifest"] = pkg["manifest"], UNCHANGED <<lists, traced>>
    PROVE  ManifestStands'
<1>1. SUFFICES ASSUME NEW n \in Build, pkg["manifest"] = n, n \notin disturbed
               PROVE  Stands(n)'
  BY DEF ManifestStands, Moves
<1>2. Stands(n)
  BY <1>1 DEF EvidenceInv, ManifestStands
<1>3. ListsItsOwn(n)'
  BY <1>2 DEF Stands, ListsItsOwn, MayCopy
<1>4. \A q \in Request : Active(q)' /\ Id(q)' = n => build'[q].pc \in {"freeze", "digest"}
  BY <1>2 DEF Stands, Moves, Active, Id
<1> QED BY <1>3, <1>4 DEF Stands

LEMMA GivesUp ==
    ASSUME EvidenceInv, NEW r \in Request,
           build[r].pc \in {"docs", "copy", "scan", "hash", "freeze", "digest"},
           Leaving(r, NoBuild), Quiet,
           UNCHANGED <<pkg, lists, traced, disturbed, seenWhole>>
    PROVE  EvidenceInv'
<1>1. TypeOK /\ Active(r)
  BY DEF EvidenceInv, Active
<1>2. Moves(r) /\ build'[r] = NoBuild
  BY <1>1, NoBuildIsIdle, LeavingMoves
<1>3. TypeOK'
  BY <1>1, <1>2 DEF TypeOK, Moves, Quiet
<1>4. Work(r)' /\ Freezes(r)' /\ ~ Active(r)'
  BY <1>2, NoBuildIsIdle DEF Work, Freezes, At, Active
<1>5. ManifestStands'
  BY <1>2, NoBuildIsIdle, ManifestFrame
<1> QED BY <1>2, <1>3, <1>4, <1>5, PastClearing DEF At

LEMMA WriteRaisesStep ==
    ASSUME EvidenceInv, NEW r \in Request, WriteRaises(r)
    PROVE  EvidenceInv'
BY GivesUp DEF WriteRaises

LEMMA HashStep ==
    ASSUME EvidenceInv, NEW r \in Request, Hash(r)
    PROVE  EvidenceInv'
<1> DEFINE s == build[r]
           n == Id(r)
           f == Head(s.todo)
           b == [s EXCEPT !.todo = Tail(s.todo), !.hash[f] = pkg[f]]
<1>1. /\ s.pc = "hash" /\ s.todo # <<>> /\ Active(r) /\ Quiet
      /\ UNCHANGED <<pkg, lists, traced, disturbed, seenWhole>>
      /\ Leaving(r, NoBuild) \/ Leaving(r, b)
  BY DEF Hash, At, Active
<1>2. CASE Leaving(r, NoBuild)
  BY <1>1, <1>2, GivesUp
<1>3. CASE Leaving(r, b)
  <2>1. TypeOK /\ s \in BuildState /\ s.todo \in Seq(Listable)
    BY DEF EvidenceInv, TypeOK, BuildState
  <2>2. /\ f \in Listable /\ Tail(s.todo) \in Seq(Listable)
        /\ \A g \in Range(s.todo) : g = f \/ g \in Range(Tail(s.todo))
    <3>1. Range(s.todo) \subseteq Listable
      BY <2>1, RangeOfSeq
    <3> QED BY <1>1, <2>1, <3>1, HeadAndTail
  <2>3. pkg[f] \in Nat
    BY <2>1, <2>2, Names DEF TypeOK
  <2>4. /\ b \in BuildState /\ b.id = n /\ b.pc = "hash" /\ b.todo = Tail(s.todo)
        /\ \A g \in Listable : b.hash[g] = IF g = f THEN pkg[f] ELSE s.hash[g]
    <3>1. s.hash \in [Listable -> Nat]
      BY <2>1 DEF BuildState
    <3> HIDE DEF f
    <3> QED BY <1>1, <2>1, <2>2, <2>3, <3>1 DEF BuildState, Id
  <2>5. Leaving(r, b)
    BY <1>1, <1>3
  <2> HIDE DEF b
  <2>6. Moves(r) /\ build'[r] = b
    BY <1>1, <2>1, <2>4, <2>5, LeavingMoves
  <2>7. TypeOK'
    BY <1>1, <2>1, <2>6 DEF TypeOK, Moves, Quiet
  <2>8. Work(r)' /\ Freezes(r)'
    BY <2>4, <2>6 DEF Work, Freezes, At
  <2>9. n \notin disturbed => Progress(r)'
    <3>1. Id(r)' = n
      BY <2>4, <2>6 DEF Id
    <3>2. SUFFICES ASSUME n \notin disturbed
                   PROVE  /\ DocsAndCopies(Id(r))' /\ pkg["security"] = n
                          /\ \A g \in Listable : g \in Range(b.todo) \/ b.hash[g] = pkg[g]
      BY <1>1, <2>4, <2>6, <3>1 DEF Progress, At
    <3>3. /\ DocsAndCopies(n) /\ pkg["security"] = n
          /\ \A g \in Listable : g \in Range(s.todo) \/ s.hash[g] = pkg[g]
      BY <1>1, <3>2 DEF EvidenceInv, BuildsProgress, Progress, At
    <3>4. DocsAndCopies(Id(r))'
      BY <1>1, <3>1, <3>3 DEF DocsAndCopies, MayCopy
    <3> QED BY <2>2, <2>4, <3>3, <3>4
  <2>10. ManifestStands'
    BY <1>1, <2>6, ManifestStays
  <2> QED BY <1>1, <2>6, <2>7, <2>8, <2>9, <2>10, PastClearing DEF At
<1> QED BY <1>1, <1>2, <1>3

LEMMA HashManifestStep ==
    ASSUME EvidenceInv, NEW r \in Request, HashManifest(r)
    PROVE  EvidenceInv'
<1> DEFINE s == build[r]
           n == Id(r)
           m == pkg["manifest"]
           b == [s EXCEPT !.pc = "digest", !.frozen = m]
<1>1. /\ s.pc = "freeze" /\ Active(r) /\ Quiet
      /\ UNCHANGED <<pkg, lists, traced, disturbed, seenWhole>>
      /\ Leaving(r, IF m = 0 THEN NoBuild ELSE b)
  BY DEF HashManifest, At, Active
<1>2. CASE m = 0
  BY <1>1, <1>2, GivesUp
<1>3. CASE m # 0
  <2>1. TypeOK /\ s \in BuildState /\ m \in Nat
    BY Names DEF EvidenceInv, TypeOK
  <2>2. m \in {n} \cup disturbed
    BY <1>1, <1>3 DEF EvidenceInv, FreezesItsOwn, Freezes, At
  <2>3. b \in BuildState /\ b.id = n /\ b.pc = "digest" /\ b.frozen = m
    <3> HIDE DEF m
    <3> QED BY <2>1 DEF BuildState, Id
  <2>4. Leaving(r, b)
    BY <1>1, <1>3
  <2> HIDE DEF b
  <2>5. Moves(r) /\ build'[r] = b
    BY <1>1, <2>1, <2>3, <2>4, LeavingMoves
  <2>6. TypeOK'
    BY <1>1, <2>1, <2>5 DEF TypeOK, Moves, Quiet
  <2>7. Id(r)' = n
    BY <2>3, <2>5 DEF Id
  <2>8. Work(r)' /\ Freezes(r)'
    BY <1>1, <2>2, <2>3, <2>5, <2>7 DEF Work, Freezes, At
  <2>9. n \notin disturbed => Progress(r)'
    <3>1. SUFFICES ASSUME n \notin disturbed
                   PROVE  /\ m = n /\ pkg["digest"] = 0
                          /\ \A f \in Listable : pkg[f] = lists[n][f]
      BY <1>1, <2>3, <2>5, <2>7 DEF Progress, At
    <3> QED BY <1>1, <3>1 DEF EvidenceInv, BuildsProgress, Progress, At
  <2>10. ManifestStands'
    BY <1>1, <2>3, <2>5, ManifestFrame
  <2> QED BY <1>1, <2>5, <2>6, <2>8, <2>9, <2>10, PastClearing DEF At
<1> QED BY <1>2, <1>3

LEMMA WriteManifestStep ==
    ASSUME EvidenceInv, NEW r \in Request, WriteManifest(r)
    PROVE  EvidenceInv'
<1> DEFINE s == build[r]
           n == Id(r)
           b == [s EXCEPT !.pc = "freeze", !.hash = Nothing]
<1>1. /\ s.pc = "hash" /\ s.todo = <<>> /\ Active(r) /\ Quiet /\ Leaving(r, b)
      /\ lists' = [lists EXCEPT ![n] = s.hash]
      /\ pkg' = [pkg EXCEPT !["manifest"] = n]
      /\ UNCHANGED <<traced, disturbed>> /\ Watch
  BY DEF WriteManifest, At, Active
<1>2. TypeOK /\ s \in BuildState /\ s.hash \in [Listable -> Nat] /\ pkg \in [Name -> Nat]
      /\ lists \in [Build -> [Listable -> Nat]]
  BY DEF EvidenceInv, TypeOK, BuildState
<1>3. n \in Build /\ n \in Nat
  BY <1>1, IdIsBuild DEF Build
<1>4. b \in BuildState /\ b.id = n /\ b.pc = "freeze"
  BY <1>2 DEF BuildState, Id, Nothing
<1> HIDE DEF b
<1>5. Moves(r) /\ build'[r] = b
  BY <1>1, <1>2, <1>4, LeavingMoves
<1>6. /\ pkg' \in [Name -> Nat]
      /\ \A g \in Name : pkg'[g] = IF g = "manifest" THEN n ELSE pkg[g]
      /\ lists' \in [Build -> [Listable -> Nat]]
      /\ \A m \in Build : lists'[m] = IF m = n THEN s.hash ELSE lists[m]
  <2> HIDE DEF n, s
  <2> QED BY <1>1, <1>2, <1>3, Names
<1>7. seenWhole' \in BOOLEAN /\ (seenWhole => seenWhole')
  BY <1>1, WatchKeeps
<1>8. TypeOK'
  BY <1>1, <1>2, <1>5, <1>6, <1>7 DEF TypeOK, Moves, Quiet
<1>9. Id(r)' = n
  BY <1>4, <1>5 DEF Id
<1>10. pkg'["manifest"] = n /\ \A f \in Listable : pkg'[f] = pkg[f]
  BY <1>6, Names
<1>11. Work(r)' /\ Freezes(r)'
  BY <1>4, <1>5, <1>9, <1>10 DEF Work, Freezes, At
<1>12. ASSUME n \notin disturbed
       PROVE  /\ DocsAndCopies(n) /\ pkg["security"] = n
              /\ \A f \in Listable : s.hash[f] = pkg[f]
  <2>1. Progress(r)
    BY <1>1, <1>12 DEF EvidenceInv, BuildsProgress
  <2> QED BY <1>1, <2>1, EmptyRange DEF Progress, At
<1>13. n \notin disturbed => Progress(r)'
  <2>1. SUFFICES ASSUME n \notin disturbed
                 PROVE  /\ pkg'["manifest"] = n /\ pkg'["digest"] = 0
                        /\ \A f \in Listable : pkg'[f] = lists'[n][f]
    BY <1>4, <1>5, <1>9 DEF Progress, At
  <2> QED BY <1>3, <1>6, <1>10, <1>12, <2>1, Names DEF DocsAndCopies
<1>14. ManifestStands'
  <2>1. SUFFICES ASSUME NEW m \in Build, pkg'["manifest"] = m, m \notin disturbed
                 PROVE  Stands(m)'
    BY <1>1 DEF ManifestStands
  <2>2. m = n
    BY <1>10, <2>1
  <2>3. \A f \in Listable : lists'[m][f] = pkg[f]
    BY <1>3, <1>6, <1>12, <2>1, <2>2
  <2>4. ListsItsOwn(m)'
    <3>1. /\ \A d \in Doc : pkg[d] = m
          /\ \A a \in Artifact : MayCopy(m, a, pkg[a])
          /\ pkg["digest"] = 0
      BY <1>12, <2>1, <2>2, Names DEF DocsAndCopies
    <3> HIDE DEF n
    <3> QED BY <1>1, <2>3, <3>1, Names DEF ListsItsOwn, MayCopy
  <2>5. ASSUME NEW q \in Request, Active(q)', Id(q)' = m
        PROVE  build'[q].pc \in {"freeze", "digest"}
    <3>1. Active(q) /\ Active(r) /\ Id(r) \notin disturbed
      BY <1>1, <1>5, <2>1, <2>2, <2>5 DEF Moves, Active
    <3>2. q = r
      BY <3>1, Alone DEF EvidenceInv
    <3> QED BY <1>4, <1>5, <3>2
  <2> QED BY <2>4, <2>5 DEF Stands
<1> QED BY <1>1, <1>5, <1>7, <1>8, <1>11, <1>13, <1>14, <1>10, PastClearing, Names DEF At

LEMMA WriteDigestStep ==
    ASSUME EvidenceInv, NEW r \in Request, WriteDigest(r)
    PROVE  EvidenceInv'
<1> DEFINE s == build[r]
           n == Id(r)
           z == s.frozen
<1>1. /\ s.pc = "digest" /\ Active(r) /\ Quiet /\ Leaving(r, NoBuild)
      /\ pkg' = [pkg EXCEPT !["digest"] = z]
      /\ UNCHANGED <<lists, traced, disturbed>> /\ Watch
  BY DEF WriteDigest, At, Active
<1>2. TypeOK /\ s \in BuildState /\ z \in Nat /\ pkg \in [Name -> Nat] /\ BuildsApart
  BY DEF EvidenceInv, TypeOK, BuildState
<1>3. n \in Build /\ n \in 1 .. builds
  BY <1>1, IdIsBuild
<1>4. Moves(r) /\ build'[r] = NoBuild
  BY <1>1, <1>2, NoBuildIsIdle, LeavingMoves
<1>5. /\ pkg' \in [Name -> Nat]
      /\ \A g \in Name : pkg'[g] = IF g = "digest" THEN z ELSE pkg[g]
  BY <1>1, <1>2, Names
<1>6. /\ pkg'["digest"] = z /\ pkg'["manifest"] = pkg["manifest"]
      /\ \A f \in Listable \ {"digest"} : pkg'[f] = pkg[f]
  BY <1>5, Names
<1>7. /\ seenWhole' \in BOOLEAN /\ (seenWhole => seenWhole')
      /\ (~ seenWhole' => ~ seenWhole /\ ~ Whole')
  BY <1>1, WatchKeeps
<1>8. TypeOK'
  BY <1>1, <1>2, <1>4, <1>5, <1>7 DEF TypeOK, Moves, Quiet
<1>9. Work(r)' /\ Freezes(r)' /\ ~ Active(r)'
  BY <1>4, NoBuildIsIdle DEF Work, Freezes, At, Active
<1>10. z \in {n} \cup disturbed
  BY <1>1 DEF EvidenceInv, FreezesItsOwn, Freezes, At
<1>11. pkg'["manifest"] <= builds /\ pkg'["digest"] <= builds
  <2>1. z \in 1 .. builds /\ builds \in Nat
    BY <1>2, <1>3, <1>10 DEF BuildsApart, TypeOK
  <2> HIDE DEF z
  <2> QED BY <1>2, <1>6, <2>1 DEF BuildsApart
<1>12. /\ BuildsApart' /\ WorkIsLaidOut' /\ BuildsProgress'
       /\ FreezesItsOwn' /\ NoAnswerYet' /\ VerifiedWasWhole'
  BY <1>4, <1>6, <1>7, <1>9, <1>11, MovesKeep
<1>13. VersionsGrow' /\ ManifestStands'
  BY <1>1, <1>4, <1>6, NoBuildIsIdle, VersionsFrame, ManifestFrame
<1>14. ASSUME NEW m \in Build, Frozen(m)'
       PROVE  /\ m = n /\ n \notin disturbed /\ pkg["manifest"] = n
              /\ \A f \in Listable : pkg[f] = lists[n][f]
              /\ ListsItsOwn(n)
  <2>1. m = z /\ z = n /\ n \notin disturbed
    BY <1>1, <1>6, <1>10, <1>14 DEF Frozen
  <2>2. Progress(r)
    BY <1>1, <2>1 DEF EvidenceInv, BuildsProgress
  <2>3. pkg["manifest"] = n /\ \A f \in Listable : pkg[f] = lists[n][f]
    BY <1>1, <2>2 DEF Progress, At
  <2>4. ListsItsOwn(n)
    BY <1>3, <2>1, <2>3 DEF EvidenceInv, ManifestStands, Stands
  <2> QED BY <2>1, <2>3, <2>4
<1>15. FrozenRemains'
  <2>1. SUFFICES ASSUME NEW m \in Build, Frozen(m)'
                 PROVE  Remains(m)'
    BY DEF FrozenRemains
  <2>2. /\ m = n /\ n \notin disturbed /\ pkg["manifest"] = m
        /\ \A f \in Listable : pkg[f] = lists[m][f]
        /\ ListsItsOwn(m)
    BY <1>14, <2>1
  <2>3. ListsItsOwn(m)'
    BY <1>1, <2>2 DEF ListsItsOwn, MayCopy
  <2>4. pkg'["manifest"] = m /\ \A f \in Listable \ {"digest"} : pkg'[f] = lists'[m][f]
    BY <1>1, <1>6, <2>2
  <2>5. ASSUME NEW q \in Request, Active(q)' PROVE FALSE
    <3>1. Active(q) /\ q # r
      BY <1>4, <1>9, <2>5 DEF Moves, Active
    <3> QED BY <1>1, <1>2, <2>2, <3>1, Alone
  <2> QED BY <2>3, <2>4, <2>5 DEF Remains
<1>16. WillBeMissed'
  <2>1. SUFFICES ASSUME ~ Whole', NEW m \in Build, Frozen(m)'
                 PROVE  FALSE
    BY <1>7 DEF WillBeMissed
  <2>2. /\ m = n /\ pkg["manifest"] = m /\ lists[m]["digest"] = 0
        /\ \A f \in Listable : pkg[f] = lists[m][f]
    BY <1>14, <2>1 DEF ListsItsOwn
  <2>3. pkg'["digest"] = m /\ pkg'["manifest"] = m /\ m # 0
    BY <1>6, <2>1, <2>2 DEF Frozen, Build
  <2>4. \A f \in Listable \ {"digest"} : pkg'[f] = lists'[m][f]
    BY <1>1, <1>6, <2>2
  <2>5. lists'[m]["digest"] = 0
    BY <1>1, <2>2
  <2> HIDE DEF n
  <2> QED BY <2>1, <2>3, <2>4, <2>5 DEF Whole
<1> QED BY <1>8, <1>12, <1>13, <1>15, <1>16 DEF EvidenceInv

-------------------------------------------------------------------------------
(***************************************************************************)
(* The start of a build disturbs those in progress.                        *)
(***************************************************************************)
LEMMA StartStep ==
    ASSUME EvidenceInv, NEW r \in Request, Start(r)
    PROVE  EvidenceInv'
<1> DEFINE b == [NoBuild EXCEPT !.pc = "trace", !.id = builds + 1, !.todo = ArtifactSeq]
<1>1. /\ build[r].pc = "idle" /\ builds < MaxBuilds /\ builds' = builds + 1
      /\ build' = [build EXCEPT ![r] = b]
      /\ disturbed' = IF InProgress = {} THEN disturbed
                      ELSE disturbed \cup {builds + 1} \cup {Id(q) : q \in InProgress}
      /\ UNCHANGED <<data, versions, pkg, lists, crashes, check, traced, seenWhole>>
  BY DEF Start, At, Leaving
<1>2. /\ TypeOK /\ BuildsApart /\ builds \in Nat /\ MaxBuilds \in Nat
      /\ build \in [Request -> BuildState]
  BY Bounds DEF EvidenceInv, TypeOK
<1>3. /\ ArtifactSeq \in Seq(Listable) /\ ArtifactSeq # <<>>
      /\ Range(ArtifactSeq) = Artifact
  BY SequencesAssumption, SeqMonotonic, Names DEF Artifact
<1>4. b \in BuildState /\ b.pc = "trace" /\ b.id = builds + 1 /\ b.hash = Nothing
      /\ b.todo = ArtifactSeq
  <2> DEFINE k == builds + 1
             e == NoBuild
             c == [e EXCEPT !.pc = "trace", !.id = k, !.todo = ArtifactSeq]
  <2>1. k \in Nat
    BY <1>2
  <2>2. e \in BuildState /\ e.hash = Nothing
    BY NoBuildIsIdle
  <2>3. b = c
    OBVIOUS
  <2> HIDE DEF k, b, e
  <2>4. c \in BuildState /\ c.pc = "trace" /\ c.id = k /\ c.hash = e.hash
        /\ c.todo = ArtifactSeq
    BY <1>3, <2>1, <2>2 DEF BuildState
  <2> HIDE DEF c
  <2> QED BY <2>2, <2>3, <2>4 DEF k
<1> HIDE DEF b
<1>5. /\ build' \in [Request -> BuildState] /\ build'[r] = b
      /\ \A q \in Request : q # r => build'[q] = build[q]
  BY <1>1, <1>2, <1>4
<1>6. ASSUME NEW q \in Request, Active(q)
      PROVE  q # r /\ q \in InProgress /\ Id(q) \in 1 .. builds
  BY <1>1, <1>2, <1>6 DEF Active, InProgress, BuildsApart
<1>7. 1 .. builds \subseteq 1 .. builds' /\ builds + 1 \in 1 .. builds' /\ 1 .. builds' \subseteq Build
      /\ builds' \in 0 .. MaxBuilds /\ builds + 1 \notin 1 .. builds
  BY <1>1, <1>2 DEF Build
<1>8. disturbed \subseteq disturbed' /\ disturbed' \subseteq 1 .. builds'
  <2>1. disturbed \subseteq disturbed'
    BY <1>1
  <2>2. \A q \in InProgress : Id(q) \in 1 .. builds
    BY <1>2 DEF BuildsApart, InProgress, Active
  <2>3. disturbed \subseteq 1 .. builds
    BY <1>2 DEF BuildsApart
  <2> QED BY <1>1, <1>7, <2>1, <2>2, <2>3
<1>9. TypeOK'
  BY <1>1, <1>2, <1>5, <1>7, <1>8 DEF TypeOK
<1>10. \A q \in Request : q # r =>
          /\ Active(q)' <=> Active(q)
          /\ Id(q)' = Id(q)
  BY <1>5 DEF Active, Id
<1>11. ASSUME NEW q \in Request, Active(q)
       PROVE  Id(q) \in disturbed' /\ builds + 1 \in disturbed'
  BY <1>1, <1>6, <1>11
<1>12. Id(r)' = builds + 1 /\ Active(r)' /\ ~ Active(r)
  BY <1>1, <1>4, <1>5 DEF Id, Active
<1>13. BuildsApart'
  <2>1. ASSUME NEW q \in Request, Active(q)' PROVE Id(q)' \in 1 .. builds'
    <3>1. CASE q = r
      BY <1>7, <1>12, <3>1
    <3>2. CASE q # r
      BY <1>6, <1>7, <1>10, <2>1, <3>2
    <3> QED BY <3>1, <3>2
  <2>2. ASSUME NEW q \in Request, NEW p \in Request, Active(q)', Active(p)', q # p
        PROVE  Id(q)' # Id(p)' /\ Id(q)' \in disturbed'
    <3>1. CASE q = r
      BY <1>6, <1>7, <1>10, <1>11, <1>12, <2>2, <3>1
    <3>2. CASE p = r
      BY <1>6, <1>7, <1>10, <1>11, <1>12, <2>2, <3>2
    <3>3. CASE q # r /\ p # r
      BY <1>2, <1>8, <1>10, <2>2, <3>3 DEF BuildsApart
    <3> QED BY <3>1, <3>2, <3>3
  <2>3. pkg'["manifest"] <= builds' /\ pkg'["digest"] <= builds'
    <3> DEFINE m == pkg["manifest"]
               d == pkg["digest"]
    <3>1. m \in Nat /\ d \in Nat /\ m <= builds /\ d <= builds
      BY <1>2, Names DEF BuildsApart, TypeOK
    <3>2. m <= builds' /\ d <= builds'
      <4> HIDE DEF m, d
      <4> QED BY <1>1, <1>2, <3>1
    <3> QED BY <1>1, <3>2
  <2> QED BY <1>8, <2>1, <2>2, <2>3 DEF BuildsApart
<1>14. WorkIsLaidOut' /\ FreezesItsOwn'
  <2>1. Work(r)' /\ Freezes(r)'
    BY <1>3, <1>4, <1>5 DEF Work, Freezes, At
  <2>2. ASSUME NEW q \in Request, q # r PROVE Work(q)' /\ Freezes(q)'
    <3>1. Work(q) /\ Freezes(q)
      BY DEF EvidenceInv, WorkIsLaidOut, FreezesItsOwn
    <3>2. build'[q] = build[q] /\ pkg' = pkg
      BY <1>1, <1>5, <2>2
    <3> QED BY <1>8, <3>1, <3>2 DEF Work, Freezes, At, Id
  <2> QED BY <2>1, <2>2 DEF WorkIsLaidOut, FreezesItsOwn
<1>15. VersionsGrow'
  BY <1>1 DEF EvidenceInv, VersionsGrow
<1>16. BuildsProgress'
  <2>1. SUFFICES ASSUME NEW q \in Request, Active(q)', Id(q)' \notin disturbed'
                 PROVE  Progress(q)'
    BY DEF BuildsProgress
  <2>2. q = r
    BY <1>10, <1>11, <2>1
  <2> QED BY <1>4, <1>5, <2>2 DEF Progress, At
<1>17. ASSUME NEW n \in Build, n <= builds
       PROVE  \A q \in Request : Active(q)' /\ Id(q)' = n => Active(q) /\ q # r /\ Id(q) = n
  BY <1>2, <1>10, <1>12, <1>17
<1>18. ManifestStands'
  <2>1. SUFFICES ASSUME NEW n \in Build, pkg["manifest"] = n, n \notin disturbed'
                 PROVE  Stands(n)'
    BY <1>1 DEF ManifestStands
  <2>2. Stands(n) /\ n <= builds
    BY <1>2, <1>8, <2>1 DEF EvidenceInv, ManifestStands, BuildsApart
  <2>3. ListsItsOwn(n)'
    BY <1>1, <2>2 DEF Stands, ListsItsOwn, MayCopy
  <2>4. ASSUME NEW q \in Request, Active(q)', Id(q)' = n
        PROVE  build'[q].pc \in {"freeze", "digest"}
    <3>1. Active(q) /\ q # r /\ Id(q) = n
      BY <1>17, <2>2, <2>4
    <3> QED BY <1>5, <2>2, <3>1 DEF Stands
  <2> QED BY <2>3, <2>4 DEF Stands
<1>19. ASSUME NEW n \in Build, Frozen(n)'
       PROVE  Frozen(n) /\ n <= builds
  BY <1>1, <1>2, <1>8, <1>19 DEF Frozen, BuildsApart
<1>20. FrozenRemains'
  <2>1. SUFFICES ASSUME NEW n \in Build, Frozen(n)'
                 PROVE  Remains(n)'
    BY DEF FrozenRemains
  <2>2. Remains(n) /\ n <= builds
    BY <1>19, <2>1 DEF EvidenceInv, FrozenRemains
  <2>3. ListsItsOwn(n)'
    BY <1>1, <2>2 DEF Remains, ListsItsOwn, MayCopy
  <2>4. ASSUME NEW q \in Request, Active(q)'
        PROVE  /\ Id(q)' # n
               /\ At(q, "trace")' \/ (At(q, "clear")' /\ "digest" \in build'[q].left)
    <3>1. CASE q = r
      <4>1. Id(q)' # n
        BY <1>2, <1>12, <2>2, <3>1
      <4> QED BY <1>4, <1>5, <3>1, <4>1 DEF At
    <3>2. CASE q # r
      BY <1>5, <2>2, <2>4, <3>2 DEF Remains, Active, Id, At
    <3> QED BY <3>1, <3>2
  <2> QED BY <1>1, <2>2, <2>3, <2>4 DEF Remains
<1>21. WillBeMissed'
  <2>1. SUFFICES ASSUME UnderCheck, ~ seenWhole, NEW n \in Build, Frozen(n)'
                 PROVE  Misses(n)'
    BY <1>1 DEF WillBeMissed, UnderCheck
  <2>2. Misses(n)
    BY <1>19, <2>1 DEF EvidenceInv, WillBeMissed
  <2> QED BY <1>1, <2>2 DEF Misses, Missing, Checking
<1>22. NoAnswerYet' /\ VerifiedWasWhole'
  BY <1>1, <1>8 DEF EvidenceInv, NoAnswerYet, VerifiedWasWhole, UnderCheck
<1> QED BY <1>9, <1>13, <1>14, <1>15, <1>16, <1>18, <1>20, <1>21, <1>22
    DEF EvidenceInv

-------------------------------------------------------------------------------
(***************************************************************************)
(* The theorems.                                                           *)
(***************************************************************************)
LEMMA NextKeepsInv == EvidenceInv /\ [Next]_vars => EvidenceInv'
<1> SUFFICES ASSUME EvidenceInv, [Next]_vars PROVE EvidenceInv'
  OBVIOUS
<1>1. ASSUME NEW a \in Artifact, Rewrite(a) \/ RemoveArtifact(a) PROVE EvidenceInv'
  BY <1>1, RewriteStep, RemoveArtifactStep
<1>2. ASSUME NEW r \in Request, BuildStep(r) PROVE EvidenceInv'
  BY <1>2, StartStep, TraceStep, ClearStep, LeaveBehindStep, ClearedStep,
     WriteDocStep, CopyStep, ScanStep, HashStep, WriteManifestStep, HashManifestStep, WriteDigestStep,
     WriteRaisesStep DEF BuildStep
<1>3. CASE UNCHANGED vars
  <2>1. UNCHANGED <<data, versions, pkg, lists, build, builds, crashes, check,
                    traced, disturbed, seenWhole>>
    BY <1>3 DEF vars
  <2>2. TypeOK' /\ VersionsGrow'
    BY <2>1 DEF EvidenceInv, TypeOK, VersionsGrow
  <2> QED BY <2>1, <2>2, DataFrame
<1> QED BY <1>1, <1>2, <1>3, VerifyStep, CrashStep DEF Next

\* In every reachable state builds in progress are apart, an undisturbed one
\* has the package hold what it has written, and whoever removes a frozen
\* package has yet to remove its digest.
THEOREM EvidenceInvHolds == Spec => []EvidenceInv
<1>1. Init => EvidenceInv
  BY InitInv
<1>2. EvidenceInv /\ [Next]_vars => EvidenceInv'
  BY NextKeepsInv
<1> QED BY <1>1, <1>2, PTL DEF Spec

\* Every variable keeps its type: a build's identity, the files that it has
\* yet to visit and the hashes that it has taken among them.
THEOREM EvidenceIsTyped == Spec => []TypeOK
<1>1. EvidenceInv => TypeOK
  BY DEF EvidenceInv
<1> QED BY <1>1, EvidenceInvHolds, PTL

\* A package that verifies is one build's, whatever earlier builds and crashes
\* left and whatever stages rewrote meanwhile: every document is by the build
\* that wrote the manifest, and every copy is of an artifact that its
\* provenance names, in that version or a later one.
THEOREM FrozenPackageIsOneBuilds == Spec => []FrozenIsOneBuild
<1>1. ASSUME EvidenceInv PROVE FrozenIsOneBuild
  <2> DEFINE n == pkg["manifest"]
  <2>1. SUFFICES ASSUME Whole, n \notin disturbed
                 PROVE  /\ \A d \in Doc : pkg[d] = n
                        /\ \A a \in Artifact :
                              IF traced[n][a] = 0 THEN pkg[a] = 0
                              ELSE pkg[a] = 0 \/ pkg[a] >= traced[n][a]
    BY DEF FrozenIsOneBuild
  <2>2. n # 0 /\ \A f \in Listable \ {"digest"} : pkg[f] = lists[n][f]
    BY <2>1 DEF Whole
  <2>3. n \in Build
    BY <1>1, <2>2, NamesOfBuilds DEF EvidenceInv
  <2>4. ListsItsOwn(n)
    BY <1>1, <2>1, <2>3 DEF EvidenceInv, ManifestStands, Stands
  <2>5. \A d \in Doc : pkg[d] = n
    BY <2>2, <2>4, Names DEF ListsItsOwn
  <2>6. ASSUME NEW a \in Artifact
        PROVE  IF traced[n][a] = 0 THEN pkg[a] = 0
               ELSE pkg[a] = 0 \/ pkg[a] >= traced[n][a]
    <3>1. MayCopy(n, a, pkg[a])
      BY <2>2, <2>4, Names DEF ListsItsOwn
    <3>2. pkg[a] \in Nat /\ traced[n][a] \in Nat
      BY <1>1, <2>3, Names DEF EvidenceInv, TypeOK
    <3> QED BY <3>1, <3>2 DEF MayCopy
  <2> QED BY <2>5, <2>6
<1>2. EvidenceInv => FrozenIsOneBuild
  BY <1>1
<1> QED BY <1>2, EvidenceInvHolds, PTL

\* A verification that answers VERIFIED had the package whole before it at
\* some moment between its first look and its answer, unless the build whose
\* digest it compared had been disturbed by another or by a failing rmtree.
THEOREM VerifiedPackagesWereWhole == Spec => []VerifiedWasWhole
<1>1. EvidenceInv => VerifiedWasWhole
  BY DEF EvidenceInv
<1> QED BY <1>1, EvidenceInvHolds, PTL

===============================================================================
