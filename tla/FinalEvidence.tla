----------------------------- MODULE FinalEvidence -----------------------------
(***************************************************************************)
(* The final evidence package of one experiment: admin requests build it   *)
(* (backend/app/api/m12.py: build_evidence, backend/app/m12/provenance.py, *)
(* package.py: build_final_evidence) and analyst requests verify it        *)
(* (package.py: verify_frozen).  Nothing locks the package directory, which *)
(* is named after the experiment: every build removes it and writes it     *)
(* anew in place, while stages rewrite or reset the artifacts it copies.   *)
(*                                                                         *)
(* A generated document is the build that wrote it, an artifact or its     *)
(* copy the version of its content; equal contents have equal SHA-256 and  *)
(* different contents different ones.  Whole files are written at once     *)
(* here: a partly written file has a hash of its own, which is never the   *)
(* final one's.                                                            *)
(***************************************************************************)
EXTENDS Naturals, Sequences, SequencesExt

CONSTANTS
    Request,       \* build requests that may be in progress together
    DocSeq,        \* the documents generated first, in the order of writing
    ArtifactSeq,   \* the stage artifacts a package copies, in chain order
    MaxBuilds,     \* bound: how many builds are started
    MaxVersions,   \* bound: how many versions of artifacts there are
    MaxCrashes     \* bound: how often the server process dies

Doc == Range(DocSeq) \cup {"security"}
Artifact == Range(ArtifactSeq)
Listable == Doc \cup Artifact \cup {"digest"}
Name == Listable \cup {"manifest"}

ASSUME BoundsAssumption ==
    MaxBuilds \in Nat /\ MaxVersions \in Nat /\ MaxCrashes \in Nat
ASSUME NamesAssumption ==
    /\ {"security", "digest", "manifest"} \cap (Range(DocSeq) \cup Artifact) = {}
    /\ Range(DocSeq) \cap Artifact = {}
ASSUME SequencesAssumption ==
    /\ DocSeq \in Seq(Range(DocSeq)) /\ DocSeq # <<>>
    /\ ArtifactSeq \in Seq(Artifact) /\ ArtifactSeq # <<>>

VARIABLES
    data,       \* the version of every stage artifact, 0 if it is absent
    versions,   \* how many versions were written
    pkg,        \* the files of the package, 0 if absent; a manifest or a
                \* digest is named by the build that wrote that manifest
    lists,      \* what the manifest of a build lists, 0: not listed
    build,      \* what every build request is doing
    builds,     \* how many builds were started
    crashes,    \* how many crashes there were
    check,      \* the verification in progress or its answer
    traced,     \* history: the versions that a build's provenance names
    disturbed,  \* history: builds that overlapped with another one or whose
                \* directory rmtree did not empty, and what it had held
    seenWhole   \* history: the package was whole since the verification began

vars == <<data, versions, pkg, lists, build, builds, crashes, check, traced,
          disturbed, seenWhole>>

Build == 1 .. MaxBuilds
Nothing == [f \in Listable |-> 0]

\* todo: files still to visit; left: files that rmtree found and has yet to
\* unlink; hash: the hashes taken so far, at the end the manifest's.
NoBuild == [pc |-> "idle", id |-> 0, todo |-> <<>>, left |-> {},
            hash |-> Nothing, frozen |-> 0]
NoCheck == [pc |-> "idle", todo |-> <<>>, by |-> 0, answer |-> "none"]

Init ==
    /\ data = [a \in Artifact |-> 0] /\ versions = 0
    /\ pkg = [f \in Name |-> 0]
    /\ lists = [n \in Build |-> Nothing]
    /\ build = [r \in Request |-> NoBuild] /\ builds = 0 /\ crashes = 0
    /\ check = NoCheck
    /\ traced = [n \in Build |-> [a \in Artifact |-> 0]]
    /\ disturbed = {}
    /\ seenWhole = FALSE

Present == {f \in Name : pkg[f] # 0}

\* Every listed file is there with the hash listed, no other file is, and the
\* digest is the manifest's: what verify_frozen calls VERIFIED.
Whole ==
    /\ pkg["manifest"] # 0
    /\ pkg["digest"] = pkg["manifest"]
    /\ \A f \in Listable \ {"digest"} : pkg[f] = lists[pkg["manifest"]][f]
    /\ lists[pkg["manifest"]]["digest"] \in {0, pkg["digest"]}

\* What a step that writes no package file leaves to the histories.
Watch == seenWhole' = (seenWhole \/ Whole')

-------------------------------------------------------------------------------
\* The stages: a run rewrites an artifact, a reset removes it.

Rewrite(a) ==
    /\ versions < MaxVersions
    /\ versions' = versions + 1
    /\ data' = [data EXCEPT ![a] = versions + 1]
    /\ UNCHANGED <<pkg, lists, build, builds, crashes, check, traced,
                   disturbed, seenWhole>>

RemoveArtifact(a) ==
    /\ data[a] # 0
    /\ data' = [data EXCEPT ![a] = 0]
    /\ UNCHANGED <<versions, pkg, lists, build, builds, crashes, check, traced,
                   disturbed, seenWhole>>

-------------------------------------------------------------------------------
\* A build

InProgress == {r \in Request : build[r].pc # "idle"}
At(r, where) == build[r].pc = where
Id(r) == build[r].id

Leaving(r, b) == build' = [build EXCEPT ![r] = b]
Quiet == UNCHANGED <<data, versions, builds, crashes, check>>

\* The request got past the pair, the gate, the experiment's identity and the
\* configuration chain.
Start(r) ==
    /\ At(r, "idle") /\ builds < MaxBuilds
    /\ builds' = builds + 1
    /\ Leaving(r, [NoBuild EXCEPT !.pc = "trace", !.id = builds + 1,
                                  !.todo = ArtifactSeq])
    /\ disturbed' = IF InProgress = {} THEN disturbed
                    ELSE disturbed \cup {builds + 1}
                                   \cup {Id(q) : q \in InProgress}
    /\ UNCHANGED <<data, versions, pkg, lists, crashes, check, traced,
                   seenWhole>>

\* Faulty variant: the directory of an earlier build is kept.
FoundNothing == {}

\* What rmtree finds to remove.
Found == Present

\* build_full_provenance names and hashes the artifacts that are there; the
\* audits follow, and then rmtree lists the package directory.
Trace(r) ==
    /\ At(r, "trace")
    /\ LET a == Head(build[r].todo)
           rest == Tail(build[r].todo)
       IN  /\ traced' = [traced EXCEPT ![Id(r)][a] = data[a]]
           /\ Leaving(r, IF rest # <<>> THEN [build[r] EXCEPT !.todo = rest]
                         ELSE [build[r] EXCEPT !.pc = "clear",
                                               !.todo = <<>>,
                                               !.left = Found])
    /\ Quiet /\ UNCHANGED <<pkg, lists, disturbed, seenWhole>>

\* rmtree unlinks what it found in any order, and may see files that came
\* later.
Clear(r) ==
    /\ At(r, "clear")
    /\ build[r].left # {}
    /\ \E f \in build[r].left \cup Present :
         /\ pkg' = [pkg EXCEPT ![f] = 0]
         /\ Leaving(r, [build[r] EXCEPT !.left = @ \ {f}])
    /\ Quiet /\ UNCHANGED <<lists, traced, disturbed>>
    /\ Watch

\* An unlink fails, and with ignore_errors the build goes on among what is left
\* of the package that was there.
LeaveBehind(r) ==
    /\ At(r, "clear")
    /\ \E f \in build[r].left \cap Present :
         Leaving(r, [build[r] EXCEPT !.left = @ \ {f}])
    /\ disturbed' = disturbed \cup
                      ({Id(r), pkg["manifest"], pkg["digest"]} \ {0})
    /\ Quiet /\ UNCHANGED <<pkg, lists, traced, seenWhole>>

Cleared(r) ==
    /\ At(r, "clear") /\ build[r].left = {}
    /\ Leaving(r, [build[r] EXCEPT !.pc = "docs", !.todo = DocSeq])
    /\ Quiet /\ UNCHANGED <<pkg, lists, traced, disturbed, seenWhole>>

WriteDoc(r) ==
    /\ At(r, "docs")
    /\ LET rest == Tail(build[r].todo)
       IN  Leaving(r, IF rest # <<>> THEN [build[r] EXCEPT !.todo = rest]
                      ELSE [build[r] EXCEPT !.pc = "copy",
                                            !.todo = ArtifactSeq])
    /\ pkg' = [pkg EXCEPT ![Head(build[r].todo)] = Id(r)]
    /\ Quiet /\ UNCHANGED <<lists, traced, disturbed>>
    /\ Watch

\* _copy_artifacts: what the provenance names, if it is still there, as it is
\* now; a copy that exists is kept.
Copy(r) ==
    /\ At(r, "copy")
    /\ LET a == Head(build[r].todo)
           rest == Tail(build[r].todo)
       IN  /\ Leaving(r, IF rest # <<>> THEN [build[r] EXCEPT !.todo = rest]
                         ELSE [build[r] EXCEPT !.pc = "scan", !.todo = <<>>])
           /\ pkg' = IF traced[Id(r)][a] # 0 /\ data[a] # 0 /\ pkg[a] = 0
                     THEN [pkg EXCEPT ![a] = data[a]] ELSE pkg
    /\ Quiet /\ UNCHANGED <<lists, traced, disturbed>>
    /\ Watch

\* security.json, then the files to list.
Scan(r) ==
    /\ At(r, "scan")
    /\ pkg' = [pkg EXCEPT !["security"] = Id(r)]
    /\ LET there == {f \in Listable : pkg'[f] # 0}
       IN  Leaving(r, [build[r] EXCEPT !.pc = "hash", !.todo = SetToSeq(there)])
    /\ Quiet /\ UNCHANGED <<lists, traced, disturbed>>
    /\ Watch

\* sha256_file of each.  One that is gone is passed over (is_file), or raises
\* if it goes between is_file and the reading.
Hash(r) ==
    /\ At(r, "hash") /\ build[r].todo # <<>>
    /\ LET f == Head(build[r].todo)
       IN  \/ Leaving(r, [build[r] EXCEPT !.todo = Tail(@), !.hash[f] = pkg[f]])
           \/ pkg[f] = 0 /\ Leaving(r, NoBuild)
    /\ Quiet /\ UNCHANGED <<pkg, lists, traced, disturbed, seenWhole>>

WriteManifest(r) ==
    /\ At(r, "hash") /\ build[r].todo = <<>>
    /\ lists' = [lists EXCEPT ![Id(r)] = build[r].hash]
    /\ pkg' = [pkg EXCEPT !["manifest"] = Id(r)]
    /\ Leaving(r, [build[r] EXCEPT !.pc = "freeze", !.hash = Nothing])
    /\ Quiet /\ UNCHANGED <<traced, disturbed>>
    /\ Watch

\* The manifest is hashed as it is on disk.
HashManifest(r) ==
    /\ At(r, "freeze")
    /\ Leaving(r, IF pkg["manifest"] = 0 THEN NoBuild
                  ELSE [build[r] EXCEPT !.pc = "digest",
                                        !.frozen = pkg["manifest"]])
    /\ Quiet /\ UNCHANGED <<pkg, lists, traced, disturbed, seenWhole>>

WriteDigest(r) ==
    /\ At(r, "digest")
    /\ pkg' = [pkg EXCEPT !["digest"] = build[r].frozen]
    /\ Leaving(r, NoBuild)
    /\ Quiet /\ UNCHANGED <<lists, traced, disturbed>>
    /\ Watch

\* A write finds its directory gone: the rmtree of another build was faster.
WriteRaises(r) ==
    /\ build[r].pc \in {"docs", "copy", "scan", "hash", "digest"}
    /\ \E q \in Request \ {r} : At(q, "clear") \/ At(q, "docs")
    /\ Present = {}
    /\ Leaving(r, NoBuild)
    /\ Quiet /\ UNCHANGED <<pkg, lists, traced, disturbed, seenWhole>>

-------------------------------------------------------------------------------
\* verify_frozen

Checking(where) == check.pc = where
Answer(a) == check' = [NoCheck EXCEPT !.pc = "answered", !.answer = a,
                                      !.by = check.by]
Reading ==
    /\ UNCHANGED <<data, versions, pkg, lists, build, builds, crashes, traced,
                   disturbed>>
    /\ Watch

\* The manifest is there, or NOT_FOUND or INCOMPLETE.
Look ==
    /\ check.pc \in {"idle", "answered"}
    /\ IF pkg["manifest"] = 0 THEN Answer("INCOMPLETE")
       ELSE check' = [NoCheck EXCEPT !.pc = "digest"]
    /\ UNCHANGED <<data, versions, pkg, lists, build, builds, crashes, traced,
                   disturbed>>
    /\ seenWhole' = Whole

\* So is the digest.
LookForDigest ==
    /\ Checking("digest")
    /\ IF pkg["digest"] = 0 THEN Answer("INCOMPLETE")
       ELSE check' = [check EXCEPT !.pc = "read"]
    /\ Reading

\* A manifest that is gone by now raises.
ReadManifest ==
    /\ Checking("read")
    /\ IF pkg["manifest"] = 0 THEN Answer("ERROR")
       ELSE LET n == pkg["manifest"]
            IN  check' = [check EXCEPT !.pc = "files", !.by = n,
                   !.todo = SetToSeq({f \in Listable : lists[n][f] # 0})]
    /\ Reading

\* Faulty variant: a listed file that is missing is not looked at.
MatchesIfPresent(f) == pkg[f] \in {0, lists[check.by][f]}

Matches(f) == pkg[f] = lists[check.by][f]

\* One listed file after the other: a missing or modified one already decides
\* that the answer is not VERIFIED.
CheckFile ==
    /\ Checking("files") /\ check.todo # <<>>
    /\ IF Matches(Head(check.todo)) THEN check' = [check EXCEPT !.todo = Tail(@)]
       ELSE Answer("INTEGRITY_DEGRADED")
    /\ Reading

CheckExtra ==
    /\ Checking("files") /\ check.todo = <<>>
    /\ IF \E f \in Present \ {"manifest", "digest"} : lists[check.by][f] = 0
       THEN Answer("INTEGRITY_DEGRADED")
       ELSE check' = [check EXCEPT !.pc = "manifest"]
    /\ Reading

\* The manifest's hash, once more from disk, then the recorded digest.
RehashManifest ==
    /\ Checking("manifest")
    /\ IF pkg["manifest"] = 0 THEN Answer("ERROR")
       ELSE check' = [check EXCEPT !.pc = "frozen", !.by = pkg["manifest"]]
    /\ Reading

CompareDigest ==
    /\ Checking("frozen")
    /\ Answer(IF pkg["digest"] = 0 THEN "ERROR"
              ELSE IF pkg["digest"] = check.by THEN "VERIFIED"
              ELSE "INTEGRITY_DEGRADED")
    /\ Reading

-------------------------------------------------------------------------------
\* The server process dies and is restarted; files stay as they are.

Crash ==
    /\ crashes < MaxCrashes
    /\ InProgress # {}
    /\ crashes' = crashes + 1
    /\ build' = [r \in Request |-> NoBuild]
    /\ check' = NoCheck
    /\ UNCHANGED <<data, versions, pkg, lists, builds, traced, disturbed,
                   seenWhole>>

BuildStep(r) ==
    \/ Start(r) \/ Trace(r) \/ Clear(r) \/ LeaveBehind(r) \/ Cleared(r)
    \/ WriteDoc(r) \/ Copy(r) \/ Scan(r) \/ Hash(r) \/ WriteManifest(r) \/ HashManifest(r)
    \/ WriteDigest(r) \/ WriteRaises(r)

Verify ==
    \/ Look \/ LookForDigest \/ ReadManifest \/ CheckFile \/ CheckExtra
    \/ RehashManifest \/ CompareDigest

Next ==
    \/ \E a \in Artifact : Rewrite(a) \/ RemoveArtifact(a)
    \/ \E r \in Request : BuildStep(r)
    \/ Verify
    \/ Crash

Spec == Init /\ [][Next]_vars

-------------------------------------------------------------------------------
\* Types

BuildState ==
    [pc : {"idle", "trace", "clear", "docs", "copy", "scan", "hash", "freeze",
           "digest"},
     id : Nat, todo : Seq(Listable), left : SUBSET Name,
     hash : [Listable -> Nat], frozen : Nat]

CheckState ==
    [pc : {"idle", "digest", "read", "files", "manifest", "frozen", "answered"},
     todo : Seq(Listable), by : Nat,
     answer : {"none", "VERIFIED", "INCOMPLETE", "INTEGRITY_DEGRADED", "ERROR"}]

TypeOK ==
    /\ data \in [Artifact -> Nat] /\ versions \in Nat
    /\ pkg \in [Name -> Nat]
    /\ lists \in [Build -> [Listable -> Nat]]
    /\ build \in [Request -> BuildState]
    /\ builds \in 0 .. MaxBuilds /\ crashes \in Nat
    /\ check \in CheckState
    /\ traced \in [Build -> [Artifact -> Nat]]
    /\ disturbed \subseteq Build /\ seenWhole \in BOOLEAN

-------------------------------------------------------------------------------
\* What a frozen package promises

\* A package that verifies is one build's: every generated document is by the
\* build that wrote the manifest, and it holds no copy of an artifact that the
\* provenance does not name and none older than the version whose hash the
\* provenance gives.  However often it was built before, whatever a crash left
\* behind and whatever stages rewrite meanwhile; only builds of one experiment
\* that overlap, and one whose rmtree left files, may mix.
FrozenIsOneBuild ==
    LET n == pkg["manifest"]
    IN  Whole /\ n \notin disturbed =>
          /\ \A d \in Doc : pkg[d] = n
          /\ \A a \in Artifact :
                IF traced[n][a] = 0 THEN pkg[a] = 0
                ELSE pkg[a] = 0 \/ pkg[a] >= traced[n][a]

\* VERIFIED is never the answer about a package that was not whole at any
\* moment of the verification, with a build removing, writing and freezing it
\* meanwhile and the process dying; again unless builds overlap or rmtree left
\* files of the package.
VerifiedWasWhole ==
    check.answer = "VERIFIED" => seenWhole \/ check.by \in disturbed

===============================================================================
