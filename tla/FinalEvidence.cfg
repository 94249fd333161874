SPECIFICATION Spec
CONSTANTS
    Request = {r1, r2}
    DocSeq <- OneDoc
    ArtifactSeq <- OneArtifact
    MaxBuilds = 2
    MaxVersions = 2
    MaxCrashes = 1
INVARIANTS
    FrozenIsOneBuild
    VerifiedWasWhole
CHECK_DEADLOCK FALSE
