SPECIFICATION Spec
CONSTANTS
    TileSeq <- TwoTiles
    Quality = {"good", "weak"}
    NamesTiles = {TRUE, FALSE}
    Budgets <- SelectedOrJudgedAgain
    MaxResets = 1
INVARIANTS
    CompleteIsWhole
    EvidenceIsOneSelection
    VerdictsStand
    VerdictPerTile
CHECK_DEADLOCK FALSE
