SPECIFICATION SelectionsSpec
CONSTANTS
    Rows = 2
    Cols = 4
    NoCell = NoCell
    Candidate <- SomeCandidates
    MaxCandidates = 3
    MaxTiles = 2
    min_verified_inliers_per_cell = 1
    min_trusted_tiles_per_cell = 1
    connectivity = 8
    min_component_cells = 1
    min_component_correspondences = 2
    min_selected_region_cells = 2
    max_selected_correspondences = 2
    Mapping <- SomeMappings
    ResidualOf <- Residuals
    CellOf <- Cells
    MaxCorrespondences = 6
    inlier_threshold_px = 3
    min_candidates = 2
    min_inliers = 2
    min_inlier_percent = 50
    min_trusted = 2
    max_selected = 4
    min_per_occupied_cell = 1
INVARIANTS
    SelectedInRegion
    CapKeepsTheFirst
    LabelsAreComponents
    SelectsBestRoundTheCells
CHECK_DEADLOCK FALSE
