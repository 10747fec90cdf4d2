CONSTANTS
    Writes = {w1, w2}
    Loads = {l1}
    Transport = "auto"
    SidecarKnown = TRUE
    ShadowTargets = {"process"}
    Primary = "primary"
    None = none
    MaxLost = 1
    MaxShadows = 1
SPECIFICATION Spec
CHECK_DEADLOCK FALSE
INVARIANTS AnsweredWritesWereExecuted RepeatsHaveACause OldWritesReturnLate
    StaleTypesWereBeingRead SidecarOutputsAreOwn

SYMMETRY Symmetry
