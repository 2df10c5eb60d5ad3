CONSTANTS
    Depth = 3
    Indices = {0, 1, 3, 6}
    Values = {"none", "a"}
    Default = "none"
SPECIFICATION Spec
INVARIANTS
    TreesAgree
CHECK_DEADLOCK FALSE
