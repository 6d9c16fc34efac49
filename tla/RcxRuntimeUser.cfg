SPECIFICATION Spec
CONSTANTS
    Calls = {c1}
    Nodes = {a, b}
    None = None
    Ops = {"apply", "user"}
    MaxVersion = 3
CHECK_DEADLOCK FALSE
INVARIANTS
    LayerArrives
