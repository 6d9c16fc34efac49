SPECIFICATION Spec
CONSTANTS
    Calls = {c1, c2}
    Nodes = {a, b}
    None = None
    Ops = {"late", "apply", "user", "pick", "provider", "move", "down"}
    MaxVersion = 3
SYMMETRY Alike
CHECK_DEADLOCK FALSE
INVARIANTS
    TopologyIsCurrent
    LayerTravels
    
