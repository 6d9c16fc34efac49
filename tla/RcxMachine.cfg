SPECIFICATION Spec
CONSTANTS
    a = a
    b = b
    g1 = g1
    g2 = g2
    Groups = {g1, g2}
    Keys = {a, b}
    Members <- SharedNodes
    Envs = {e1}
    None = None
    Inputs = {"refuse"}
    MaxInputs = 2
    MaxReports = 2
    Rebinds <- BothBound
    SuspectDials = 1
    ProbeConcurrency = 2
    RecoverPassSize = 4
    LinkTicks = 1
    LastPass = 1
    Backoff <- ShortBackoff
SYMMETRY All2

    
PROPERTIES
    NothingThroughCondemnsNobody
