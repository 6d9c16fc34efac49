SPECIFICATION Spec
CONSTANTS
    a = a
    b = b
    g1 = g1
    g2 = g2
    Groups = {g1}
    Keys = {a, b}
    Members <- OneGroup
    Envs = {e1}
    None = None
    Inputs = {"change", "pin", "here", "auto", "manual", "check", "pick", "test", "stale", "improve", "resume", "doze"}
    MaxInputs = 4
    MaxReports = 1
    Rebinds <- StaysBound
    SuspectDials = 1
    ProbeConcurrency = 1
    RecoverPassSize = 4
    LinkTicks = 1
    LastPass = 1
    Backoff <- ShortBackoff
SYMMETRY Nodes2
INVARIANTS
    PlannerIsBounded
