SPECIFICATION FairSpec
CONSTANTS
    a = a
    b = b
    g1 = g1
    g2 = g2
    Groups = {g1}
    Keys = {a, b}
    Members <- OneGroup
    Envs = {e1, e2}
    None = None
    Inputs = {"stop", "pick"}
    MaxInputs = 4
    MaxReports = 2
    Rebinds <- ComesAndGoes
    SuspectDials = 1
    ProbeConcurrency = 2
    RecoverPassSize = 4
    LinkTicks = 1
    LastPass = 1
    Backoff <- ShortBackoff
INVARIANTS
    ConfirmIsAwaited
PROPERTIES
    ConfirmEnds
