SPECIFICATION Spec
CONSTANTS
    Networks = {e1, e2, e3}
    Keys = {a, b}
    MaxEnvironments = 2
INVARIANTS
    NotesStick
