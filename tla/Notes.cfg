SPECIFICATION Spec
CONSTANTS
    h1 = h1
    h2 = h2
    h3 = h3
    n1 = n1
    n2 = n2
    Handlers = {h1, h2, h3}
    Notes = {n1, n2}
    Employees = {e1}
    None = None
    MaxBody = 2
    MaxCrashes = 1
INVARIANTS
    NotesInv
    DamageHasCause
    ListsAreWhole
    RemovedStaysRemoved
SYMMETRY HandlersAndNotes
