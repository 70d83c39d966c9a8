SPECIFICATION Spec
CONSTANTS
    Employees = {e1, e2}
    Handlers = {h1, h2}
    None = None
    Requests = {"list", "put"}
    Bodies <- Phone
    OutsideAttrs = {}
    MaxMods = 1
    MaxPuts = 2
    MaxCrashes = 1
SYMMETRY Symmetry
INVARIANTS
    ListInv
PROPERTY
    ImplementsService
