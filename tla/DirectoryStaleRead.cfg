SPECIFICATION Spec
CONSTANTS
    Employees = {e1}
    Handlers = {h1, h2}
    None = None
    Requests = {"get", "put"}
    Bodies <- Phone
    OutsideAttrs = {}
    MaxMods = 1
    MaxPuts = 1
    MaxCrashes = 0
SYMMETRY Symmetry
INVARIANT
    GetServesCommitted
