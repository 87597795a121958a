\* The scheduler checks its own build with its smoke module.
SPECIFICATION Spec
CONSTANTS
    Kind = "scheduler"
    MaxPages = 1
    Fuel = 2
    SmokeTest = TRUE
    PageBound = 2
    StatePages = 1
    None = None
INVARIANTS
    HealthyCheckRan
