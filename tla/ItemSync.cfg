SPECIFICATION Spec
CONSTANTS
    N = 2
    Levels = {1, 2}
    Items = {ring, staff}
    Home = 1
    MaxDeeds = 4
INVARIANTS
    TypeOK
    OneHolder
    GrantFindsItem
    Converged
SYMMETRY ItemSymmetry
CHECK_DEADLOCK FALSE
