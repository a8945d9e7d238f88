CONSTANTS
    r1 = r1  r2 = r2
    Row = {r1, r2}
    None = None
    Pages <- AllPages
    PermissionSets <- AllRoles
    MaxMoves = 3
SYMMETRY RowSymmetry
SPECIFICATION MCSpec
INVARIANTS EveryPageShows
CHECK_DEADLOCK FALSE
