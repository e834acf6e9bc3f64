CONSTANTS
    None = None
    Remover = {r1, r2}
    Attacher = {a1, a2}
    Detacher = {dt}
    MaxWorks = 2
    MaxEvents = 1
SPECIFICATION Spec
SYMMETRY Interchangeable
INVARIANTS ActiveHasItsWorktree OneHolderPerWorktree
PROPERTIES UnforcedDiscardsNoWork AttachedIsKept SweepSparesListedWorkers
CHECK_DEADLOCK FALSE
