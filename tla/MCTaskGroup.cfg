CONSTANTS
    task_grid_size = 8
    cpu_grid_size = 2
    per_core_grid_size = 2
    tg_per_job = 2
    Lists <- MCLists
    Xors <- MCXors
    MaxCrash = 2
SPECIFICATION FairSpec
INVARIANTS CollectivesMatch FilesExact
PROPERTIES CompleteIsKept JobsEnd
