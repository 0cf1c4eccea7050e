\* A local repository is never published, although -git says how.
SPECIFICATION RepoSpec
CONSTANTS
    None = None
    DryRuns = {FALSE}
    Taken = {FALSE, TRUE}
    MaxRuns = 2
    MaxEdits = 0
    MaxFaults = 0
CHECK_DEADLOCK FALSE
INVARIANT
    GitGetsThere
