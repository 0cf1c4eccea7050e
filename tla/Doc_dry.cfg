\* up -dry-run splits a window of the user.
SPECIFICATION Spec
CONSTANTS
    Terminals = {t1, t2}
    billing = billing
    pricing = pricing
    Worktrees <- MCWorktrees
    BranchOf <- MCBranchOf
    Windows <- MCWindows
    Titles <- MCTitles
    WordsOf <- MCWordsOf
    StartsOf <- MCStartsOf
    Numbers = {}
    Main = Main
    Home = Home
    None = None
    DryRuns = {TRUE}
    Taken = {FALSE, TRUE}
    MaxRuns = 1
    MaxEdits = 1
    MaxFaults = 0
CHECK_DEADLOCK FALSE
PROPERTY
    DryRunChangesNothing
