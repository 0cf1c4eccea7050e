\* Up does not make a worktree again whose directory was deleted.
SPECIFICATION Spec
CONSTANTS
    Terminals = {t1, t2}
    billing = billing
    pricing = pricing
    Worktrees <- MCWorktrees
    BranchOf <- MCBranchOf
    Windows <- MCWindows
    Titles <- MCTitles
    WordsOf <- MCWordsOf
    StartsOf <- MCStartsOf
    Numbers = {}
    Main = Main
    Home = Home
    None = None
    DryRuns = {FALSE}
    Taken = {FALSE, TRUE}
    MaxRuns = 2
    MaxEdits = 1
    MaxFaults = 0
CHECK_DEADLOCK FALSE
INVARIANT
    UpRecreatesMissing
