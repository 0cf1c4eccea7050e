\* The command of a window named 1 is typed into the window of that index.
SPECIFICATION Spec
CONSTANTS
    Terminals = {t1, t2}
    billing = billing
    pricing = pricing
    Worktrees <- MCWorktrees
    BranchOf <- MCBranchOf
    Windows <- NumberedWindows
    Titles <- MCTitles
    WordsOf <- MCWordsOf
    StartsOf <- MCStartsOf
    Numbers = {"1"}
    Main = Main
    Home = Home
    None = None
    DryRuns = {FALSE}
    Taken = {FALSE}
    MaxRuns = 1
    MaxEdits = 0
    MaxFaults = 0
CHECK_DEADLOCK FALSE
INVARIANT
    CommandsLand
