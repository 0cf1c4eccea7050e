\* Three runs in two terminals, an edit and a failure.  All runs may end.
SPECIFICATION Spec
CONSTANTS
    Terminals = {t1, t2}
    billing = billing
    pricing = pricing
    Worktrees <- MCWorktrees
    BranchOf <- MCBranchOf
    Windows <- MCWindows
    Titles <- MCTitles
    WordsOf <- MCWordsOf
    StartsOf <- MCStartsOf
    Numbers = {}
    Main = Main
    Home = Home
    None = None
    DryRuns = {FALSE}
    Taken = {FALSE}
    MaxRuns = 3
    MaxEdits = 1
    MaxFaults = 1
CHECK_DEADLOCK FALSE
SYMMETRY TerminalSymmetry
INVARIANTS
    TypeOK
    UpDelivers
    DownDelivers
    CommandsLand
    EndsAsSaid
    PublishesTheScaffold
PROPERTIES
    WorkIsSafe
    LeftForReview
