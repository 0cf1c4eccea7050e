----------------------------- MODULE MCWorkspace -----------------------------
(***************************************************************************)
(* Workspace with two worktrees, a window with a command and one with      *)
(* panes, which the user's window "demos" starts like.                     *)
(***************************************************************************)
EXTENDS Workspace, TLC

CONSTANTS billing, pricing

TerminalSymmetry == Permutations(Terminals)

MCWorktrees == <<billing, pricing>>
MCBranchOf == billing :> "feat/billing" @@ pricing :> "feat/pricer"
MCWindows ==
    <<[name |-> "code", dir |-> Main, run |-> TRUE, panes |-> <<>>],
      [name |-> "demo", dir |-> billing, run |-> FALSE,
       panes |-> <<[dir |-> billing, run |-> TRUE], [dir |-> pricing, run |-> TRUE]>>]>>
\* A window whose name is a number.
NumberedWindows ==
    <<[name |-> "code", dir |-> Main, run |-> FALSE, panes |-> <<>>],
      [name |-> "1", dir |-> billing, run |-> TRUE, panes |-> <<>>]>>
MCTitles == {"demos", "code review"}
MCWordsOf == [n \in {"code", "demo", "demos", "1"} |-> {n}] @@ "code review" :> {"code", "review"}
MCStartsOf == "code" :> {"code review"} @@ "demo" :> {"demos"} @@ "1" :> {}

\* What the theorems about UpDelivers and CommandsLand ask of the workspace.
ASSUME TargetsAssumption == NamesApart /\ FirstCommandsAgree /\ FirstPanesAgree /\ BranchesDiffer
=============================================================================
