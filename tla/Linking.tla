------------------------------- MODULE Linking -------------------------------
(***************************************************************************)
(* merge.go: one (project ...) out of the forms of every file of a spec.   *)
(*                                                                         *)
(* A form is a record with a head.  (package ...) has a name and items,    *)
(* (require ...) has entries [alias, path], (project ...) has named (FALSE *)
(* for the bare form with no name), the Go version it asks for and items,  *)
(* which are forms.  Forms of another head have only that.  Positions and  *)
(* the text of messages are left out; an error is a tuple that says what   *)
(* is wrong and with what.                                                 *)
(***************************************************************************)
EXTENDS Naturals, Sequences, FiniteSets, SequencesExt

Headed(forms, h) == SelectSeq(forms, LAMBDA f : f.head = h)

\* ReadSpec: the files of the directory in name order, their forms in a row.
ReadSpec(files) == FlattenSeq(files)

Beside == {"config", "workspace", "policy"}
Contributions == {"package", "require", "repo"}

HasProject(forms) == Headed(forms, "project") # <<>>
Header(forms) == Head(Headed(forms, "project"))

\* Mutant: what stands before the header is not collected.
ProjectItemsAfter(forms) ==
    LET at == CHOOSE i \in DOMAIN forms : forms[i].head = "project"
    IN  Header(forms).items \o SelectSeq(SubSeq(forms, at, Len(forms)), LAMBDA f : f.head \in Contributions)

\* The first header's items come first, wherever the header stands.
ProjectItems(forms) ==
    Header(forms).items \o SelectSeq(forms, LAMBDA f : f.head \in Contributions)

PartsOf(items, name) == SelectSeq(Headed(items, "package"), LAMBDA f : f.name = name)

PackageNames(items) == {f.name : f \in Range(Headed(items, "package"))}

Entries(items) ==
    LET requires == Headed(items, "require")
    IN  FlattenSeq([i \in DOMAIN requires |-> requires[i].entries])

\* The entry of an alias is its first; a later one must say the same.
FirstEntries(items) ==
    LET entries == Entries(items)
    IN  FoldLeft(LAMBDA acc, e : IF \E f \in Range(acc) : f.alias = e.alias THEN acc ELSE Append(acc, e),
                 <<>>, entries)

\* Where a package first stands among the items.
FirstAt(items, name) ==
    CHOOSE i \in DOMAIN items : /\ items[i].head = "package" /\ items[i].name = name
                               /\ \A j \in 1..(i - 1) : items[j].head # "package" \/ items[j].name # name

\* What Merge keeps: packages of one name are one package, items in file order.
Linked(forms) ==
    LET items == ProjectItems(forms)
    IN  [go |-> Header(forms).go,
         packages |-> [name \in PackageNames(items) |->
             LET parts == PartsOf(items, name)
             IN  [name |-> name, at |-> FirstAt(items, name),
                  items |-> FlattenSeq([j \in DOMAIN parts |-> parts[j].items])]],
         requires |-> FirstEntries(items),
         others |-> {f.head : f \in Range(items)} \ Contributions]

DocTwice(items, name) ==
    LET documented == SelectSeq(PartsOf(items, name), LAMBDA f : Headed(f.items, "doc") # <<>>)
    IN  Len(documented) > 1

ItemErrors(items) ==
    UNION {IF Len(Headed(items, "repo")) > 1 THEN {<<"second", "repo">>} ELSE {},
           {<<"second doc", name>> : name \in {n \in PackageNames(items) : DocTwice(items, n)}},
           {<<"conflict", e.alias>> : e \in {e \in Range(Entries(items)) :
               \E f \in Range(FirstEntries(items)) : f.alias = e.alias /\ f # e}}}

FormErrors(forms) ==
    {<<"second", h>> : h \in {h \in Beside \union {"project"} : Len(Headed(forms, h)) > 1}}
        \union (IF HasProject(forms) THEN ItemErrors(ProjectItems(forms)) ELSE {})

Strangers(forms) == {f.head : f \in Range(forms)} \ (Beside \union Contributions \union {"project"})

\* Strange forms are reported when nothing else is wrong.  A spec without a
\* project links too, for the commands that need only the workspace; a compile
\* then says there is nothing to generate.
LinkErrors(forms) ==
    IF FormErrors(forms) # {} THEN FormErrors(forms)
    ELSE IF Strangers(forms) # {} THEN {<<"unknown form", h>> : h \in Strangers(forms)}
    ELSE IF HasProject(forms) THEN {} ELSE {<<"no project">>}

\* merge.go:80 slices the header's list from 2, which (project) alone is too short for.
LinkPanics(forms) == HasProject(forms) /\ ~Header(forms).named
=============================================================================
