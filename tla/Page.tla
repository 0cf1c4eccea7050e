-------------------------------- MODULE Page ---------------------------------
(***************************************************************************)
(* The page the service serves (serve_index.go): a form that writes two    *)
(* documents, one pane to read and edit them in, a terminal block, and a   *)
(* panel with the service's answers.  A browser runs one handler at a      *)
(* time, and an answer arrives in a handler of its own, so a handler is    *)
(* one action; inside it the page's functions run in the order of the      *)
(* code, each from one ui to the next.                                     *)
(***************************************************************************)
EXTENDS Service

CONSTANTS
    Forms,     \* what the reader may have filled in
    Typed,     \* what the reader may type into the pane, by document
    Samples,   \* the specs of the guide, a policy form in each
    MaxInputs  \* bound on what the reader does

VARIABLES
    ui,      \* the form, the documents, the pane and the terminal block
    panel,   \* the panel on the right
    waiting, \* the requests whose answers the page still waits for
    inputs

vars == <<requests, jsonWeights, ui, panel, waiting, inputs>>

Docs == {"spec", "policy", "tiles"}
ReadOnly(d) == d = "tiles"
TilesText == << [head |-> "tile"] >>
-----------------------------------------------------------------------------
(***************************************************************************)
(* What the form writes.  Names, routes and the words of a preference's    *)
(* source are left out: no answer depends on them.                         *)
(***************************************************************************)
Field(name, type) == [name |-> name, type |-> type, pointer |-> FALSE]

\* The store to be picked is left to tilegen.
Undecided == ""

Form ==
    [id : {"scalar", "uuid"},
     fields : SUBSET {Field("Title", "scalar"), Field("Body", "scalar"), Field("Done", "scalar"),
                      Field("CreatedAt", "time"), Field("OwnerID", "uuid")},
     ops : SUBSET {"get", "list", "save", "delete", "count"},
     durable : BOOLEAN, enum : BOOLEAN, events : BOOLEAN, xproc : BOOLEAN,
     store : {Undecided, "memory", "sqlite-sqlc", "postgres-sqlc", "postgres-pgx"},
     firm : {"prefer", "required"}]

ASSUME FormsAssumption == Forms \subseteq Form

BuildSpec(form) ==
    LET entity == {Field("ID", form.id)} \cup form.fields
                  \cup (IF form.enum THEN {Field("Status", "enum")} ELSE {})
        lookups == IF form.enum /\ "list" \in form.ops THEN {"lookup-by-field"} ELSE {}
        store == (IF form.durable THEN {"durable"} ELSE {}) \cup lookups
        bus == IF form.xproc THEN {"cross-process"} ELSE {}
    IN  << SpecForm(IF form.events THEN [store |-> store, bus |-> bus] ELSE [store |-> store],
                    entity) >>

PageWeights == [llm_work |-> 4, maintenance |-> 3, dependency |-> 1, runtime |-> 1]

\* Mutant: a preference without a strength.
BuildPolicyWeak(form) ==
    << PolicyForm(PageWeights, [t \in {form.store} \ {Undecided} |-> "weak"]) >>

BuildPolicy(form) ==
    LET strength == IF form.firm = "required" THEN "required" ELSE "strong"
    IN  << PolicyForm(PageWeights,
                      [t \in {form.store} \ {Undecided} |-> strength]) >>

WholeSpec(doc) == doc["spec"] \o doc["policy"]

\* Each document as the form, the reader or a button may leave it; after a
\* sample the pane's text, of whichever document, is the spec.
PolicyTexts == {BuildPolicy(form) : form \in Forms} \cup Typed["policy"] \cup {<<>>}
SpecTexts ==
    {BuildSpec(form) : form \in Forms} \cup Typed["spec"] \cup Samples \cup PolicyTexts
    \cup {TilesText}
SentTexts == {WholeSpec(doc) : doc \in [spec : SpecTexts, policy : PolicyTexts]}

\* The service takes whatever the page sends.
ASSUME TextsAssumption ==
    /\ \A t \in SpecTexts : t \in Seq({t[i] : i \in DOMAIN t})
    /\ SentTexts \subseteq Texts
-----------------------------------------------------------------------------
(***************************************************************************)
(* The functions of the page.                                              *)
(***************************************************************************)

\* What the pane holds becomes the document shown, unless that is read-only.
Keep(u) == IF ReadOnly(u.cur) THEN u ELSE [u EXCEPT !.doc[u.cur] = u.pane]

PaintF(u) ==
    LET kept == Keep(u)
    IN  [kept EXCEPT !.curl = WholeSpec(kept.doc)]

ShowDoc(u, name) ==
    LET kept == Keep(u)
    IN  PaintF([kept EXCEPT !.cur = name, !.pane = kept.doc[name]])

\* Mutant: the form writes a document it no longer owns.
RefreshOverwrites(u) ==
    LET built == [u EXCEPT !.doc["spec"] = BuildSpec(u.form),
                              !.doc["policy"] = BuildPolicy(u.form)]
    IN  PaintF(IF ReadOnly(u.cur) THEN built ELSE [built EXCEPT !.pane = built.doc[u.cur]])

Refresh(u) ==
    LET built == [u EXCEPT
                     !.doc["spec"] = IF u.edited["spec"] THEN @ ELSE BuildSpec(u.form),
                     !.doc["policy"] = IF u.edited["policy"] THEN @ ELSE BuildPolicy(u.form)]
    IN  PaintF(IF u.edited[u.cur] \/ ReadOnly(u.cur) THEN built
               ELSE [built EXCEPT !.pane = built.doc[u.cur]])
-----------------------------------------------------------------------------
Blank(form) ==
    [form |-> form, cur |-> "spec", pane |-> <<>>, curl |-> <<>>,
     doc |-> [d \in Docs |-> IF d = "tiles" THEN TilesText ELSE <<>>],
     edited |-> [d \in Docs |-> FALSE]]

\* The form comes with "let tilegen decide".
Init ==
    /\ InitService
    /\ \E form \in Forms : form.store = Undecided /\ ui = Refresh(Blank(form))
    /\ panel = [shows |-> "hint"]
    /\ waiting = {}
    /\ inputs = 0

Reader == inputs < MaxInputs /\ inputs' = inputs + 1
Edits == Reader /\ UNCHANGED <<requests, jsonWeights, panel, waiting>>

FillIn == Edits /\ \E form \in Forms : ui' = Refresh([ui EXCEPT !.form = form])

Turn(name) == Edits /\ ui' = ShowDoc(ui, name)

\* The pane's own listener, then the form's, which the event reaches next.
Type(text) ==
    /\ ~ReadOnly(ui.cur)
    /\ Edits
    /\ ui' = Refresh(PaintF([ui EXCEPT !.pane = text, !.edited[ui.cur] = TRUE]))

\* Mutant: nothing is painted.
ClearUnpainted ==
    /\ ~ReadOnly(ui.cur)
    /\ Edits
    /\ ui' = [ui EXCEPT !.pane = <<>>, !.edited[ui.cur] = TRUE]

Clear ==
    /\ ~ReadOnly(ui.cur)
    /\ Edits
    /\ ui' = PaintF([ui EXCEPT !.pane = <<>>, !.edited[ui.cur] = TRUE])

\* The button is hidden unless the document was edited.
Rebuild ==
    /\ ui.edited[ui.cur]
    /\ Edits
    /\ LET u == Refresh([ui EXCEPT !.edited[ui.cur] = FALSE])
       IN  ui' = PaintF([u EXCEPT !.pane = u.doc[u.cur]])
-----------------------------------------------------------------------------
(***************************************************************************)
(* Asking the service: what is sent is read in the click's own handler.    *)
(***************************************************************************)
Ask(kind, u) ==
    /\ \E r \in Requests : Submit(r, kind, WholeSpec(u.doc)) /\ waiting' = waiting \cup {r}
    /\ panel' = [shows |-> "waiting"]

Explain == Reader /\ Ask("explain", ui) /\ UNCHANGED ui
Download == Reader /\ Ask("generate", ui) /\ UNCHANGED ui

\* "Open this in the editor", under a spec of the guide; it asks at once.
Try(sample) ==
    LET opened == ShowDoc([ui EXCEPT !.doc["spec"] = sample, !.doc["policy"] = <<>>,
                                     !.edited["spec"] = TRUE, !.edited["policy"] = TRUE,
                                     !.cur = "spec"], "spec")
    IN  Reader /\ Ask("explain", opened) /\ ui' = opened

\* The answer of request r arrives; render meets a spec without needs with a
\* null coverage and throws, which the handler shows like a failed request.
Shown(r) ==
    LET answer == requests[r].answer
    IN  IF answer.status # "ok" THEN [shows |-> "error", what |-> answer.status]
        ELSE IF requests[r].kind = "generate" THEN [shows |-> "saved"]
        ELSE IF DOMAIN answer.chosen = {} THEN [shows |-> "error", what |-> "TypeError"]
        ELSE [shows |-> "covering", text |-> requests[r].text,
              chosen |-> answer.chosen, possible |-> answer.possible]

Settled(r) ==
    /\ r \in waiting
    /\ waiting' = waiting \ {r}
    /\ UNCHANGED <<jsonWeights, ui, inputs>>

\* Mutant: a refusal is not shown.
ArriveQuietly(r) ==
    /\ Running(r, "answered")
    /\ panel' = IF requests[r].answer.status = "ok" THEN Shown(r) ELSE panel
    /\ requests' = [requests EXCEPT ![r] = Idle]
    /\ Settled(r)

Arrive(r) ==
    /\ Running(r, "answered")
    /\ panel' = Shown(r)
    /\ requests' = [requests EXCEPT ![r] = Idle]
    /\ Settled(r)

\* The connection fails; the handler runs on, and its answer goes nowhere.
Lose(r) ==
    /\ panel' = [shows |-> "error", what |-> "network"]
    /\ UNCHANGED requests
    /\ Settled(r)

Drop(r) ==
    /\ Running(r, "answered")
    /\ r \notin waiting
    /\ requests' = [requests EXCEPT ![r] = Idle]
    /\ UNCHANGED <<jsonWeights, ui, panel, waiting, inputs>>

Server(r) == Serve(r) /\ UNCHANGED <<ui, panel, waiting, inputs>>

Next ==
    \/ FillIn \/ Clear \/ Rebuild \/ Explain \/ Download
    \/ \E name \in Docs : Turn(name)
    \/ \E text \in Typed[ui.cur] : Type(text)
    \/ \E sample \in Samples : Try(sample)
    \/ \E r \in Requests : Server(r) \/ Arrive(r) \/ Lose(r) \/ Drop(r)

Spec == Init /\ [][Next]_vars

\* The service runs every handler, and a browser settles every fetch.
FairSpec ==
    Spec /\ \A r \in Requests : WF_vars(Server(r)) /\ WF_vars(Arrive(r))
-----------------------------------------------------------------------------
(***************************************************************************)
(* What the page promises.                                                 *)
(***************************************************************************)

\* The pane shows the document its tab names, and the terminal block "both
\* documents, in the order tilegen reads them" (serve_index.go:698), whatever
\* the form, the tabs and the buttons did: what is seen is what is sent.
SeenIsSent ==
    /\ ui.pane = ui.doc[ui.cur]
    /\ ui.curl = WholeSpec(ui.doc)

\* "A stray click on a radio button cannot delete your work" (serve_index.go:685):
\* a document edited by hand changes only while it is the one shown, by typing
\* or by a button that says so, or when a sample takes its place.
HandEditsSurvive ==
    [][\A d \in Docs :
          ui.edited[d] /\ ui'.doc[d] # ui.doc[d] =>
              \/ ui.cur = d /\ (Rebuild \/ Clear \/ \E text \in Typed[d] : Type(text))
              \/ \E sample \in Samples : Try(sample)]_vars

\* "You picked a store, so your pick wins wherever it is legal"
\* (serve_index.go:641): of the documents as they stand, with the policy still
\* the form's, the panel shows the store picked in the form or one that the
\* picked one was not legal beside.
PickWins ==
    (/\ panel.shows = "covering"
     /\ panel.text = WholeSpec(ui.doc)
     /\ ~ui.edited["policy"]
     /\ ui.form.store # Undecided
     /\ "store" \in DOMAIN panel.chosen) =>
         \/ panel.chosen["store"] = ui.form.store
         \/ ui.form.store \notin panel.possible["store"]

\* A click is answered: the panel does not stay at "working" or "generating".
PanelSettles == (panel.shows = "waiting") ~> (panel.shows # "waiting")
-----------------------------------------------------------------------------
(***************************************************************************)
(* What the page says and does not do: violated.                           *)
(***************************************************************************)

\* "Open this in the editor" (serve_docs.go:75).
SampleOpens ==
    [][\A sample \in Samples : Try(sample) => ui'.doc["spec"] = sample]_vars

\* "tilegen will refuse this pair and say so" (serve_index.go:658).
ClashIsRefused ==
    (/\ panel.shows = "covering"
     /\ panel.text = WholeSpec(ui.doc)
     /\ ~ui.edited["policy"] /\ ~ui.edited["spec"]) =>
         ~(ui.form.store = "memory" /\ ui.form.durable)

\* "This spec has no stores yet, so there is nothing to decide"
\* (serve_index.go:822) is what a spec without needs is answered.
NoStoresIsSaid == panel.shows = "error" => panel.what # "TypeError"

\* "The answer on the right changes as you do" (serve_index.go:632).
AnswerFollows ==
    panel.shows = "covering" => panel.text = WholeSpec(ui.doc)
=============================================================================
