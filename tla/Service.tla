------------------------------- MODULE Service -------------------------------
(***************************************************************************)
(* tilegen serve (serve.go): a spec in, an answer out.  Requests run side  *)
(* by side and share one thing, the package variable jsonWeights (json.go).*)
(* Nothing is written and no command is run, so nothing else outlives a    *)
(* request.  The deadline withLimits sets is read by no handler.           *)
(*                                                                         *)
(* A text is the sequence of its forms; the spec is one form, [head,       *)
(* reqs, entity], with a need for each capability in DOMAIN reqs.  A text  *)
(* that does not parse, or is too large, has a form of another head.       *)
(***************************************************************************)
EXTENDS Registry, Sequences

CONSTANTS
    Texts,     \* what may be sent
    Requests,  \* what identifies a request while it runs
    Idle       \* no request

VARIABLES requests, jsonWeights

Kinds == {"explain", "generate"}
Needs(form) == DOMAIN form.reqs

SpecForm(reqs, entity) ==
    [head |-> "project", reqs |-> reqs, entity |-> entity]
PolicyForm(weights, prefer) ==
    [head |-> "policy", weights |-> weights, prefer |-> prefer, avoid |-> {}, margin |-> 0]

Has(text, head) == \E i \in DOMAIN text : text[i].head = head
FormOf(text, head) == text[CHOOSE i \in DOMAIN text : text[i].head = head]
-----------------------------------------------------------------------------
(***************************************************************************)
(* readSpec, compileRequest and checkSpecSize: the status of a request and *)
(* what was compiled of it.                                                *)
(***************************************************************************)
Refused(status) == [status |-> status]

\* Merge takes one project and at most one policy; other heads are errors.
OneSpec(text) ==
    /\ Has(text, "project")
    /\ \A i, j \in DOMAIN text : text[i].head = text[j].head => i = j
    /\ \A i \in DOMAIN text : text[i].head \in {"project", "policy"}

PolicyOf(text) ==
    IF Has(text, "policy") THEN ParsePolicy(FormOf(text, "policy")) ELSE DefaultPolicy

ContextOf(text) ==
    LET form == FormOf(text, "project")
    IN  Context(form.reqs, form.entity, PolicyOf(text))

Compile(text) ==
    IF text = <<>> THEN Refused("bad request")
    ELSE IF ~OneSpec(text) \/ UnknownTiles(PolicyOf(text)) # {} THEN Refused("unprocessable")
    ELSE LET form == FormOf(text, "project")
             c == ContextOf(text)
             legal == [k \in Needs(form) |-> Legal(c, k)]
         IN  IF \E k \in Needs(form) : legal[k] = {} THEN Refused("unprocessable")
             ELSE [status |-> "ok",
                   weights |-> PolicyOf(text).weights,
                   chosen |-> [k \in Needs(form) |-> PickOffer(c, k)],
                   possible |-> legal]
\* What a text is answered, whenever and beside whatever else it is asked.
Answers == [text \in Texts |-> Compile(text)]
-----------------------------------------------------------------------------
InitService ==
    /\ requests = [r \in Requests |-> Idle]
    /\ jsonWeights = Idle

Running(r, pc) == requests[r] # Idle /\ requests[r].pc = pc

\* The body arrives at the handler.
Submit(r, kind, text) ==
    /\ requests[r] = Idle
    /\ requests' = [requests EXCEPT ![r] = [pc |-> "handler", kind |-> kind, text |-> text]]
    /\ UNCHANGED jsonWeights

\* handleSpec or handleGenerate, up to its answer or its error.
Handle(r) ==
    /\ Running(r, "handler")
    /\ LET compiled == Answers[requests[r].text]
           explains == requests[r].kind = "explain" /\ compiled.status = "ok"
       IN  requests' = [requests EXCEPT ![r] =
               [pc |-> IF explains THEN "explain" ELSE "answered",
                kind |-> @.kind, text |-> @.text, answer |-> compiled,
                unread |-> IF explains THEN DOMAIN compiled.chosen ELSE {},
                shown |-> {}]]
    /\ UNCHANGED jsonWeights

\* explainJSON sets the variable once ...
SetWeights(r) ==
    /\ Running(r, "explain")
    /\ jsonWeights' = requests[r].answer.weights
    /\ requests' = [requests EXCEPT ![r].pc =
                       IF requests[r].unread = {} THEN "answered" ELSE "coverage"]

\* ... and coverageJSON reads it for the terms of every candidate.  The reads
\* for one need are one step.
ReadWeights(r) ==
    /\ Running(r, "coverage")
    /\ LET n == CHOOSE k \in requests[r].unread : TRUE
       IN  requests' = [requests EXCEPT
               ![r].unread = @ \ {n},
               ![r].shown = @ \cup {jsonWeights},
               ![r].pc = IF requests[r].unread = {n} THEN "answered" ELSE @]
    /\ UNCHANGED jsonWeights

Serve(r) == Handle(r) \/ SetWeights(r) \/ ReadWeights(r)
-----------------------------------------------------------------------------
(***************************************************************************)
(* What a comment says and the code does not do: violated.                 *)
(***************************************************************************)

\* "The policy is the same for every need in a run" (json.go:260): every term
\* of an answer is shown with the weight its score was computed with.
WeightsAreOwn ==
    \A r \in Requests :
        requests[r] # Idle /\ requests[r].pc = "answered" =>
            \A w \in requests[r].shown : w = requests[r].answer.weights
=============================================================================
