----------------------------- MODULE Page_proofs -----------------------------
(***************************************************************************)
(* For every form, every text typed or opened and any number of requests:  *)
(* the page sends what it shows, and keeps what was typed.  Documents are  *)
(* opaque here; only where they are stored matters.                        *)
(***************************************************************************)
EXTENDS Page, TLAPS

\* What the form and the reader write: what the service may be sent, and the
\* policy, until it is edited, the form's.
Written(u) ==
    /\ u.form \in Forms
    /\ u.doc["spec"] \in SpecTexts
    /\ u.doc["policy"] \in PolicyTexts
    /\ u.doc["tiles"] = TilesText
    /\ ~u.edited["policy"] => u.doc["policy"] = BuildPolicy(u.form)

\* Fields and documents a ui has, whatever they hold.
Shaped(u) ==
    /\ u = [form |-> u.form, cur |-> u.cur, pane |-> u.pane, curl |-> u.curl,
            doc |-> u.doc, edited |-> u.edited]
    /\ u.cur \in Docs
    /\ u.doc = [d \in Docs |-> u.doc[d]]
    /\ u.edited \in [Docs -> BOOLEAN]
    /\ ~u.edited["tiles"]

\* The pane may run ahead of its document between two functions of a handler,
\* the text of a read-only one excepted.
Open(u) == Shaped(u) /\ (ReadOnly(u.cur) => u.pane = u.doc[u.cur])

Consistent(u) ==
    /\ Shaped(u)
    /\ u.pane = u.doc[u.cur]
    /\ u.curl = WholeSpec(u.doc)

\* The pane becomes the document shown.
LEMMA KeepStores ==
    ASSUME NEW u, Open(u)
    PROVE  /\ Shaped(Keep(u))
           /\ Keep(u).cur = u.cur /\ Keep(u).edited = u.edited
           /\ Keep(u).form = u.form /\ Keep(u).pane = u.pane
           /\ \A d \in Docs : Keep(u).doc[d] = IF d = u.cur THEN u.pane ELSE u.doc[d]
<1>1. CASE ReadOnly(u.cur)
  BY <1>1 DEF Keep, Open, Shaped
<1>2. CASE ~ReadOnly(u.cur)
  BY <1>2 DEF Keep, Open, Shaped
<1> QED BY <1>1, <1>2

\* paintF stores the pane and repaints the terminal block.
LEMMA PaintFSettles ==
    ASSUME NEW u, Open(u)
    PROVE  /\ Consistent(PaintF(u))
           /\ PaintF(u).cur = u.cur
           /\ PaintF(u).edited = u.edited
           /\ PaintF(u).form = u.form
           /\ PaintF(u).pane = u.pane
           /\ \A d \in Docs : PaintF(u).doc[d] = IF d = u.cur THEN u.pane ELSE u.doc[d]
<1> DEFINE k == Keep(u)
<1>1. /\ Shaped(k)
      /\ k.cur = u.cur /\ k.edited = u.edited /\ k.form = u.form /\ k.pane = u.pane
      /\ \A d \in Docs : k.doc[d] = IF d = u.cur THEN u.pane ELSE u.doc[d]
  BY KeepStores
<1> HIDE DEF k
<1>2. PaintF(u) = [k EXCEPT !.curl = WholeSpec(k.doc)]
  BY DEF PaintF, k
<1>3. /\ PaintF(u).curl = WholeSpec(k.doc) /\ PaintF(u).doc = k.doc
      /\ PaintF(u).cur = k.cur /\ PaintF(u).edited = k.edited
      /\ PaintF(u).form = k.form /\ PaintF(u).pane = k.pane
      /\ Shaped(PaintF(u))
  BY <1>1, <1>2 DEF Shaped
<1> QED BY <1>1, <1>3 DEF Consistent, Shaped

\* Another tab: what the pane held is stored, and the documents stay as they are.
LEMMA ShowDocSettles ==
    ASSUME NEW u, NEW name \in Docs, Open(u)
    PROVE  /\ Consistent(ShowDoc(u, name))
           /\ ShowDoc(u, name).edited = u.edited
           /\ ShowDoc(u, name).form = u.form
           /\ \A d \in Docs : ShowDoc(u, name).doc[d] = IF d = u.cur THEN u.pane ELSE u.doc[d]
<1> DEFINE k == Keep(u)
           s == [k EXCEPT !.cur = name, !.pane = k.doc[name]]
<1>1. /\ Shaped(k) /\ k.edited = u.edited /\ k.form = u.form
      /\ \A d \in Docs : k.doc[d] = IF d = u.cur THEN u.pane ELSE u.doc[d]
  BY KeepStores
<1>2. /\ Open(s) /\ s.edited = u.edited /\ s.form = u.form /\ s.cur = name
      /\ s.pane = s.doc[name]
      /\ \A d \in Docs : s.doc[d] = IF d = u.cur THEN u.pane ELSE u.doc[d]
  <2> HIDE DEF k
  <2>1. /\ s.cur = name /\ s.pane = k.doc[name] /\ s.doc = k.doc
        /\ s.edited = k.edited /\ s.form = k.form /\ s.curl = k.curl
    BY <1>1 DEF Shaped
  <2>2. s = [form |-> k.form, cur |-> name, pane |-> k.doc[name], curl |-> k.curl,
             doc |-> k.doc, edited |-> k.edited]
    <3> DEFINE t == [form |-> k.form, cur |-> k.cur, pane |-> k.pane, curl |-> k.curl,
                     doc |-> k.doc, edited |-> k.edited]
               v == k.doc[name]
    <3>1. k = t
      BY <1>1 DEF Shaped
    <3>2. s = [k EXCEPT !.cur = name, !.pane = v]
      OBVIOUS
    <3>3. s = [form |-> k.form, cur |-> name, pane |-> v, curl |-> k.curl,
               doc |-> k.doc, edited |-> k.edited]
      <4> HIDE DEF s, v
      <4> QED BY ONLY <3>1, <3>2
    <3> QED BY <3>3
  <2> HIDE DEF s
  <2> QED BY <1>1, <2>1, <2>2 DEF Open, Shaped
<1>3. ShowDoc(u, name) = PaintF(s)
  BY DEF ShowDoc
<1> HIDE DEF s
<1> QED BY <1>2, <1>3, PaintFSettles

\* The documents the form owns, written anew.
Rewritten(u, doc) ==
    /\ ~u.edited["spec"] => doc["spec"] = BuildSpec(u.form)
    /\ ~u.edited["policy"] => doc["policy"] = BuildPolicy(u.form)
    /\ doc["tiles"] = u.doc["tiles"]

\* The form's turn: what it owns it writes, the rest it leaves alone.
LEMMA RefreshSettles ==
    ASSUME NEW u, Open(u), u.edited[u.cur] => u.pane = u.doc[u.cur]
    PROVE  /\ Consistent(Refresh(u))
           /\ Refresh(u).edited = u.edited
           /\ Refresh(u).cur = u.cur
           /\ Refresh(u).form = u.form
           /\ \A d \in Docs : u.edited[d] => Refresh(u).doc[d] = u.doc[d]
           /\ Rewritten(u, Refresh(u).doc)
<1> DEFINE b == [u EXCEPT
                     !.doc["spec"] = IF u.edited["spec"] THEN @ ELSE BuildSpec(u.form),
                     !.doc["policy"] = IF u.edited["policy"] THEN @ ELSE BuildPolicy(u.form)]
           s == IF u.edited[u.cur] \/ ReadOnly(u.cur) THEN b
                ELSE [b EXCEPT !.pane = b.doc[u.cur]]
<1>1. /\ Shaped(b) /\ b.edited = u.edited /\ b.cur = u.cur /\ b.pane = u.pane
      /\ b.form = u.form /\ Rewritten(u, b.doc)
      /\ \A d \in Docs : u.edited[d] => b.doc[d] = u.doc[d]
  <2> DEFINE x == IF u.edited["spec"] THEN u.doc["spec"] ELSE BuildSpec(u.form)
             y == IF u.edited["policy"] THEN u.doc["policy"] ELSE BuildPolicy(u.form)
             new == [u.doc EXCEPT !["spec"] = x, !["policy"] = y]
  <2>1. b = [form |-> u.form, cur |-> u.cur, pane |-> u.pane, curl |-> u.curl,
             doc |-> new, edited |-> u.edited]
    <3> DEFINE t == [form |-> u.form, cur |-> u.cur, pane |-> u.pane, curl |-> u.curl,
                     doc |-> u.doc, edited |-> u.edited]
    <3>1. u = t
      BY DEF Open, Shaped
    <3>2. b = [u EXCEPT !.doc = new]
      OBVIOUS
    <3> HIDE DEF b, new
    <3> QED BY ONLY <3>1, <3>2
  <2>2. /\ new = [d \in Docs |-> new[d]]
        /\ new["spec"] = x /\ new["policy"] = y /\ new["tiles"] = u.doc["tiles"]
    <3> HIDE DEF x, y
    <3> QED BY DEF Open, Shaped, Docs
  <2>3. /\ \A d \in Docs : u.edited[d] => new[d] = u.doc[d]
        /\ Rewritten(u, new)
    <3> HIDE DEF new
    <3> QED BY <2>2 DEF Docs, Rewritten
  <2> HIDE DEF new, b
  <2> QED BY <2>1, <2>2, <2>3 DEF Open, Shaped
<1>2. /\ Open(s) /\ s.edited = u.edited /\ s.cur = u.cur
      /\ s.form = u.form /\ s.doc = b.doc
      /\ \A d \in Docs : u.edited[d] => s.doc[d] = u.doc[d]
      /\ s.pane = s.doc[s.cur]
  <2> HIDE DEF b
  <2>1. CASE u.edited[u.cur] \/ ReadOnly(u.cur)
    BY <1>1, <2>1 DEF Open, Shaped, ReadOnly, Rewritten
  <2>2. CASE ~(u.edited[u.cur] \/ ReadOnly(u.cur))
    BY <1>1, <2>2 DEF Open, Shaped
  <2> QED BY <2>1, <2>2
<1>3. Refresh(u) = PaintF(s)
  BY DEF Refresh
<1>4. u.cur \in Docs
  BY DEF Open, Shaped
<1> HIDE DEF s, b
<1>5. \A d \in Docs : Refresh(u).doc[d] = b.doc[d]
  BY <1>2, <1>3, PaintFSettles
<1>6. Rewritten(u, Refresh(u).doc)
  BY <1>1, <1>5 DEF Rewritten, Docs
<1> QED BY <1>2, <1>3, <1>4, <1>6, PaintFSettles
-----------------------------------------------------------------------------
LEMMA WhatIsWritten ==
    /\ \A form \in Forms : BuildSpec(form) \in SpecTexts /\ BuildPolicy(form) \in PolicyTexts
    /\ Typed["spec"] \subseteq SpecTexts /\ Typed["policy"] \subseteq PolicyTexts
    /\ PolicyTexts \subseteq SpecTexts /\ <<>> \in PolicyTexts /\ TilesText \in SpecTexts
BY DEF SpecTexts, PolicyTexts

LEMMA FormWrites ==
    ASSUME NEW u, Open(u), u.edited[u.cur] => u.pane = u.doc[u.cur], u.form \in Forms,
           u.edited["spec"] => u.doc["spec"] \in SpecTexts,
           u.edited["policy"] => u.doc["policy"] \in PolicyTexts,
           u.doc["tiles"] = TilesText
    PROVE  Written(Refresh(u))
<1>1. /\ Refresh(u).edited = u.edited /\ Refresh(u).form = u.form
      /\ \A d \in Docs : u.edited[d] => Refresh(u).doc[d] = u.doc[d]
      /\ Rewritten(u, Refresh(u).doc)
  BY RefreshSettles
<1> QED BY <1>1, WhatIsWritten DEF Written, Rewritten, Docs

\* A document marked, and the pane changed: nothing else is.
LEMMA MarkedIsOpen ==
    ASSUME NEW u, Consistent(u), ~ReadOnly(u.cur), NEW text, NEW mark \in BOOLEAN,
           NEW v, v = [u EXCEPT !.pane = text, !.edited[u.cur] = mark]
    PROVE  /\ Open(v) /\ v.form = u.form /\ v.doc = u.doc /\ v.cur = u.cur /\ v.pane = text
           /\ v.edited[u.cur] = mark
           /\ \A d \in Docs : d # u.cur => v.edited[d] = u.edited[d]
<1> DEFINE t == [form |-> u.form, cur |-> u.cur, pane |-> u.pane, curl |-> u.curl,
                 doc |-> u.doc, edited |-> u.edited]
           e == [u.edited EXCEPT ![u.cur] = mark]
<1>1. u = t
  BY DEF Consistent, Shaped
<1>2. v = [u EXCEPT !.pane = text, !.edited = e]
  OBVIOUS
<1>3. /\ e \in [Docs -> BOOLEAN] /\ ~e["tiles"] /\ e[u.cur] = mark
      /\ \A d \in Docs : d # u.cur => e[d] = u.edited[d]
  BY DEF Consistent, Shaped, ReadOnly, Docs
<1>4. v = [form |-> u.form, cur |-> u.cur, pane |-> text, curl |-> u.curl,
           doc |-> u.doc, edited |-> e]
  <2> HIDE DEF e
  <2> QED BY ONLY <1>1, <1>2
<1>5. /\ u.cur \in Docs /\ ~ReadOnly(u.cur)
      /\ u.doc = [d \in Docs |-> u.doc[d]]
  BY DEF Consistent, Shaped
<1> HIDE DEF e
<1> QED BY ONLY <1>3, <1>4, <1>5 DEF Open, Shaped

\* Every handler leaves the page consistent, and none but those named touches a
\* document edited by hand.
Kept == \A d \in Docs : ui.edited[d] => ui'.doc[d] = ui.doc[d]

LEMMA HandlerSettles ==
    ASSUME Consistent(ui), Written(ui), Next
    PROVE  /\ Consistent(ui') /\ Written(ui')
           /\ \A d \in Docs :
                 ui.edited[d] /\ ui'.doc[d] # ui.doc[d] =>
                     \/ ui.cur = d /\ (Rebuild \/ Clear \/ \E text \in Typed[d] : Type(text))
                     \/ \E sample \in Samples : Try(sample)
<1> DEFINE Goal ==
        \A d \in Docs :
           ui.edited[d] /\ ui'.doc[d] # ui.doc[d] =>
               \/ ui.cur = d /\ (Rebuild \/ Clear \/ \E text \in Typed[d] : Type(text))
               \/ \E sample \in Samples : Try(sample)
<1> SUFFICES Consistent(ui') /\ Written(ui') /\ Goal
  OBVIOUS
<1>1. CASE FillIn
  <2>1. PICK form \in Forms : ui' = Refresh([ui EXCEPT !.form = form])
    BY <1>1 DEF FillIn
  <2> DEFINE u == [ui EXCEPT !.form = form]
  <2>2. /\ Open(u) /\ u.edited = ui.edited /\ u.cur = ui.cur
        /\ u.pane = ui.pane /\ u.doc = ui.doc /\ u.form = form
    BY DEF Consistent, Open, Shaped
  <2>3. ui' = Refresh(u) /\ u.pane = u.doc[u.cur]
    BY <2>1, <2>2 DEF Consistent
  <2> HIDE DEF u
  <2>4. Consistent(ui') /\ Kept
    BY <2>2, <2>3, RefreshSettles DEF Kept
  <2>5. Written(ui')
    BY <2>2, <2>3, FormWrites DEF Written
  <2> QED BY <2>4, <2>5 DEF Kept
<1>2. CASE Clear
  <2> DEFINE u == [ui EXCEPT !.pane = <<>>, !.edited[ui.cur] = TRUE]
  <2>1. /\ Open(u) /\ u.form = ui.form /\ u.doc = ui.doc /\ u.cur = ui.cur
        /\ u.pane = <<>> /\ u.edited[ui.cur]
        /\ \A d \in Docs : d # ui.cur => u.edited[d] = ui.edited[d]
    <3>1. \A text : LET w == [ui EXCEPT !.pane = text, !.edited[ui.cur] = TRUE]
                    IN  /\ Open(w) /\ w.form = ui.form /\ w.doc = ui.doc /\ w.cur = ui.cur
                        /\ w.pane = text /\ w.edited[ui.cur]
                        /\ \A d \in Docs : d # ui.cur => w.edited[d] = ui.edited[d]
      BY <1>2, MarkedIsOpen DEF Clear, Consistent, Shaped
    <3> QED BY <3>1
  <2>2. ui' = PaintF(u)
    BY <1>2 DEF Clear
  <2> HIDE DEF u
  <2>3. Consistent(ui') /\ \A d \in Docs : d # ui.cur => ui'.doc[d] = ui.doc[d]
    BY <2>1, <2>2, PaintFSettles
  <2>4. /\ ui'.form = ui.form /\ ui'.edited = u.edited
        /\ \A d \in Docs : ui'.doc[d] = IF d = ui.cur THEN <<>> ELSE ui.doc[d]
    BY <2>1, <2>2, PaintFSettles
  <2>5. ui.cur \in {"spec", "policy"}
    BY <1>2 DEF Clear, ReadOnly, Consistent, Shaped, Docs
  <2>6. Written(ui')
    BY <2>1, <2>4, <2>5, WhatIsWritten DEF Written, Docs
  <2> QED BY <2>3, <2>6, <1>2
<1>3. CASE Rebuild
  <2> DEFINE v == [ui EXCEPT !.edited[ui.cur] = FALSE]
             r == Refresh(v)
             u == [r EXCEPT !.pane = r.doc[r.cur]]
  <2>1. /\ Open(v) /\ v.form = ui.form /\ v.doc = ui.doc /\ v.cur = ui.cur
        /\ v.pane = ui.pane
        /\ \A d \in Docs : d # ui.cur => v.edited[d] = ui.edited[d]
    <3>1. ui.edited[ui.cur] /\ ~ReadOnly(ui.cur)
      BY <1>3 DEF Rebuild, Consistent, Shaped, ReadOnly
    <3>2. v = [ui EXCEPT !.pane = ui.pane, !.edited[ui.cur] = FALSE]
      BY DEF Consistent, Shaped
    <3>3. \A text : LET w == [ui EXCEPT !.pane = text, !.edited[ui.cur] = FALSE]
                    IN  /\ Open(w) /\ w.form = ui.form /\ w.doc = ui.doc /\ w.cur = ui.cur
                        /\ w.pane = text
                        /\ \A d \in Docs : d # ui.cur => w.edited[d] = ui.edited[d]
      BY <3>1, MarkedIsOpen DEF Consistent, Shaped
    <3> HIDE DEF v
    <3> QED BY <3>2, <3>3
  <2>2. ui' = PaintF(u)
    BY <1>3 DEF Rebuild
  <2>3. v.pane = v.doc[v.cur]
    BY <2>1 DEF Consistent
  <2>4. /\ Consistent(r) /\ r.cur = ui.cur
        /\ \A d \in Docs : ui.edited[d] /\ d # ui.cur => r.doc[d] = ui.doc[d]
    <3> HIDE DEF v
    <3> QED BY <2>1, <2>3, RefreshSettles
  <2>5. Written(r)
    <3> HIDE DEF v
    <3> QED BY <2>1, <2>3, FormWrites, WhatIsWritten DEF Written
  <2> HIDE DEF r
  <2>6. /\ Open(u) /\ u.form = r.form /\ u.doc = r.doc /\ u.cur = r.cur
        /\ u.edited = r.edited /\ u.pane = u.doc[u.cur]
    BY <2>4 DEF Consistent, Open, Shaped
  <2> HIDE DEF u
  <2>7. /\ Consistent(ui')
        /\ \A d \in Docs : ui.edited[d] /\ d # ui.cur => ui'.doc[d] = ui.doc[d]
    BY <2>2, <2>4, <2>6, PaintFSettles
  <2>8. /\ ui'.form = r.form /\ ui'.edited = r.edited
        /\ \A d \in Docs : ui'.doc[d] = r.doc[d]
    BY <2>2, <2>6, PaintFSettles
  <2>9. Written(ui')
    BY <2>5, <2>8 DEF Written, Docs
  <2> QED BY <2>7, <2>9, <1>3
<1>4. CASE Explain \/ Download
  <2>1. ui' = ui
    BY <1>4 DEF Explain, Download
  <2> QED BY <2>1
<1>5. ASSUME NEW name \in Docs, Turn(name)
      PROVE  Consistent(ui') /\ Written(ui') /\ Goal
  <2>1. ui' = ShowDoc(ui, name)
    BY <1>5 DEF Turn
  <2>2. Open(ui) /\ ui.pane = ui.doc[ui.cur]
    BY DEF Consistent, Open
  <2>3. Consistent(ui') /\ Kept
    BY <2>1, <2>2, ShowDocSettles DEF Kept
  <2>4. /\ ui'.form = ui.form /\ ui'.edited = ui.edited
        /\ \A d \in Docs : ui'.doc[d] = ui.doc[d]
    BY <2>1, <2>2, ShowDocSettles
  <2>5. Written(ui')
    BY <2>4 DEF Written, Docs
  <2> QED BY <2>3, <2>5 DEF Kept
<1>6. ASSUME NEW text \in Typed[ui.cur], Type(text)
      PROVE  Consistent(ui') /\ Written(ui') /\ Goal
  <2> DEFINE u == [ui EXCEPT !.pane = text, !.edited[ui.cur] = TRUE]
             p == PaintF(u)
  <2>1. /\ Open(u) /\ u.form = ui.form /\ u.doc = ui.doc /\ u.cur = ui.cur /\ u.pane = text
        /\ \A d \in Docs : ui.edited[d] => u.edited[d]
        /\ \A d \in Docs : d # ui.cur => u.edited[d] = ui.edited[d]
    BY <1>6, MarkedIsOpen DEF Type, Consistent, Shaped
  <2>2. ui' = Refresh(p)
    BY <1>6 DEF Type
  <2> HIDE DEF u
  <2>3. /\ Consistent(p) /\ p.edited = u.edited /\ p.cur = ui.cur /\ p.form = ui.form
        /\ \A d \in Docs : p.doc[d] = IF d = ui.cur THEN text ELSE ui.doc[d]
    BY <2>1, PaintFSettles
  <2> HIDE DEF p
  <2>4. Open(p) /\ p.pane = p.doc[p.cur]
    BY <2>3 DEF Consistent, Open
  <2>5. /\ Consistent(ui')
        /\ \A d \in Docs : ui.edited[d] /\ d # ui.cur => ui'.doc[d] = ui.doc[d]
    BY <2>1, <2>2, <2>3, <2>4, RefreshSettles
  <2>6. ui.cur \in {"spec", "policy"}
    BY <1>6 DEF Type, ReadOnly, Consistent, Shaped, Docs
  <2>7. /\ p.doc["spec"] \in SpecTexts /\ p.doc["policy"] \in PolicyTexts
        /\ p.doc["tiles"] = TilesText
    BY <2>3, <2>6, WhatIsWritten DEF Written, Docs
  <2>8. Written(ui')
    BY <2>2, <2>3, <2>4, <2>7, FormWrites DEF Written
  <2> QED BY <2>5, <2>8, <1>6
<1>7. ASSUME NEW sample \in Samples, Try(sample)
      PROVE  Consistent(ui') /\ Written(ui') /\ Goal
  <2> DEFINE u == [ui EXCEPT !.doc["spec"] = sample, !.doc["policy"] = <<>>,
                             !.edited["spec"] = TRUE, !.edited["policy"] = TRUE,
                             !.cur = "spec"]
  <2>1. /\ Open(u) /\ u.form = ui.form /\ u.cur = "spec" /\ u.pane = ui.pane
        /\ u.edited["policy"] /\ u.doc["policy"] = <<>> /\ u.doc["tiles"] = ui.doc["tiles"]
    <3> DEFINE docs == [ui.doc EXCEPT !["spec"] = sample, !["policy"] = <<>>]
               edits == [ui.edited EXCEPT !["spec"] = TRUE, !["policy"] = TRUE]
    <3>1. u = [form |-> ui.form, cur |-> "spec", pane |-> ui.pane, curl |-> ui.curl,
               doc |-> docs, edited |-> edits]
      <4> DEFINE t == [form |-> ui.form, cur |-> ui.cur, pane |-> ui.pane,
                       curl |-> ui.curl, doc |-> ui.doc, edited |-> ui.edited]
      <4>1. ui = t
        BY DEF Consistent, Shaped
      <4>2. u = [ui EXCEPT !.doc = docs, !.edited = edits, !.cur = "spec"]
        BY <4>1
      <4> HIDE DEF u, docs, edits
      <4> QED BY ONLY <4>1, <4>2
    <3>2. docs = [d \in Docs |-> docs[d]]
      BY DEF Consistent, Shaped, Docs
    <3>3. edits \in [Docs -> BOOLEAN] /\ ~edits["tiles"] /\ edits["policy"]
      BY DEF Consistent, Shaped, Docs
    <3>4. docs["policy"] = <<>> /\ docs["tiles"] = ui.doc["tiles"]
      BY DEF Consistent, Shaped, Docs
    <3> HIDE DEF u, docs, edits
    <3> QED BY <3>1, <3>2, <3>3, <3>4 DEF Open, Shaped, ReadOnly, Docs
  <2>2. ui' = ShowDoc(u, "spec")
    BY <1>7 DEF Try
  <2> HIDE DEF u
  <2>3. Consistent(ui')
    BY <2>1, <2>2, ShowDocSettles DEF Docs
  <2>4. /\ ui'.form = ui.form /\ ui'.edited["policy"] /\ ui'.doc["spec"] = ui.pane
        /\ ui'.doc["policy"] = <<>> /\ ui'.doc["tiles"] = ui.doc["tiles"]
    BY <2>1, <2>2, ShowDocSettles DEF Docs
  <2>5. ui.pane \in SpecTexts
    BY WhatIsWritten DEF Written, Consistent, Shaped, Docs
  <2>6. Written(ui')
    BY <2>4, <2>5, WhatIsWritten DEF Written
  <2> QED BY <2>3, <2>6, <1>7
<1>8. ASSUME NEW r \in Requests, Server(r) \/ Arrive(r) \/ Lose(r) \/ Drop(r)
      PROVE  Consistent(ui') /\ Written(ui') /\ Goal
  <2>1. ui' = ui
    BY <1>8 DEF Server, Arrive, Lose, Drop, Settled
  <2> QED BY <2>1
<1> HIDE DEF Goal
<1> QED BY <1>1, <1>2, <1>3, <1>4, <1>5, <1>6, <1>7, <1>8 DEF Next

\* The page as it opens.
LEMMA InitConsistent == Init => Consistent(ui) /\ Written(ui)
<1> SUFFICES ASSUME NEW form \in Forms, ui = Refresh(Blank(form))
             PROVE  Consistent(ui) /\ Written(ui)
  BY DEF Init
<1> DEFINE u == Blank(form)
<1>1. /\ Open(u) /\ ~u.edited[u.cur] /\ u.form = form
      /\ ~u.edited["spec"] /\ ~u.edited["policy"] /\ u.doc["tiles"] = TilesText
  BY DEF Blank, Open, Shaped, ReadOnly, Docs
<1> HIDE DEF u
<1>2. Consistent(Refresh(u)) /\ Written(Refresh(u))
  BY <1>1, RefreshSettles, FormWrites
<1> QED BY <1>2 DEF u

LEMMA PageConsistent == Spec => [](Consistent(ui) /\ Written(ui))
<1>1. Consistent(ui) /\ Written(ui) /\ [Next]_vars => (Consistent(ui) /\ Written(ui))'
  <2>1. CASE Next
    BY <2>1, HandlerSettles
  <2>2. CASE UNCHANGED vars
    BY <2>2 DEF vars, Consistent, Shaped, Written
  <2> QED BY <2>1, <2>2
<1> QED BY <1>1, InitConsistent, PTL DEF Spec

\* The pane shows the document its tab names, and the command to copy sends the
\* documents as they stand, whatever was typed, opened, cleared or rebuilt.
THEOREM SeenIsAlwaysSent == Spec => []SeenIsSent
<1>1. Consistent(ui) /\ Written(ui) => SeenIsSent
  BY DEF Consistent, SeenIsSent
<1> QED BY <1>1, PageConsistent, PTL

\* No radio button, tab or answer takes what was written by hand.
THEOREM HandEditsAreSafe == Spec => HandEditsSurvive
<1> DEFINE Goal ==
        \A d \in Docs :
           ui.edited[d] /\ ui'.doc[d] # ui.doc[d] =>
               \/ ui.cur = d /\ (Rebuild \/ Clear \/ \E text \in Typed[d] : Type(text))
               \/ \E sample \in Samples : Try(sample)
<1>1. Consistent(ui) /\ Written(ui) /\ [Next]_vars => [Goal]_vars
  BY HandlerSettles
<1> QED BY <1>1, PageConsistent, PTL DEF Spec, HandEditsSurvive
-----------------------------------------------------------------------------
(***************************************************************************)
(* What is chosen where the form's policy prefers one store.               *)
(***************************************************************************)

\* A tile's place is a number.
LEMMA NamesAreNumbered ==
    ASSUME NEW t \in Tiles
    PROVE  (CHOOSE i \in DOMAIN NamesInOrder : NamesInOrder[i] = t) \in Nat
<1>1. \E i \in DOMAIN NamesInOrder : NamesInOrder[i] = t
  BY RegistryIsCoherent DEF CheckRegistry
<1>2. DOMAIN NamesInOrder \subseteq Nat
  BY DEF NamesInOrder
<1> HIDE DEF NamesInOrder
<1> QED BY <1>1, <1>2

LEMMA CheapestOfOne ==
    ASSUME NEW c, NEW n, NEW t \in Tiles
    PROVE  Cheapest(c, n, {t}) = t
<1> DEFINE N == CHOOSE i \in DOMAIN NamesInOrder : NamesInOrder[i] = t
<1>1. N \in Nat
  BY NamesAreNumbered
<1>2. [u \in Tiles |-> CHOOSE i \in DOMAIN NamesInOrder : NamesInOrder[i] = u][t] = N
  OBVIOUS
<1> HIDE DEF N
<1>3. N <= N
  BY <1>1
<1> QED BY <1>2, <1>3 DEF Cheapest

\* The one tile preferred, strongly or as the only one allowed, is taken where
\* it is legal.
LEMMA PickIsPreferred ==
    ASSUME NEW reqs, NEW entity, NEW policy, NEW n \in Caps, NEW store,
           policy.prefer[store] \in {"strong", "required"},
           \A t \in Tiles : t # store => policy.prefer[t] = "none",
           store \in Legal(Context(reqs, entity, policy), n)
    PROVE  PickOffer(Context(reqs, entity, policy), n) = store
<1> DEFINE c == Context(reqs, entity, policy)
           legal == Legal(c, n)
           offers == Release.offers[n]
           prefer == policy.prefer
<1>1. /\ legal \subseteq Candidates(c, n)
      /\ c.policy.prefer = prefer /\ c.release = Release
  BY DEF Legal, Context
<1>2. offers \subseteq Tiles
  BY DEF Release
<1>3. Candidates(c, n) =
         IF {t \in offers : prefer[t] = "required"} = {} THEN offers
         ELSE {Last({t \in offers : prefer[t] = "required"})}
  BY <1>1 DEF Candidates
<1>4. store \in Candidates(c, n) /\ store \in legal
  BY <1>1
<1>5. PickOffer(c, n) =
        LET best == Cheapest(c, n, legal)
            price == c.policy.price[n]
            strong == {t \in legal : prefer[t] = "strong"}
            near == {t \in legal \ {best} :
                        /\ prefer[t] # "none"
                        /\ price[t] <= price[best] + c.policy.margin}
        IN  IF strong # {} THEN Cheapest(c, n, strong)
            ELSE IF prefer[best] = "none" /\ near # {}
                 THEN Cheapest(c, n, near)
                 ELSE best
  BY <1>1 DEF PickOffer
<1> HIDE DEF c, legal, offers, prefer
<1>6. CASE prefer[store] = "strong"
  <2>1. {t \in offers : prefer[t] = "required"} = {}
    BY <1>2, <1>6 DEF prefer
  <2>2. legal \subseteq Tiles
    BY <1>1, <1>2, <1>3, <2>1
  <2>3. {t \in legal : prefer[t] = "strong"} = {store}
    BY <1>4, <1>6, <2>2 DEF prefer
  <2> QED BY <1>4, <1>5, <2>2, <2>3, CheapestOfOne DEF c
<1>7. CASE prefer[store] = "required"
  <2>1. store \in offers
    BY <1>2, <1>3, <1>4, <1>7 DEF prefer
  <2>2. {t \in offers : prefer[t] = "required"} = {store}
    BY <1>2, <1>7, <2>1 DEF prefer
  <2>3. legal = {store} /\ store \in Tiles
    BY <1>1, <1>2, <1>3, <1>4, <2>1, <2>2
  <2>4. Cheapest(c, n, legal) = store
    BY <2>3, CheapestOfOne
  <2>5. {t \in legal : prefer[t] = "strong"} = {} /\ prefer[store] # "none"
    BY <1>7, <2>3
  <2> QED BY <1>5, <2>4, <2>5 DEF c
<1> QED BY <1>6, <1>7 DEF prefer

\* A text whose last form is a policy is compiled under that policy.
LEMMA LastPolicyCounts ==
    ASSUME NEW S, NEW spec \in Seq(S), NEW form, form.head = "policy",
           OneSpec(spec \o <<form>>)
    PROVE  PolicyOf(spec \o <<form>>) = ParsePolicy(form)
<1> DEFINE text == spec \o <<form>>
           n == Len(spec) + 1
<1>1. n \in DOMAIN text /\ text[n] = form
  OBVIOUS
<1> HIDE DEF text, n
<1>2. Has(text, "policy")
  BY <1>1 DEF Has
<1>3. \A i \in DOMAIN text : text[i].head = "policy" => i = n
  BY <1>1 DEF OneSpec, text
<1>4. FormOf(text, "policy") = form
  BY <1>1, <1>3 DEF FormOf
<1> QED BY <1>2, <1>4 DEF PolicyOf, text

\* What the form's policy says of the tiles.
LEMMA FormPrefers ==
    ASSUME NEW form \in Forms, form.store # Undecided
    PROVE  \E f : /\ BuildPolicy(form) = <<f>> /\ f.head = "policy"
                  /\ ParsePolicy(f).prefer[form.store] \in {"strong", "required"}
                  /\ \A t \in Tiles : t # form.store => ParsePolicy(f).prefer[t] = "none"
<1> DEFINE strength == IF form.firm = "required" THEN "required" ELSE "strong"
           f == PolicyForm(PageWeights, [t \in {form.store} \ {Undecided} |-> strength])
<1>1. BuildPolicy(form) = <<f>>
  BY DEF BuildPolicy
<1>2. f.head = "policy" /\ f.prefer = [t \in {form.store} |-> strength]
  BY DEF PolicyForm
<1> HIDE DEF f
<1>3. ParsePolicy(f).prefer = Over([t \in {form.store} |-> strength], [t \in Tiles |-> "none"])
  BY <1>2 DEF ParsePolicy
<1>4. strength \in {"strong", "required"}
  OBVIOUS
<1> HIDE DEF strength
<1>5. /\ ParsePolicy(f).prefer[form.store] = strength
      /\ \A t \in Tiles : t # form.store => ParsePolicy(f).prefer[t] = "none"
  BY <1>3 DEF Over
<1> QED BY <1>1, <1>2, <1>4, <1>5

\* An answer to the form's policy keeps the store that was picked, where legal.
LEMMA PickedInAnswer ==
    ASSUME NEW form \in Forms, form.store # Undecided, NEW spec \in SpecTexts,
           NEW text, text = spec \o BuildPolicy(form),
           Compile(text).status = "ok", "store" \in DOMAIN Compile(text).chosen
    PROVE  \/ Compile(text).chosen["store"] = form.store
           \/ form.store \notin Compile(text).possible["store"]
<1> DEFINE project == FormOf(text, "project")
           policy == PolicyOf(text)
           c == Context(project.reqs, project.entity, policy)
           needs == Needs(project)
<1>1. /\ OneSpec(text)
      /\ Compile(text) =
           [status |-> "ok", weights |-> policy.weights,
            chosen |-> [k \in needs |-> PickOffer(c, k)],
            possible |-> [k \in needs |-> Legal(c, k)]]
  BY DEF Compile, Refused, ContextOf
<1>2. PICK f : /\ BuildPolicy(form) = <<f>> /\ f.head = "policy"
               /\ ParsePolicy(f).prefer[form.store] \in {"strong", "required"}
               /\ \A t \in Tiles : t # form.store => ParsePolicy(f).prefer[t] = "none"
  BY FormPrefers
<1>3. spec \in Seq({spec[i] : i \in DOMAIN spec})
  BY TextsAssumption
<1>4. policy = ParsePolicy(f)
  BY <1>1, <1>2, <1>3, LastPolicyCounts
<1>5. "store" \in Caps
  BY DEF Caps, Requirements
<1> HIDE DEF project, policy
<1>6. ASSUME form.store \in Legal(c, "store")
      PROVE  PickOffer(c, "store") = form.store
  <2>1. /\ policy.prefer[form.store] \in {"strong", "required"}
        /\ \A t \in Tiles : t # form.store => policy.prefer[t] = "none"
    BY <1>2, <1>4
  <2> QED BY <1>5, <1>6, <2>1, PickIsPreferred
<1> HIDE DEF c, needs
<1>7. /\ DOMAIN Compile(text).chosen = needs
      /\ \A k \in needs : /\ Compile(text).chosen[k] = PickOffer(c, k)
                          /\ Compile(text).possible[k] = Legal(c, k)
  <2>1. /\ Compile(text).chosen = [k \in needs |-> PickOffer(c, k)]
        /\ Compile(text).possible = [k \in needs |-> Legal(c, k)]
    BY <1>1
  <2> QED BY <2>1, Zenon
<1> QED BY <1>6, <1>7
-----------------------------------------------------------------------------
(***************************************************************************)
(* What a request carries, and what the panel shows of it.                 *)
(***************************************************************************)
Sent(q) ==
    \/ /\ q = [pc |-> "handler", kind |-> q.kind, text |-> q.text]
       /\ q.text \in Texts
    \/ /\ q = [pc |-> q.pc, kind |-> q.kind, text |-> q.text, answer |-> Compile(q.text),
               unread |-> q.unread, shown |-> q.shown]
       /\ q.pc # "handler"

RequestsSent ==
    /\ requests = [r \in Requests |-> requests[r]]
    /\ \A r \in Requests : requests[r] # Idle => Sent(requests[r])

PanelAnswers ==
    panel.shows = "covering" =>
        /\ Compile(panel.text).status = "ok"
        /\ panel.chosen = Compile(panel.text).chosen
        /\ panel.possible = Compile(panel.text).possible

LEMMA StillSent ==
    ASSUME NEW q, Sent(q), q.pc # "handler", NEW v
    PROVE  /\ LET x == [q EXCEPT !.unread = v] IN Sent(x) /\ x.pc # "handler"
           /\ LET x == [q EXCEPT !.shown = v] IN Sent(x) /\ x.pc # "handler"
           /\ v # "handler" => Sent([q EXCEPT !.pc = v])
<1>1. LET x == [q EXCEPT !.unread = v] IN Sent(x) /\ x.pc # "handler"
  BY DEF Sent
<1>2. LET x == [q EXCEPT !.shown = v] IN Sent(x) /\ x.pc # "handler"
  BY DEF Sent
<1>3. v # "handler" => Sent([q EXCEPT !.pc = v])
  BY DEF Sent
<1> QED BY <1>1, <1>2, <1>3

\* The service takes what is sent, and answers that.
LEMMA ServiceAnswers ==
    ASSUME RequestsSent, NEW r \in Requests, Serve(r)
    PROVE  RequestsSent'
<1> DEFINE q == requests[r]
<1>1. CASE Handle(r)
  <2> DEFINE compiled == Answers[q.text]
             explains == q.kind = "explain" /\ compiled.status = "ok"
             pc == IF explains THEN "explain" ELSE "answered"
             unread == IF explains THEN DOMAIN compiled.chosen ELSE {}
             new == [pc |-> pc, kind |-> q.kind, text |-> q.text, answer |-> compiled,
                     unread |-> unread, shown |-> {}]
  <2>1. q.text \in Texts
    BY <1>1 DEF Handle, Running, RequestsSent, Sent
  <2>2. compiled = Compile(q.text)
    BY <2>1 DEF Answers
  <2>3. requests' = [requests EXCEPT ![r] = new]
    BY <1>1 DEF Handle
  <2>4. Sent(new)
    <3>1. pc # "handler"
      OBVIOUS
    <3> HIDE DEF compiled, unread, pc, q
    <3> QED BY <2>2, <3>1 DEF Sent
  <2> HIDE DEF new
  <2> QED BY <2>3, <2>4 DEF RequestsSent
<1>2. CASE SetWeights(r)
  <2> DEFINE pc == IF q.unread = {} THEN "answered" ELSE "coverage"
  <2>1. requests' = [requests EXCEPT ![r].pc = pc] /\ pc # "handler"
    BY <1>2 DEF SetWeights
  <2> HIDE DEF pc
  <2>2. q # Idle /\ q.pc = "explain"
    BY <1>2 DEF SetWeights, Running
  <2>3. Sent([q EXCEPT !.pc = pc])
    BY <2>1, <2>2 DEF RequestsSent, Sent
  <2> QED BY <2>1, <2>3 DEF RequestsSent
<1>3. CASE ReadWeights(r)
  <2> DEFINE n == CHOOSE k \in q.unread : TRUE
             pc == IF q.unread = {n} THEN "answered" ELSE q.pc
             unread == q.unread \ {n}
             shown == q.shown \cup {jsonWeights}
             new == [q EXCEPT !.unread = unread, !.shown = shown, !.pc = pc]
  <2>1. q # Idle /\ q.pc = "coverage"
    BY <1>3 DEF ReadWeights, Running
  <2>2. requests' = [requests EXCEPT ![r] = new]
    BY <1>3 DEF ReadWeights
  <2>3. Sent(new)
    <3>1. pc # "handler"
      BY <2>1
    <3> HIDE DEF pc, unread, shown
    <3> DEFINE a == [q EXCEPT !.unread = unread]
               b == [a EXCEPT !.shown = shown]
    <3>2. Sent(q) /\ q.pc # "handler"
      BY <2>1 DEF RequestsSent
    <3>3. new = [b EXCEPT !.pc = pc]
      OBVIOUS
    <3> HIDE DEF new, q
    <3>4. Sent(a) /\ a.pc # "handler"
      BY <3>2, StillSent
    <3> HIDE DEF a
    <3>5. Sent(b) /\ b.pc # "handler"
      BY <3>4, StillSent
    <3> HIDE DEF b
    <3> QED BY <3>1, <3>3, <3>5, StillSent
  <2> HIDE DEF new
  <2> QED BY <2>2, <2>3 DEF RequestsSent
<1> QED BY <1>1, <1>2, <1>3 DEF Serve

\* A click sends what the documents hold.
LEMMA AskSends ==
    ASSUME RequestsSent, NEW kind, NEW u, Written(u), Ask(kind, u)
    PROVE  RequestsSent' /\ PanelAnswers'
<1>1. PICK r \in Requests : Submit(r, kind, WholeSpec(u.doc))
  BY DEF Ask
<1>2. WholeSpec(u.doc) \in Texts
  <2> DEFINE doc == [spec |-> u.doc["spec"], policy |-> u.doc["policy"]]
  <2>1. doc \in [spec : SpecTexts, policy : PolicyTexts]
    BY DEF Written
  <2>2. WholeSpec(u.doc) = WholeSpec(doc)
    BY DEF WholeSpec
  <2> HIDE DEF doc
  <2>3. WholeSpec(doc) \in SentTexts
    BY <2>1 DEF SentTexts
  <2> QED BY <2>2, <2>3, TextsAssumption
<1>3. RequestsSent'
  BY <1>1, <1>2 DEF Submit, RequestsSent, Sent
<1>4. PanelAnswers'
  BY DEF Ask, PanelAnswers
<1> QED BY <1>3, <1>4

LEMMA AnswersAreShown ==
    ASSUME RequestsSent, PanelAnswers, Written(ui), Written(ui'), Next
    PROVE  RequestsSent' /\ PanelAnswers'
<1>1. CASE FillIn \/ Clear \/ Rebuild \/ (\E name \in Docs : Turn(name))
           \/ (\E text \in Typed[ui.cur] : Type(text))
  <2>1. UNCHANGED <<requests, panel>>
    BY <1>1 DEF FillIn, Clear, Rebuild, Turn, Type, Edits
  <2> QED BY <2>1 DEF RequestsSent, PanelAnswers
<1>2. CASE Explain \/ Download
  BY <1>2, AskSends DEF Explain, Download
<1>3. ASSUME NEW sample \in Samples, Try(sample)
      PROVE  RequestsSent' /\ PanelAnswers'
  <2>1. Ask("explain", ui')
    BY <1>3 DEF Try
  <2> QED BY <2>1, AskSends
<1>4. ASSUME NEW r \in Requests, Server(r)
      PROVE  RequestsSent' /\ PanelAnswers'
  BY <1>4, ServiceAnswers DEF Server, PanelAnswers
<1>5. ASSUME NEW r \in Requests, Arrive(r)
      PROVE  RequestsSent' /\ PanelAnswers'
  <2>1. RequestsSent'
    BY <1>5 DEF Arrive, RequestsSent
  <2>2. requests[r].answer = Compile(requests[r].text)
    BY <1>5 DEF Arrive, Running, RequestsSent, Sent
  <2>3. PanelAnswers'
    BY <1>5, <2>2 DEF Arrive, Shown, PanelAnswers
  <2> QED BY <2>1, <2>3
<1>6. ASSUME NEW r \in Requests, Lose(r) \/ Drop(r)
      PROVE  RequestsSent' /\ PanelAnswers'
  BY <1>6 DEF Lose, Drop, RequestsSent, PanelAnswers
<1> QED BY <1>1, <1>2, <1>3, <1>4, <1>5, <1>6 DEF Next

\* A store picked in the form is the one the panel shows, or was not legal
\* there: with the policy still the form's, of whatever spec, under whatever
\* else was asked or answered in between.
THEOREM PickAlwaysWins == Spec => []PickWins
<1> DEFINE Inv == Consistent(ui) /\ Written(ui) /\ RequestsSent /\ PanelAnswers
<1>1. Init => Inv
  BY InitConsistent DEF Init, InitService, RequestsSent, PanelAnswers
<1>2. Inv /\ [Next]_vars => Inv'
  <2> SUFFICES ASSUME Inv, [Next]_vars PROVE Inv'
    OBVIOUS
  <2>1. CASE Next
    BY <2>1, HandlerSettles, AnswersAreShown
  <2>2. CASE UNCHANGED vars
    BY <2>2 DEF vars, Consistent, Shaped, Written, RequestsSent, PanelAnswers
  <2> QED BY <2>1, <2>2
<1>3. Inv => PickWins
  <2> SUFFICES ASSUME Inv, panel.shows = "covering", panel.text = WholeSpec(ui.doc),
                      ~ui.edited["policy"], ui.form.store # Undecided,
                      "store" \in DOMAIN panel.chosen
               PROVE  \/ panel.chosen["store"] = ui.form.store
                      \/ ui.form.store \notin panel.possible["store"]
    BY DEF PickWins
  <2>1. /\ ui.form \in Forms /\ ui.doc["spec"] \in SpecTexts
        /\ panel.text = ui.doc["spec"] \o BuildPolicy(ui.form)
    BY DEF Written, WholeSpec
  <2>2. /\ Compile(panel.text).status = "ok"
        /\ panel.chosen = Compile(panel.text).chosen
        /\ panel.possible = Compile(panel.text).possible
    BY DEF PanelAnswers
  <2> QED BY <2>1, <2>2, PickedInAnswer
<1> HIDE DEF Inv
<1> QED BY <1>1, <1>2, <1>3, PTL DEF Spec
=============================================================================
