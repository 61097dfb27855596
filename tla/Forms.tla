--------------------------------- MODULE Forms ---------------------------------
(***************************************************************************)
(* The dialogs and pages of inputs: what their inputs start from, what they *)
(* keep from one opening to the next, and what they submit.                 *)
(*                                                                          *)
(* One form, described as in Screens, on a page that shows a list of items  *)
(* or one item.  Values are version numbers, one per item; the answers that *)
(* the page shows come from the cache, whose requests are the subject of    *)
(* QueryCache: here an answer holds what is saved when it arrives.          *)
(***************************************************************************)
EXTENDS FormState

vars == <<form, saved, listed, told, fetching, page, item, target, opening,
          floor, inputs, subs, busy>>
serverVars == <<saved, told>>
pageVars   == <<page, item>>
openVars   == <<target, opening, floor>>

\* of, at: the item whose saved values the inputs started from, and their
\* version; typed, sent: for what the user typed over them since, and whether
\* that was submitted and succeeded.
Blank == [of |-> None, at |-> 0, typed |-> None, sent |-> FALSE]
From(i, version) == [Blank EXCEPT !.of = i, !.at = version]

IsPage  == form.seeds = "page"
OfItem  == "item" \in form.about

-----------------------------------------------------------------------------
(* The page.                                                                 *)

\* The inputs of the form of an item wait for an answer about it, and take
\* the one in the cache if there is one.
Seeded(i) == i \in Items /\ form.seeds \in {"page", "first"} /\ listed[i] # 0

\* An opening by a page that has asked already starts from what the user was
\* told of; while the answer is awaited it may start from the one before.
Floor(t) == IF t \in Items /\ ~fetching THEN told[t] ELSE 0

\* A page of inputs is open from the start, for a new item or for one that
\* has been answered; any other form is closed.
Enter ==
  /\ ~page
  /\ page' = TRUE
  /\ item' \in (IF OfItem THEN Items ELSE {None})
                 \union (IF "item" \notin form.about \/ "new" \in form.about THEN {None} ELSE {})
  /\ inputs' = IF Seeded(item') THEN From(item', listed[item']) ELSE Blank
  /\ target' = IF ~IsPage THEN None
               ELSE IF item' = None THEN New
               ELSE IF Seeded(item') THEN item' ELSE None
  /\ floor' = Floor(target')
  /\ opening' = opening + 1 /\ opening < MaxOpenings
  /\ fetching' = TRUE
  /\ UNCHANGED <<form, serverVars, listed, subs, busy>>

\* The answer about the items arrives, whether or not the page is still there.
Answer ==
  /\ fetching
  /\ fetching' = FALSE
  /\ listed' = saved
  /\ IF page /\ item \in Items /\ form.seeds \in {"page", "first"} /\ inputs.of = None
     THEN /\ inputs' = From(item, saved[item])
          /\ target' = IF IsPage THEN item ELSE target
     ELSE UNCHANGED <<inputs, target>>
  /\ UNCHANGED <<form, serverVars, pageVars, opening, floor, subs, busy>>

\* A focus of the window.
Refetch ==
  /\ page /\ ~fetching
  /\ fetching' = TRUE
  /\ UNCHANGED <<form, serverVars, listed, pageVars, openVars, inputs, subs, busy>>

\* Leaving unmounts the form and forgets its inputs.
Gone ==
  /\ page' = FALSE /\ item' = None /\ target' = None
  /\ inputs' = Blank

Leave ==
  /\ page
  /\ Gone
  /\ busy' = FALSE
  /\ subs' = {[s EXCEPT !.mine = FALSE] : s \in subs}
  /\ UNCHANGED <<form, serverVars, listed, fetching, opening, floor>>

\* Another user saves an item.
Foreign ==
  \E i \in Items :
    /\ saved[i] < MaxVersion
    /\ saved' = [saved EXCEPT ![i] = @ + 1]
    /\ UNCHANGED <<form, listed, told, fetching, pageVars, openVars, inputs, subs, busy>>

-----------------------------------------------------------------------------
(* Openings.                                                                 *)

\* What a dialog can be opened for: a button of the page, a row of its list
\* once answered, or the item of the page.
Openable(t) ==
  \/ t = New /\ "new" \in form.about
  \/ t \in Items /\ listed[t] # 0 /\ "row" \in form.about
  \/ t \in Items /\ listed[t] # 0 /\ OfItem /\ t = item

\* The inputs at an opening: set by it, by a remount under the key of the
\* item, or whatever they were.
InputsForWrong(t) == IF t \in Items \ {inputs.of} THEN From(t, listed[t]) ELSE inputs
InputsFor(t) ==
  IF form.seeds = "opening"
  THEN IF form.edits /\ t \in Items THEN From(t, listed[t]) ELSE Blank
  ELSE IF form.seeds = "key" /\ t \in Items THEN From(t, listed[t])
  ELSE inputs

Open ==
  /\ page /\ ~IsPage /\ target = None
  /\ opening < MaxOpenings
  /\ \E t \in Targets :
       /\ Openable(t)
       /\ target' = t
       /\ inputs' = InputsFor(t)
       /\ floor' = Floor(t)
  /\ opening' = opening + 1
  /\ UNCHANGED <<form, serverVars, listed, fetching, pageVars, subs, busy>>

Type ==
  /\ target # None
  /\ inputs' = [inputs EXCEPT !.typed = target, !.sent = FALSE]
  /\ UNCHANGED <<form, serverVars, listed, fetching, pageVars, openVars, subs, busy>>

\* The inputs after an opening ends in the given way.  Closing a dialog that
\* has the key of its item remounts it under the key of a new one.
InputsAfter(end) ==
  IF end \in form.clears \/ (form.seeds = "key" /\ target \in Items)
  THEN Blank
  ELSE [inputs EXCEPT !.sent = (@ \/ end = "success") /\ form.closes # "never"]

Dismiss ==
  /\ target # None /\ ~IsPage
  /\ \E end \in {"escape", "cancel"} : inputs' = InputsAfter(end)
  /\ target' = None
  /\ UNCHANGED <<form, serverVars, listed, fetching, pageVars, opening, floor, subs, busy>>

-----------------------------------------------------------------------------
(* Submissions.                                                              *)

\* The submit button is disabled while a submission is pending.
Enabled == form.guarded => ~busy

Numbers == 1..2

Submit ==
  /\ target # None
  /\ Enabled
  /\ \E n \in Numbers :
       /\ \A s \in subs : s.opening = opening => s.n # n
       /\ subs' = subs \union {[opening |-> opening, n |-> n, to |-> target, mine |-> TRUE]}
  /\ busy' = TRUE
  /\ IF form.closes = "click"
     THEN target' = None /\ inputs' = InputsAfter("click")
     ELSE UNCHANGED <<target, inputs>>
  /\ UNCHANGED <<form, serverVars, listed, fetching, pageVars, opening, floor>>

Over(s) ==
  /\ subs' = subs \ {s}
  /\ busy' = (busy /\ ~s.mine)

\* The server saves, and the success refreshes the items, at once if the page
\* is there and at the next visit otherwise.  It closes what is open then,
\* and a page of inputs leaves even if it was left before.
Succeed ==
  \E s \in subs :
    /\ Over(s)
    /\ s.to \in Items => saved[s.to] < MaxVersion
    /\ saved' = [i \in Items |-> IF i = s.to THEN saved[i] + 1 ELSE saved[i]]
    /\ told'  = [i \in Items |-> IF i = s.to THEN saved'[i] ELSE told[i]]
    /\ fetching' = (fetching \/ (page /\ form.refreshed))
    /\ IF form.closes = "answer" /\ IsPage /\ page
       THEN Gone
       ELSE /\ IF s.mine /\ form.closes = "answer" THEN target' = None ELSE target' = target
            /\ inputs' = IF s.mine THEN InputsAfter("success") ELSE inputs
            /\ UNCHANGED pageVars
    /\ UNCHANGED <<form, listed, opening, floor>>

\* An error is told, and the form stays as it is.
Fail ==
  \E s \in subs :
    /\ Over(s)
    /\ UNCHANGED <<form, serverVars, listed, fetching, pageVars, openVars, inputs>>

-----------------------------------------------------------------------------
Init ==
  /\ form \in FormSubjects
  /\ saved = [i \in Items |-> 1]
  /\ listed = [i \in Items |-> 0]
  /\ told = [i \in Items |-> 0]
  /\ fetching = FALSE
  /\ page = FALSE /\ item = None
  /\ target = None /\ opening = 0 /\ floor = 0
  /\ inputs = Blank
  /\ subs = {} /\ busy = FALSE

Next ==
  \/ Enter \/ Answer \/ Refetch \/ Leave \/ Foreign
  \/ Open \/ Type \/ Dismiss
  \/ Submit \/ Succeed \/ Fail

Spec == Init /\ [][Next]_vars

-----------------------------------------------------------------------------
(* Why the properties of FormState hold.                                     *)

TypeOK ==
  /\ form \in FormSubjects
  /\ saved \in [Items -> Nat] /\ listed \in [Items -> Nat] /\ told \in [Items -> Nat]
  /\ fetching \in BOOLEAN /\ page \in BOOLEAN /\ busy \in BOOLEAN
  /\ item \in Items \union {None} /\ target \in Targets \union {None}
  /\ opening \in Nat /\ floor \in Nat
  /\ inputs \in [of : Items \union {None}, at : Nat,
                typed : Targets \union {None}, sent : BOOLEAN]
  /\ subs \subseteq [opening : Nat, n : Numbers, to : Targets, mine : BOOLEAN]
  /\ ~page => item = None /\ target = None

\* The dialog of the page's item has it in the inputs once there is an answer.
EditsInv ==
  form.edits /\ ~form.elsewhere =>
    /\ target \in Items => inputs.of = target
    /\ form.seeds = "first" /\ item \in Items =>
         /\ inputs.of \in {None, item}
         /\ listed[item] # 0 => inputs.of = item

\* A page that is not asking has been answered all that its user was told of.
OwnInv ==
  /\ \A i \in Items : told[i] <= saved[i]
  /\ form.edits /\ ~form.elsewhere /\ ~form.cached =>
       /\ page /\ ~fetching => \A i \in Items : told[i] <= listed[i]
       /\ target \in Items => floor <= inputs.at

\* A form with one thing to be open for has typed values of nothing else,
\* closed or open.
LeftoversInv ==
  ~form.keeps =>
    /\ target # None => inputs.typed \in {None, target} /\ (target = New => ~inputs.sent)
    /\ form.seeds = "opening" /\ target = New => "new" \in form.about
    /\ form.seeds \in {"mount", "first"} /\ form.about = {"item"} =>
         target \in {None, item} /\ inputs.typed \in {None, item}
    /\ form.seeds = "mount" /\ form.about = {"new"} =>
         target \in {None, New} /\ inputs.typed \in {None, New} /\ ~inputs.sent

=============================================================================
