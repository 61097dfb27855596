--------------------------------- MODULE Offers ---------------------------------
(***************************************************************************)
(* The buttons of a list or a page against the rules of the server.  A      *)
(* screen offers an action by the status it was last answered, one by one   *)
(* or to all the rows that are selected; the server decides by the status   *)
(* that the row has when the call arrives.  In between the row may have     *)
(* moved, by another user, a webhook, a job or an earlier click.            *)
(*                                                                          *)
(* When the answers arrive is the subject of QueryCache, and which page of  *)
(* rows they hold is that of Tables: here an answer is any part of the rows *)
(* as they are.                                                             *)
(***************************************************************************)
EXTENDS Naturals, FiniteSets

CONSTANTS
  Kinds,      \* the kinds of items, each with a screen: see Console
  Rows,       \* items of the kind
  MaxCalls    \* bound: the calls under way at once

VARIABLES
  kind,       \* the kind looked at
  status,     \* of each row on the server, "gone" once deleted
  shown,      \* status each row is shown in, "hidden" when it is not shown
  selected,   \* rows of the selection, shown or not
  calls,      \* calls under way
  refused,    \* the server refused what was offered by the present status
  doubled     \* the server did twice what was asked for while it was pending

vars == <<kind, status, shown, selected, calls, refused, doubled>>

Statuses == DOMAIN kind.offers

Shown == {r \in Rows : shown[r] # "hidden"}

-----------------------------------------------------------------------------
(* The screen.                                                               *)

\* A page of rows as they are: another page, other filters, or a refresh.
Answer ==
  \E page \in SUBSET {r \in Rows : status[r] # "gone"} :
    /\ shown' = [r \in Rows |-> IF r \in page THEN status[r] ELSE "hidden"]
    /\ UNCHANGED <<kind, status, selected, calls, refused, doubled>>

\* basis: the rows that were offered the action by their status and have not
\* moved since; again: those to which the same was done since the click;
\* n: tells calls of the same action apart.
Send(a, bulk, rows, basis) ==
  /\ Cardinality(calls) < MaxCalls
  /\ \E n \in 1..MaxCalls :
       /\ {m \in 1..n : \A c \in calls : <<c.act, c.bulk, c.n>> # <<a, bulk, m>>} = {n}
       /\ calls' = calls \union
            {[act |-> a, n |-> n, bulk |-> bulk, rows |-> rows,
              basis |-> {r \in basis : shown[r] = status[r]},
              served |-> FALSE, again |-> {}]}
  /\ UNCHANGED <<kind, status, shown, selected, refused, doubled>>

\* A button is disabled while its own call is pending, for whichever row it
\* was made, unless it is one of the open ones.
Enabled(a) == a \in kind.open \/ \A c \in calls : c.act # a \/ c.bulk

Click ==
  \E r \in Shown : \E a \in kind.offers[shown[r]] :
    Enabled(a) /\ Send(a, FALSE, {r}, {r})

\* The bar of bulk actions is there while something is selected; its buttons
\* depend on the selected rows that are shown, and act on all the selected.
OfferedFor(a) == {r \in selected \cap Shown : a \in kind.bulkOffers[shown[r]]}

ClickBulk ==
  /\ selected # {}
  /\ \A c \in calls : ~c.bulk
  /\ \E a \in kind.bulk :
       /\ OfferedFor(a) # {} \/ a \in kind.always
       /\ Send(a, TRUE, selected, OfferedFor(a))

Selectable == {r \in Shown : shown[r] \in kind.selectable}

Toggle ==
  \E r \in Selectable :
    /\ selected' = IF r \in selected THEN selected \ {r} ELSE selected \union {r}
    /\ UNCHANGED <<kind, status, shown, calls, refused, doubled>>

\* The box of the header replaces the selection, also what is not shown.
ToggleAll ==
  /\ Selectable # {}
  /\ selected' = IF Selectable \subseteq selected THEN {} ELSE Selectable
  /\ UNCHANGED <<kind, status, shown, calls, refused, doubled>>

Clear ==
  /\ selected # {}
  /\ selected' = {}
  /\ UNCHANGED <<kind, status, shown, calls, refused, doubled>>

-----------------------------------------------------------------------------
(* The server.                                                               *)

Accepts(a, r) == \E t \in kind.does[a] : t[1] = status[r]
Leaves(a, r)  == {t[2] : t \in {u \in kind.does[a] : u[1] = status[r]}}

\* The other calls when rows move: nothing that was offered by an older status
\* is expected to be accepted, and only what was done last can be done again.
After(some, rows) == {[c EXCEPT !.basis = @ \ rows, !.again = @ \ rows] : c \in some}

Repeated(some, a, rows) ==
  {[c EXCEPT !.again = IF c.act = a /\ ~c.served THEN @ \union (c.rows \cap rows) ELSE @]
   : c \in some}

Serve ==
  \E c \in calls :
    LET done == {r \in c.rows : Accepts(c.act, r)}
    IN  /\ ~c.served
        /\ \E left \in [done -> UNION {Leaves(c.act, r) : r \in done}] :
             /\ \A r \in done : left[r] \in Leaves(c.act, r)
             /\ status' = [r \in Rows |-> IF r \in done THEN left[r] ELSE status[r]]
        /\ calls' = Repeated(After(calls \ {c}, {r \in Rows : status'[r] # status[r]}),
                             c.act, done)
                      \union {[c EXCEPT !.served = TRUE, !.rows = {},
                                !.basis = {}, !.again = {}]}
        /\ refused' = (refused \/ ~(c.basis \subseteq done))
        /\ doubled' = (doubled \/ (c.act \notin kind.repeatable /\ c.again \cap done # {}))
        /\ UNCHANGED <<kind, shown, selected>>

\* Another user, a webhook of a provider or a job; the update routes of
\* invoices and subscriptions take any status.
Foreign ==
  \E r \in Rows, s \in Statuses \union {"gone"} :
    /\ status[r] \notin {s, "gone"}
    /\ status' = [status EXCEPT ![r] = s]
    /\ calls' = After(calls, {r})
    /\ UNCHANGED <<kind, shown, selected, refused, doubled>>

\* A success empties the selection that a bulk action was for, with whatever
\* was added to it meanwhile; a loss or a refusal of the whole call does not.
Succeed ==
  \E c \in calls :
    /\ c.served
    /\ calls' = calls \ {c}
    /\ selected' = IF c.bulk THEN {} ELSE selected
    /\ UNCHANGED <<kind, status, shown, refused, doubled>>

Fail ==
  \E c \in calls :
    /\ calls' = calls \ {c}
    /\ UNCHANGED <<kind, status, shown, selected, refused, doubled>>

-----------------------------------------------------------------------------
Init ==
  /\ kind \in Kinds
  /\ status \in [Rows -> Statuses]
  /\ shown = [r \in Rows |-> "hidden"]
  /\ selected = {} /\ calls = {}
  /\ refused = FALSE /\ doubled = FALSE

Next ==
  \/ Answer \/ Click \/ ClickBulk \/ Toggle \/ ToggleAll \/ Clear
  \/ Serve \/ Foreign \/ Succeed \/ Fail

Spec == Init /\ [][Next]_vars

-----------------------------------------------------------------------------

\* What a screen offers for the status that a row has, the server accepts:
\* it is refused only when the row has moved since it was answered.  A bulk
\* action that is offered changes every row it was offered for.
RefusedOnlyIfMoved == ~refused

\* A second click while the first is pending does nothing: the button is
\* disabled, or the server refuses the second, or leaves the same.  What is
\* known to be done twice is in the "repeatable" of its kind in Console.
NeverDoneTwice == ~doubled

-----------------------------------------------------------------------------
(* What the tables of a kind must say for these to hold, of whichever rows   *)
(* and calls, and the invariants that carry it through the races.            *)

Actions(k) == k.bulk \union UNION {k.offers[s] : s \in DOMAIN k.offers}

\* An action leaves a status that the screen knows.
Closed(k) ==
  \A a \in Actions(k) : \A t \in k.does[a] : t[2] \in DOMAIN k.offers \union {"gone"}

\* The server accepts what is offered for a status in that status.
Sound(k) ==
  \A s \in DOMAIN k.offers : \A a \in k.offers[s] \union k.bulkOffers[s] :
    \E t \in k.does[a] : t[1] = s

\* What must not be done twice is refused in the status that it leaves, or is
\* behind one button that is disabled meanwhile.
Refuses(k, a) == \A t, u \in k.does[a] : u[1] # t[2]
Single(k, a)  == a \notin k.open \union k.bulk
Guarded(k)    == \A a \in Actions(k) \ k.repeatable : Refuses(k, a) \/ Single(k, a)

Calls == [act : Actions(kind), n : 1..MaxCalls, bulk : BOOLEAN, rows : SUBSET Rows,
          basis : SUBSET Rows, served : BOOLEAN, again : SUBSET Rows]

TypeOK ==
  /\ kind \in Kinds
  /\ status \in [Rows -> Statuses \union {"gone"}]
  /\ shown \in [Rows -> Statuses \union {"hidden"}]
  /\ selected \subseteq Rows /\ calls \subseteq Calls
  /\ refused \in BOOLEAN /\ doubled \in BOOLEAN

\* Where the status is still that of the offer, the call is still accepted.
OfferInv ==
  /\ ~refused
  /\ \A c \in calls : \A r \in c.basis : r \in c.rows /\ Accepts(c.act, r)

\* What was done again has left the row as the action leaves it, and a single
\* button has one call.
RepeatInv ==
  /\ ~doubled
  /\ \A c \in calls :
       /\ c.bulk => c.act \in kind.bulk
       /\ \A r \in c.again : \E t \in kind.does[c.act] : t[2] = status[r]
       /\ Single(kind, c.act) => c.again = {} /\ \A d \in calls : d.act = c.act => d = c
=============================================================================
