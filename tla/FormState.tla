------------------------------- MODULE FormState -------------------------------
(***************************************************************************)
(* A form on its page: its state, and what its user may rely on.  Forms    *)
(* says how the state changes.                                             *)
(***************************************************************************)
EXTENDS Naturals

CONSTANTS
  FormSubjects,  \* the forms looked at: see FormSubject in Console
  Items,         \* rows of the list
  None,          \* no item
  New,           \* an item that is being created
  MaxVersion,    \* bound: the version that an item reaches
  MaxOpenings    \* bound: how often the form is opened

ItemsApart == None \notin Items /\ New \notin Items /\ None # New
ASSUME ItemsAssumption == ItemsApart

\* What the code of a form has to say for each of the properties below, by
\* itself.
\*   of its item:  an edit starts from its item at each opening, and no call
\*                 of an earlier opening empties the inputs of this one;
\*   of its save:  it also refreshes the list that the next opening reads;
\*   of leftovers: each opening sets the inputs, or there is but one thing to
\*                 open the form for; then a new one is emptied once created.
StartsFromItem(f) ==
  f.edits /\ ~f.elsewhere =>
    /\ f.seeds \in {"page", "key", "opening", "first"}
    /\ f.closes # "answer" => "success" \notin f.clears /\ f.seeds # "key"
    /\ f.seeds = "first" => f.about = {"item"} /\ f.clears = {}

RefreshesItem(f) ==
  f.edits /\ ~f.elsewhere /\ ~f.cached => f.refreshed /\ f.seeds \in {"opening", "key"}

StartsAfresh(f) ==
  \/ f.seeds = "page" /\ f.closes \in {"answer", "never"}
  \/ f.seeds = "opening" /\ (f.closes \in {"answer", "never"} \/ "new" \notin f.about)
  \/ f.seeds \in {"mount", "first"} /\ f.about = {"item"}
  \/ /\ f.seeds = "mount" /\ f.about = {"new"}
     /\ f.closes = "never" \/ "success" \in f.clears

Targets == Items \union {New}

VARIABLES
  form,      \* the form
  saved,     \* version of each item on the server
  listed,    \* version of each item in the cache, 0 before the first answer
  told,      \* the last version that the user was told to have saved
  fetching,  \* the items are being asked for
  page,      \* the page is on the screen
  item,      \* the item the page is about, or None
  target,    \* what the form is open for, or None
  opening,   \* number of the last opening
  floor,     \* version that this opening starts from at least
  inputs,    \* what the inputs hold
  subs,      \* submissions under way
  busy       \* a submission of this mount is pending

-----------------------------------------------------------------------------
\* What was typed for one item is not there when the form is opened for
\* another one, and what has been created is not offered for creation again
\* (the dialogs' useState, their keys, effects and handlers).  The forms that
\* do keep their inputs are listed in Console.
NoLeftovers ==
  target # None /\ ~form.keeps =>
    /\ inputs.typed \in {None, target}
    /\ target = New => ~inputs.sent

\* A form that edits an item holds values that started from that item, so
\* that saving it does not overwrite the item with blanks or with another
\* one's values.  The forms seeded before their item is known are listed in
\* Console.
EditsTheRow ==
  target \in Items /\ form.edits /\ ~form.elsewhere => inputs.of = target

\* A user's own change is not undone by editing the item again: unless the
\* page is still asking, the form starts from values that contain it.  The
\* forms seeded once from the cache are listed in Console.
StartsFromOwn ==
  target \in Items /\ form.edits /\ ~form.elsewhere /\ ~form.cached => inputs.at >= floor

================================================================================
