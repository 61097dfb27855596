------------------------------- MODULE Screens -------------------------------
(***************************************************************************)
(* The vocabulary in which the browser's screens are described.             *)
(*                                                                          *)
(* A screen is a page or a card of src/frontend/src: the queries it         *)
(* subscribes to and the calls its buttons make.  A form is a dialog or a   *)
(* page of inputs.  A table is a list with its filters, its pages and its   *)
(* selection.  An offer is the set of actions a row or a page shows for an  *)
(* item in a status.  The modules of screens (BillingScreens, ...) describe *)
(* each of them once, in these terms; the modules QueryCache, Forms and     *)
(* Tables say how they behave.                                              *)
(***************************************************************************)
EXTENDS Integers, Sequences

-----------------------------------------------------------------------------
(* Queries: useQuery({ queryKey, queryFn, enabled, staleTime }).  A key is   *)
(* the sequence of the constant parts of queryKey: the page, the filters and *)
(* the identifiers in it only tell instances of one query apart.             *)

\* freshness is how a query is kept up to date besides by its invalidations:
\* the "default" refetches it at every mount and focus; "kept" is a staleTime
\* of its own, "polled" a refetchInterval.
Query(key, reads) ==
  [key |-> key, reads |-> reads, freshness |-> "default", always |-> TRUE]

\* A query with "enabled": asked only while its dialog, row or tab is open
\* or once what it depends on has been answered.
While(query) == [query EXCEPT !.always = FALSE]

Kept(query)   == [query EXCEPT !.freshness = "kept"]
Polled(query) == [query EXCEPT !.freshness = "polled"]

-----------------------------------------------------------------------------
(* Calls: useMutation({ mutationFn, onSuccess }) and the button that runs    *)
(* it.  refreshes is the set of the keys its success invalidates.            *)

\* What can be said of a call, its traits:
\*   "row"    its button is shown on an item that a query has answered;
\*   "open"   the button is not disabled while the call is pending;
\*   "leaves" its success navigates to another screen.
Call(writes, refreshes, traits) ==
  [writes |-> writes, refreshes |-> refreshes, traits |-> traits]

Screen(queries, calls) == [queries |-> queries, calls |-> calls]

\* A screen that shows and never writes.
NoCalls == [call \in {} |-> Call({}, {}, {})]
NoQueries == [query \in {} |-> Query(<<>>, {})]

\* invalidateQueries takes every query whose key starts with the given one.
IsPrefixOf(short, long) ==
  /\ Len(short) <= Len(long)
  /\ \A i \in 1..Len(short) : short[i] = long[i]

Refreshes(call, query) == \E k \in call.refreshes : IsPrefixOf(k, query.key)
Affects(call, query) == call.writes \cap query.reads # {}

-----------------------------------------------------------------------------
(* Forms.                                                                    *)

\*   about   what it is opened for: "new", a "row" of a list, or the one
\*           "item" of its page;
\*   edits   whether an opening for an item starts from the item's values;
\*   seeds   when its inputs take their starting values: once, at the "mount"
\*           of the page that holds the dialog; with the "first" answer about
\*           the item of its page, or as a "page" of its own which does the
\*           same; at each change of its React "key"; at each "opening" (a
\*           handler or an effect sets them, or the opening mounts them);
\*   clears  the ends of an opening that also empty the inputs: "escape" (the
\*           dialog dismissed), "cancel" (its button) and "success";
\*   closes  whether it closes at the "click", at the "answer" or "never";
\*   guarded whether submitting is disabled while a submission is pending.
Form(about, edits, seeds, clears, closes, guarded) ==
  [about |-> about, edits |-> edits, seeds |-> seeds, clears |-> clears,
   closes |-> closes, guarded |-> guarded]

\* A confirmation has no inputs and is closed by the click that confirms it:
\* AlertDialogAction closes its dialog and is not disabled meanwhile.
Confirmation == Form({"row"}, FALSE, "opening", {}, "click", FALSE)

-----------------------------------------------------------------------------
(* Tables.                                                                   *)

\*   server   the filters sent with the query and part of its key;
\*   client   the filters applied to the rows of the answered page;
\*   resets   the controls whose change goes back to the first page;
\*   total    what the server tells with a page: "all" counts the rows
\*            whatever the filters, "more" also rows that are never listed,
\*            "none" is missing, and "whole" is a list that has no pages;
\*   bar      whether the pages can be chosen "always" or below its "rows";
Table(server, client, resets, total) ==
  [server |-> server, client |-> client, resets |-> resets, total |-> total,
   bar |-> "always"]

\* A list that is fetched whole (or up to the server's limit) and shown whole.
WholeList(client) == Table({}, client, {}, "whole")
=============================================================================
