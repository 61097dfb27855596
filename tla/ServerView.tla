------------------------------ MODULE ServerView ------------------------------
(***************************************************************************)
(* What a screen may rely on: a view of the server's rows that can lag      *)
(* behind but never shows what was not written, and never goes back to an   *)
(* older version than the one it showed, unless it was dropped in between.  *)
(***************************************************************************)
EXTENDS Naturals

VARIABLES
  written,   \* the version of the rows
  seen       \* the version shown, 0 when nothing is

Init == written = 1 /\ seen = 0

Write == written' = written + 1 /\ seen' = seen

Look == written' = written /\ seen' >= seen /\ seen' <= written

Drop == written' = written /\ seen' = 0

Next == Write \/ Look \/ Drop

Spec == Init /\ [][Next]_<<written, seen>>
=============================================================================
