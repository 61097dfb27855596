------------------------------- MODULE MCForms -------------------------------
\* The forms of the console and the portal, on a list of two items.
EXTENDS Console, Forms
=============================================================================
