------------------------------- MODULE MCOffers -------------------------------
\* What the screens of the console and the portal offer for two rows.
EXTENDS Console, Offers

RowsAlike == Permutations(Rows)
=============================================================================
