----------------------------- MODULE MCQueryCache -----------------------------
\* The cache with every pair of a call and a query of the console's screens.
EXTENDS Console, QueryCache
=============================================================================
