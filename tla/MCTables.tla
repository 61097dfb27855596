------------------------------- MODULE MCTables -------------------------------
\* The lists of the console, of three rows and pages of one or two.
EXTENDS Console, Tables

MCRows  == 1..3
MCSizes == 1..2
=============================================================================
