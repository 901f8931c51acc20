--------------------------- MODULE MCSupersession ---------------------------
EXTENDS Supersession

\* One GitRepo polls at first; the other polls, has a webhook or is still to come.  One
\* whose webhook is left to the user is created, or becomes so by an edit.
MCInit == Init /\ Polls("g1") /\ ~InMode("g2", "manual")

MCSpec == MCInit /\ [][Next]_vars
MCFairSpec == MCSpec /\ Fairness

\* For what is promised of a repository that can be reached.
MCReachedInit == MCInit /\ validURL
MCReachedSpec == MCReachedInit /\ [][Next]_vars /\ Fairness
=============================================================================
