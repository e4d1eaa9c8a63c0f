---------------------------- MODULE MCBrowserAuth ----------------------------
EXTENDS BrowserAuth, TLC

Symmetry == Permutations(Values) \cup Permutations(Tickets) \cup Permutations(Gateways)
==============================================================================
