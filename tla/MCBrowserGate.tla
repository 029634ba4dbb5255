--------------------------- MODULE MCBrowserGate ---------------------------
EXTENDS BrowserGate, TLC

CONSTANTS a, b, p, q

Symmetric == Permutations(Tab) \cup Permutations(Account)
=============================================================================
