--------------------------- MODULE MCBrowserTabs ---------------------------
(* BrowserTabs for TLC: tabs and accounts are interchangeable. *)
EXTENDS BrowserTabs, TLC
Symmetry == Permutations(Tab) \cup Permutations(Account)
=============================================================================
