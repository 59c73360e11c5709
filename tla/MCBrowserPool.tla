---------------------------- MODULE MCBrowserPool ----------------------------
(* BrowserPool on small instances; the calls are interchangeable. *)
EXTENDS BrowserPool, TLC

Symmetry == Permutations(Call)
===============================================================================
