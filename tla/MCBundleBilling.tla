---------------------------- MODULE MCBundleBilling ----------------------------
(***************************************************************************)
(* Small instances of BundleBilling.  No package is installed: what the    *)
(* installations add is checked by MCBundleInstallations.                  *)
(***************************************************************************)
EXTENDS BundleBilling, TLC

CONSTANTS r1, r2, c1, i1, none

MCRequests == {r1, r2}

\* Checkout handlers are interchangeable: no property names one.
MCSymmetry == Permutations(MCRequests)
===============================================================================
