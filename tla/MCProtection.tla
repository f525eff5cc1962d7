---------------------------- MODULE MCProtection ----------------------------
(* Small instances of Protection: two shares, one or two later orders.     *)
EXTENDS Protection, TLC

CONSTANTS x1, x2

\* Later orders differ only in their name.
Swapped == Permutations(Later)
=============================================================================
