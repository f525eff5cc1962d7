------------------------ MODULE MCEntryAuthorization ------------------------
(* Two runs on two contracts, which may change places together.             *)
EXTENDS EntryAuthorization, TLC

CONSTANTS r1, r2, c1, c2

TwoContracts == r1 :> c1 @@ r2 :> c2
Swapped      == {r1 :> r2 @@ r2 :> r1 @@ c1 :> c2 @@ c2 :> c1}
=============================================================================
