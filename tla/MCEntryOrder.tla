---------------------------- MODULE MCEntryOrder ----------------------------
(* A locally monitored stock entry; the configurations differ              *)
(* differ in the bounds and in the properties.                              *)
EXTENDS EntryOrder
=============================================================================
