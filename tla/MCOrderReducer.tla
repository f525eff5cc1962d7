--------------------------- MODULE MCOrderReducer ---------------------------
(* Every callback sequence over quantities 0..1 and two permanent ids. *)
EXTENDS OrderReducer
MCPermanentIds == {1, 2}
=============================================================================
