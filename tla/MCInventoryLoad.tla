-------------------------- MODULE MCInventoryLoad --------------------------
(* Values for the model checker.  JsonPackageCatalog::list() returns three *)
(* of the five errors of its port; a catalog of another kind may return    *)
(* any of them.                                                            *)
EXTENDS InventoryLoad

JsonErrors == {"IoError", "InvalidFormat", "UnsupportedSchemaVersion"}
AllErrors == PortErrors
SomeErrors == {"IoError", "AlreadyExists"}
=============================================================================
