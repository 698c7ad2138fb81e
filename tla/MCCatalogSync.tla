---------------------------- MODULE MCCatalogSync ----------------------------
(* CatalogSync on a small instance; see the cfg files.                     *)
EXTENDS CatalogSync

MCOwnerOf == [s \in Streams |-> "u1"]
=============================================================================
