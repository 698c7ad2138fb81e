---------------------------- MODULE MCHomeVolume ----------------------------
(* HomeVolume on small instances; see the cfg files.                       *)
EXTENDS HomeVolume

\* Everything belongs to one user, or the third workspace to another.
MCOneOwner == [w \in Ws |-> "alice"]

MCTwoOwners == [w \in Ws |-> IF w = "w3" THEN "bob" ELSE "alice"]

\* All the workspaces would use the same derived name, or the first one
\* has a name of its own.
MCSameName == [w \in Ws |-> "v1"]

MCTwoNames == [w \in Ws |-> IF w = "w1" THEN "v1" ELSE "v2"]

MCOwnNames == [w \in Ws |-> CASE w = "w1" -> "v1" [] w = "w2" -> "v2" [] OTHER -> "v3"]
=============================================================================
