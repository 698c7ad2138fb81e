---------------------------- MODULE MCGovernance ----------------------------
(* Governance on small instances; see the cfg files.                       *)
EXTENDS Governance

\* The first workspace is twice as large as the others, by its limit; the
\* second has a request, the third takes the image's default.
MCResources ==
  [w \in Ws |-> CASE w = "w1" -> [limit |-> 2, request |-> 1]
                  [] w = "w2" -> [limit |-> Unset, request |-> 1]
                  [] OTHER -> [limit |-> Unset, request |-> Unset]]

\* The second has the larger home; the volume kept from before is as large.
MCHome == [w \in Ws |-> IF w = "w2" THEN 2 ELSE 1]

MCKeptSize == [v \in Kept |-> 2]

\* One at a time; or both workspaces, but not both beside the kept volume.
MCPolicies ==
  {[workspaces |-> 3, running |-> 1, cpu |-> 2, storage |-> 3],
   [workspaces |-> 3, running |-> 2, cpu |-> 3, storage |-> 4]}

MCOneRunning ==
  {[workspaces |-> 3, running |-> 1, cpu |-> Unlimited, storage |-> Unlimited]}

MCTwoStored ==
  {[workspaces |-> Unlimited, running |-> Unlimited, cpu |-> Unlimited, storage |-> 2]}

MCThreeStored ==
  {[workspaces |-> Unlimited, running |-> Unlimited, cpu |-> Unlimited, storage |-> 3]}
=============================================================================
