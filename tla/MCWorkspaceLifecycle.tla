------------------------ MODULE MCWorkspaceLifecycle ------------------------
(* WorkspaceLifecycle on small instances; see the cfg files.               *)
EXTENDS WorkspaceLifecycle

\* No schedule at all.
MCNone == [uptime |-> <<>>, downtime |-> <<>>]

\* Stop at 2, start at 4, and so on with a period of four.
MCDaily == [uptime |-> <<{4, 8, 12}>>, downtime |-> <<{2, 6, 10}>>]
=============================================================================
