----------------------------- MODULE MCAccounts -----------------------------
(* The instances of Accounts that TLC checks (accounts.cfg and the         *)
(* account_*.cfg files).                                                   *)
EXTENDS Accounts, TLC

\* Every username has a personal namespace of its own, or all but one share
\* theirs (no symmetry then).
Distinct == [u \in Users |-> u]
Clashing == LET first == CHOOSE u \in Users : TRUE
            IN  [u \in Users |-> IF u = first THEN "own" ELSE "shared"]

AllOps == {"login", "logout", "update", "profile", "oidc", "create", "delete"}

\* Nothing tells two accounts, or two requests, apart.
Symmetry == Permutations(Users) \cup Permutations(Calls)

=============================================================================
