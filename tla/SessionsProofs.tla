--------------------------- MODULE SessionsProofs ---------------------------
(***************************************************************************)
(* Proofs about Sessions, for any number of targets, sessions, requests    *)
(* and faults: a remote entry has its Secret; a session ends once, by the  *)
(* sweeper only when its target is gone; a resume is not undone by a sweep *)
(* already running; a session forgotten by wwt is never cached again; the  *)
(* types.                                                                  *)
(***************************************************************************)
EXTENDS Sessions, TLAPS

\* What the argument needs of the types.
Shape ==
    /\ ws \in [Workspaces -> [st : {"new", "live", "terminating", "gone"}, running : BOOLEAN, paused : BOOLEAN]]
    /\ rem \in [Remotes -> {"new", "creating", "live", "gone"}]
    /\ ending \in [Targets -> {None, "secret", "sessions"}]
    /\ row \in [Sids -> [st : {"none", "open", "ended"}, target : Targets \cup {None}, kasm : BOOLEAN,
                         by : {None, "proxy", "delete", "sweeper"}]]
    /\ call \in [Sids -> Targets \cup {None}]
    /\ sweep \in [pc : 1..3, open : SUBSET Sids, live : SUBSET Workspaces]

\* Delete takes the Secret only after the row.
SecretsHeld ==
    \A r \in Remotes :
        /\ rem[r] \in {"creating", "live"} => r \in secret
        /\ ending[r] = "secret" => rem[r] = "gone"

\* The target exists or has existed: sessions are opened on such targets only.
Known(x) == IF x \in Workspaces THEN ws[x].st # "new" ELSE rem[x] \in {"live", "gone"}

RowsKnown ==
    \A s \in Sids : /\ row[s].st # "none" => row[s].target \in Targets /\ Known(row[s].target)
                    /\ row[s].st # "ended" => row[s].by = None

CallsKnown == \A s \in Sids : call[s] # None => row[s].st = "none" /\ Known(call[s])

\* A workspace the sweeper did not find, though a session it had read before
\* is on it, is gone.
SweepKnows ==
    \A s \in sweep.open :
        /\ row[s].st # "none"
        /\ sweep.pc = 3 /\ row[s].target \in Workspaces \ sweep.live => Gone(row[s].target)

\* The inductive invariant.
IInv == Shape /\ SecretsHeld /\ RowsKnown /\ CallsKnown /\ SweepKnows

\* It holds of an empty database.
LEMMA InitIInv == Init => IInv
  BY DEF Init, IInv, Shape, SecretsHeld, RowsKnown, CallsKnown, SweepKnows, Targets, None

-----------------------------------------------------------------------------
\* Targets only move forward: none is forgotten, and what is gone stays gone.
Forward == \A x \in Targets : (Known(x) => Known(x)') /\ (Gone(x) => Gone(x)')

\* A step of the targets alone, when they move forward.
LEMMA TargetStep ==
  ASSUME IInv, Shape', SecretsHeld', Forward, UNCHANGED <<row, call, sweep>>
  PROVE  IInv'
<1>1. RowsKnown'
  BY DEF IInv, RowsKnown, Forward
<1>2. CallsKnown'
  BY DEF IInv, Shape, CallsKnown, Forward
<1>3. SweepKnows'
  BY DEF IInv, Shape, RowsKnown, SweepKnows, Forward, Targets
<1>4. QED
  BY <1>1, <1>2, <1>3 DEF IInv

\* The workspaces move forward.
LEMMA WorkspaceForward ==
  ASSUME IInv, NEW w \in Workspaces, NEW v,
         v \in [st : {"new", "live", "terminating", "gone"}, running : BOOLEAN, paused : BOOLEAN],
         ws[w].st # "new" => v.st # "new", ws[w].st = "gone" => v.st = "gone",
         ws' = [ws EXCEPT ![w] = v], ending' \in [Targets -> {None, "secret", "sessions"}],
         \A r \in Remotes : ending'[r] = "secret" => ending[r] = "secret",
         UNCHANGED <<rem, secret, row, call, sweep>>
  PROVE  IInv'
<1>1. Shape'
  BY DEF IInv, Shape
<1>2. SecretsHeld'
  BY DEF IInv, SecretsHeld
<1>3. Forward
  BY DEF IInv, Shape, Forward, Known, Gone
<1>4. QED
  BY <1>1, <1>2, <1>3, TargetStep

\* The registry moves forward.
LEMMA RemoteForward ==
  ASSUME IInv, NEW r \in Remotes, NEW v \in {"new", "creating", "live", "gone"},
         rem[r] \in {"live", "gone"} => v \in {"live", "gone"}, rem[r] = "gone" => v = "gone",
         rem' = [rem EXCEPT ![r] = v], ending' \in [Targets -> {None, "secret", "sessions"}],
         SecretsHeld', UNCHANGED <<ws, row, call, sweep>>
  PROVE  IInv'
<1>1. Shape'
  BY DEF IInv, Shape
<1>2. Forward
  BY DEF IInv, Shape, Forward, Known, Gone, Targets
<1>3. QED
  BY <1>1, <1>2, TargetStep

\* Rows are ended, by others than the sweeper or for targets that are gone.
LEMMA EndStep ==
  ASSUME IInv, NEW S, NEW by \in {"proxy", "delete", "sweeper"}, End(S, by),
         UNCHANGED <<ws, rem, secret, call>>, ending' \in [Targets -> {None, "secret", "sessions"}],
         \A r \in Remotes : ending'[r] = "secret" => ending[r] = "secret",
         sweep' \in [pc : 1..3, open : SUBSET Sids, live : SUBSET Workspaces],
         sweep'.open \subseteq sweep.open, sweep'.pc = 3 => sweep.pc = 3 /\ sweep'.live = sweep.live
  PROVE  /\ IInv'
         /\ \A s \in Sids : row[s].st = "ended" => row'[s] = row[s]
         /\ \A s \in Sids : Open(s) /\ row'[s].by = "sweeper" => by = "sweeper" /\ s \in S
<1> DEFINE Rows == [st : {"none", "open", "ended"}, target : Targets \cup {None}, kasm : BOOLEAN,
                    by : {None, "proxy", "delete", "sweeper"}]
<1>1. ASSUME NEW s \in Sids
      PROVE  /\ row'[s] \in Rows
             /\ row'[s].target = row[s].target
             /\ row'[s] = row[s] \/ (Open(s) /\ row'[s].st = "ended" /\ s \in S /\ row'[s].by = by)
  <2>1. row[s] \in Rows
    BY DEF IInv, Shape
  <2>2. row'[s] = IF s \in S /\ Open(s) THEN [[row[s] EXCEPT !.st = "ended"] EXCEPT !.by = by] ELSE row[s]
    BY DEF End, EndRow
  <2>3. DEFINE r1 == [row[s] EXCEPT !.st = "ended"]
               r2 == [r1 EXCEPT !.by = by]
  <2>4. r1 \in Rows /\ r1.st = "ended" /\ r1.target = row[s].target
    BY <2>1
  <2> HIDE DEF r1
  <2>5. r2 \in Rows /\ r2.st = "ended" /\ r2.target = row[s].target /\ r2.by = by
    BY <2>4
  <2>6. row'[s] = IF s \in S /\ Open(s) THEN r2 ELSE row[s]
    BY <2>2 DEF r1
  <2> HIDE DEF r2, Rows
  <2>7. QED
    BY <2>1, <2>5, <2>6
<1>2. row' \in [Sids -> Rows]
  BY <1>1 DEF End
<1>3. Shape'
  BY <1>2 DEF IInv, Shape
<1> HIDE DEF Rows
<1>4. SecretsHeld'
  BY DEF IInv, SecretsHeld
<1>5. \A s \in Sids : (row'[s].st = "none" <=> row[s].st = "none") /\ row'[s].target = row[s].target
  BY <1>1 DEF Open
<1>6. RowsKnown'
  <2>1. \A x : Known(x)' = Known(x)
    BY DEF Known
  <2>2. \A s \in Sids : row'[s].st # "ended" => row'[s].by = None
    BY <1>1 DEF IInv, RowsKnown, Open
  <2>3. QED
    BY <1>5, <2>1, <2>2 DEF IInv, RowsKnown
<1>7. CallsKnown'
  BY <1>5 DEF IInv, CallsKnown, Known
<1>8. SweepKnows'
  <2>1. \A s \in sweep'.open : s \in Sids /\ s \in sweep.open
    BY DEF IInv, Shape
  <2>2. \A x : Gone(x)' = Gone(x)
    BY DEF Gone
  <2>3. QED
    BY <1>5, <2>1, <2>2 DEF IInv, SweepKnows
<1>9. \A s \in Sids : Open(s) => row[s].by = None /\ row[s].st # "ended"
  BY DEF IInv, RowsKnown, Open
<1>10. QED
  BY <1>1, <1>3, <1>4, <1>6, <1>7, <1>8, <1>9 DEF IInv, None

-----------------------------------------------------------------------------
\* What EndsRightly says of a step.
RightEnds ==
    \A s \in Sids : /\ row[s].st = "ended" => row'[s] = row[s]
                    /\ Open(s) /\ row'[s].by = "sweeper" => Gone(row[s].target)

\* A step that ends no row ends none wrongly.
LEMMA RowsKept == ASSUME IInv, UNCHANGED row PROVE RightEnds
  BY DEF IInv, RowsKnown, RightEnds, Open, None

\* A step that touches nothing the invariant speaks of preserves it.
LEMMA Elsewhere == ASSUME IInv, UNCHANGED <<ws, rem, secret, ending, row, call, sweep>> PROVE IInv'
<1>1. Shape' /\ SecretsHeld' /\ Forward
  BY DEF IInv, Shape, SecretsHeld, Forward, Known, Gone
<1>2. QED
  BY <1>1, TargetStep

\* The workspace's own actions.
LEMMA WorkspaceSteps ==
  ASSUME IInv, NEW w \in Workspaces,
         \/ CreateWorkspace(w) \/ OperatorReports(w) \/ Finalize(w) \/ KubectlDelete(w)
         \/ DeleteWorkspace(w) \/ PauseWorkspace(w) \/ ResumeWorkspace(w) \/ IdlePause(w)
  PROVE  IInv' /\ UNCHANGED row
<1> DEFINE W == [st : {"new", "live", "terminating", "gone"}, running : BOOLEAN, paused : BOOLEAN]
<1>1. ws[w] \in W /\ ending \in [Targets -> {None, "secret", "sessions"}]
  BY DEF IInv, Shape
<1>2. \A x \in {"live", "terminating"} : [ws[w] EXCEPT !.st = x] \in W /\ [ws[w] EXCEPT !.st = x].st = x
  BY <1>1
<1>3. \A b \in BOOLEAN : /\ [ws[w] EXCEPT !.running = b] \in W
                         /\ [ws[w] EXCEPT !.running = b].st = ws[w].st
                         /\ [ws[w] EXCEPT !.paused = b] \in W
                         /\ [ws[w] EXCEPT !.paused = b].st = ws[w].st
  BY <1>1
<1>4. CASE CreateWorkspace(w)
  <2>1. ws' = [ws EXCEPT ![w] = [ws[w] EXCEPT !.st = "live"]] /\ ws[w].st = "new"
    BY <1>4 DEF CreateWorkspace
  <2>2. UNCHANGED <<rem, secret, row, call, sweep, ending>>
    BY <1>4 DEF CreateWorkspace, registry, sweepers
  <2>3. QED
    BY <1>1, <1>2, <2>1, <2>2, WorkspaceForward
<1>5. CASE OperatorReports(w)
  <2>1. PICK b \in BOOLEAN : ws' = [ws EXCEPT ![w] = [ws[w] EXCEPT !.running = b]]
    BY <1>1, <1>5 DEF OperatorReports
  <2>2. UNCHANGED <<rem, secret, row, call, sweep, ending>>
    BY <1>5 DEF OperatorReports, registry
  <2>3. QED
    BY <1>1, <1>3, <2>1, <2>2, WorkspaceForward
<1>6. CASE Finalize(w)
  <2> DEFINE v == [st |-> "gone", running |-> FALSE, paused |-> FALSE]
  <2>1. ws' = [ws EXCEPT ![w] = v] /\ v \in W /\ v.st = "gone"
    BY <1>6 DEF Finalize
  <2>2. UNCHANGED <<rem, secret, row, call, sweep, ending>>
    BY <1>6 DEF Finalize, registry
  <2> HIDE DEF v
  <2>3. QED
    BY <1>1, <2>1, <2>2, WorkspaceForward
<1>7. CASE KubectlDelete(w)
  <2>1. ws' = [ws EXCEPT ![w] = [ws[w] EXCEPT !.st = "terminating"]] /\ ws[w].st = "live"
    BY <1>7 DEF KubectlDelete
  <2>2. UNCHANGED <<rem, secret, row, call, sweep, ending>>
    BY <1>7 DEF KubectlDelete, registry
  <2>3. QED
    BY <1>1, <1>2, <2>1, <2>2, WorkspaceForward
<1>8. CASE DeleteWorkspace(w)
  <2>1. ws' = [ws EXCEPT ![w] = [ws[w] EXCEPT !.st = "terminating"]] /\ ws[w].st = "live"
    BY <1>8 DEF DeleteWorkspace
  <2>2. ending' \in [Targets -> {None, "secret", "sessions"}] /\ \A r \in Remotes : ending'[r] = ending[r]
    BY <1>1, <1>8, SessionsAssumption DEF DeleteWorkspace, Targets
  <2>3. UNCHANGED <<rem, secret, row, call, sweep>>
    BY <1>8 DEF DeleteWorkspace, registry
  <2>4. QED
    BY <1>1, <1>2, <2>1, <2>2, <2>3, WorkspaceForward
<1>9. CASE PauseWorkspace(w) \/ ResumeWorkspace(w) \/ IdlePause(w)
  <2>1. PICK b \in BOOLEAN : ws' = [ws EXCEPT ![w] = [ws[w] EXCEPT !.paused = b]]
    BY <1>1, <1>9 DEF PauseWorkspace, ResumeWorkspace, IdlePause
  <2>2. UNCHANGED <<rem, secret, row, call, sweep, ending>>
    BY <1>9 DEF PauseWorkspace, ResumeWorkspace, IdlePause, registry
  <2>3. QED
    BY <1>1, <1>3, <2>1, <2>2, WorkspaceForward
<1>10. QED
  BY <1>4, <1>5, <1>6, <1>7, <1>8, <1>9

\* The registry's actions.
LEMMA RemoteSteps ==
  ASSUME IInv, NEW r \in Remotes,
         \/ CreateRemoteSecret(r) \/ CreateRemoteRow(r) \/ CreateRemoteFails(r)
         \/ UpdateRemoteFetch(r) \/ UpdateRemoteSecret(r) \/ UpdateRemoteRow(r)
         \/ DeleteRemoteRow(r) \/ DeleteRemoteSecret(r) \/ DeleteRemoteSecretFails(r)
  PROVE  IInv' /\ UNCHANGED row
<1>1. /\ rem \in [Remotes -> {"new", "creating", "live", "gone"}]
      /\ ending \in [Targets -> {None, "secret", "sessions"}] /\ r \in Targets
  BY DEF IInv, Shape, Targets
<1>2. CASE CreateRemoteSecret(r)
  <2>1. SecretsHeld'
    BY <1>1, <1>2 DEF CreateRemoteSecret, IInv, SecretsHeld
  <2>2. QED
    BY <1>1, <1>2, <2>1, RemoteForward DEF CreateRemoteSecret, sweepers
<1>3. CASE CreateRemoteRow(r)
  <2>1. SecretsHeld'
    BY <1>1, <1>3 DEF CreateRemoteRow, IInv, SecretsHeld
  <2>2. QED
    BY <1>1, <1>3, <2>1, RemoteForward DEF CreateRemoteRow, sweepers
<1>4. CASE CreateRemoteFails(r)
  <2>1. SecretsHeld'
    BY <1>1, <1>4 DEF CreateRemoteFails, IInv, SecretsHeld
  <2>2. QED
    BY <1>1, <1>4, <2>1, RemoteForward DEF CreateRemoteFails, sweepers
<1>5. CASE UpdateRemoteFetch(r) \/ UpdateRemoteRow(r)
  BY <1>5, Elsewhere DEF UpdateRemoteFetch, UpdateRemoteRow, sweepers
<1>6. CASE UpdateRemoteSecret(r)
  <2>1. SecretsHeld' /\ Shape' /\ Forward
    BY <1>6 DEF UpdateRemoteSecret, IInv, SecretsHeld, Shape, Forward, Known, Gone, sweepers
  <2>2. QED
    BY <1>6, <2>1, TargetStep DEF UpdateRemoteSecret, sweepers
<1>7. CASE DeleteRemoteRow(r)
  <2>1. SecretsHeld'
    BY <1>1, <1>7 DEF DeleteRemoteRow, IInv, SecretsHeld, Targets
  <2>2. ending' \in [Targets -> {None, "secret", "sessions"}]
    BY <1>1, <1>7 DEF DeleteRemoteRow
  <2>3. QED
    BY <1>1, <1>7, <2>1, <2>2, RemoteForward DEF DeleteRemoteRow, sweepers
<1>8. CASE DeleteRemoteSecret(r) \/ DeleteRemoteSecretFails(r)
  <2>1. /\ ending' \in [Targets -> {None, "secret", "sessions"}] /\ UNCHANGED <<ws, rem, row, call, sweep>>
        /\ ending[r] = "secret" /\ secret \ {r} \subseteq secret'
        /\ \A q \in Remotes : ending'[q] = "secret" => ending[q] = "secret"
    BY <1>1, <1>8 DEF DeleteRemoteSecret, DeleteRemoteSecretFails, registry, sweepers, None, Targets
  <2>2. SecretsHeld'
    BY <2>1 DEF IInv, SecretsHeld
  <2>3. Shape' /\ Forward
    BY <2>1 DEF IInv, Shape, Forward, Known, Gone
  <2>4. QED
    BY <2>1, <2>2, <2>3, TargetStep
<1>9. QED
  BY <1>2, <1>3, <1>4, <1>5, <1>6, <1>7, <1>8

\* Connect: a target that was there is recorded for a session that was not.
LEMMA ConnectSteps ==
  ASSUME IInv, NEW s \in Sids, (\E x \in Targets : ConnectFetch(s, x)) \/ ConnectRecord(s)
  PROVE  IInv' /\ RightEnds
<1>1. CASE \E x \in Targets : ConnectFetch(s, x)
  <2>1. PICK x \in Targets : ConnectFetch(s, x)
    BY <1>1
  <2>2. UNCHANGED <<ws, rem, secret, ending, row, sweep>> /\ call' = [call EXCEPT ![s] = x]
    BY <2>1 DEF ConnectFetch, registry, sweepers
  <2>3. Known(x) /\ row[s].st = "none"
    BY <2>1 DEF ConnectFetch, Known, Exists
  <2>4. Shape'
    BY <2>2 DEF IInv, Shape
  <2>5. SecretsHeld' /\ RowsKnown' /\ SweepKnows'
    BY <2>2 DEF IInv, SecretsHeld, RowsKnown, SweepKnows, Known, Gone
  <2>6. CallsKnown'
    BY <2>2, <2>3 DEF IInv, Shape, CallsKnown, Known
  <2>7. QED
    BY <2>2, <2>4, <2>5, <2>6, RowsKept DEF IInv
<1>2. CASE ConnectRecord(s)
  <2>1. call[s] \in Targets /\ Known(call[s]) /\ row[s].st = "none"
    BY <1>2 DEF ConnectRecord, IInv, Shape, CallsKnown
  <2> DEFINE Row(k) == [st |-> "open", target |-> call[s], kasm |-> k, by |-> None]
  <2>2. PICK k \in BOOLEAN : row' = [row EXCEPT ![s] = Row(k)]
    BY <1>2 DEF ConnectRecord, Protocols
  <2>3. UNCHANGED <<ws, rem, secret, ending, sweep>> /\ call' = [call EXCEPT ![s] = None]
    BY <1>2 DEF ConnectRecord, registry, sweepers
  <2>4. /\ Row(k) \in [st : {"none", "open", "ended"}, target : Targets \cup {None}, kasm : BOOLEAN,
                       by : {None, "proxy", "delete", "sweeper"}]
        /\ Row(k).st = "open" /\ Row(k).target = call[s] /\ Row(k).by = None
    BY <2>1
  <2> HIDE DEF Row
  <2>5. row'[s] = Row(k) /\ \A z \in Sids \ {s} : row'[z] = row[z]
    BY <2>2 DEF IInv, Shape
  <2>6. Shape'
    BY <2>2, <2>3, <2>4 DEF IInv, Shape
  <2>7. SecretsHeld'
    BY <2>3 DEF IInv, SecretsHeld
  <2>8. RowsKnown'
    BY <2>1, <2>3, <2>4, <2>5 DEF IInv, RowsKnown, Known
  <2>9. CallsKnown'
    BY <2>3, <2>5 DEF IInv, Shape, CallsKnown, Known
  <2>10. SweepKnows'
    <3>1. s \notin sweep.open /\ sweep.open \subseteq Sids
      BY <2>1 DEF IInv, Shape, SweepKnows
    <3>2. QED
      BY <2>3, <2>5, <3>1 DEF IInv, SweepKnows, Gone
  <2>11. RightEnds
    BY <2>1, <2>5 DEF IInv, RowsKnown, RightEnds, Open, None
  <2>12. QED
    BY <2>6, <2>7, <2>8, <2>9, <2>10, <2>11 DEF IInv
<1>3. QED
  BY <1>1, <1>2

\* The Delete's clean-up and the proxy's callback end rows.
LEMMA EndingSteps ==
  ASSUME IInv,
         \/ \E x \in Targets : EndAllForWorkspace(x) \/ EndAllFails(x)
         \/ \E t \in Tunnels : EndSession(t)
  PROVE  IInv' /\ RightEnds
<1>1. ending \in [Targets -> {None, "secret", "sessions"}] /\ Remotes \subseteq Targets
      /\ sweep \in [pc : 1..3, open : SUBSET Sids, live : SUBSET Workspaces]
  BY DEF IInv, Shape, Targets
<1>2. ASSUME NEW x \in Targets, EndAllForWorkspace(x) PROVE IInv' /\ RightEnds
  <2>1. /\ ending' \in [Targets -> {None, "secret", "sessions"}]
        /\ \A r \in Remotes : ending'[r] = "secret" => ending[r] = "secret"
    BY <1>1, <1>2 DEF EndAllForWorkspace, None
  <2>2. End({s \in Sids : row[s].target = x}, "delete") /\ UNCHANGED <<ws, rem, secret, call, sweep>>
    BY <1>2 DEF EndAllForWorkspace, registry, sweepers
  <2>3. QED
    BY <1>1, <2>1, <2>2, EndStep DEF RightEnds
<1>3. ASSUME NEW x \in Targets, EndAllFails(x) PROVE IInv' /\ RightEnds
  <2>1. /\ ending' \in [Targets -> {None, "secret", "sessions"}]
        /\ \A r \in Remotes : ending'[r] = "secret" => ending[r] = "secret"
    BY <1>1, <1>3 DEF EndAllFails, None
  <2>2. UNCHANGED <<ws, rem, secret, row, call, sweep>>
    BY <1>3 DEF EndAllFails, registry, sweepers
  <2>3. Shape' /\ SecretsHeld' /\ Forward
    BY <2>1, <2>2 DEF IInv, Shape, SecretsHeld, Forward, Known, Gone
  <2>4. QED
    BY <2>2, <2>3, TargetStep, RowsKept
<1>4. ASSUME NEW t \in Tunnels, EndSession(t) PROVE IInv' /\ RightEnds
  <2>1. End({tun[t].sid}, "proxy") /\ UNCHANGED <<ws, rem, secret, call, ending, sweep>>
    BY <1>4 DEF EndSession, registry, sweepers
  <2>2. QED
    BY <1>1, <2>1, EndStep DEF RightEnds
<1>5. QED
  BY <1>2, <1>3, <1>4

\* The session sweeper: rows first, then the workspaces, so that a target it
\* does not find had been there and is gone.
LEMMA SweeperSteps ==
  ASSUME IInv, SweepRead \/ (\E s \in Sids : SweepOne(s)) \/ SweepAborts
  PROVE  IInv' /\ RightEnds
<1> DEFINE S == [pc : 1..3, open : SUBSET Sids, live : SUBSET Workspaces]
<1>1. sweep \in S
  BY DEF IInv, Shape
<1>2. ASSUME UNCHANGED <<ws, rem, secret, ending, row, call>>, sweep' \in S, SweepKnows' PROVE IInv' /\ RightEnds
  <2>1. Shape' /\ SecretsHeld' /\ RowsKnown' /\ CallsKnown'
    BY <1>2 DEF IInv, Shape, SecretsHeld, RowsKnown, CallsKnown, Known
  <2>2. QED
    BY <1>2, <2>1, RowsKept DEF IInv
<1>3. CASE SweepRead
  <2>1. UNCHANGED <<ws, rem, secret, ending, row, call>> /\ sweep.pc \in {1, 2}
    BY <1>3 DEF SweepRead, registry
  <2>2. CASE sweep.pc = 1
    <3>1. sweep' = [sweep EXCEPT !.pc = IF OpenRows = {} THEN 1 ELSE 2, !.open = OpenRows]
      BY <1>3, <2>2 DEF SweepRead, ReadOrder
    <3>2. OpenRows \subseteq Sids /\ \A s \in OpenRows : row[s].st = "open"
      BY DEF OpenRows, Open
    <3> DEFINE s1 == [sweep EXCEPT !.pc = IF OpenRows = {} THEN 1 ELSE 2]
    <3>3. s1 \in S /\ s1.pc \in {1, 2}
      BY <1>1
    <3>4. sweep' = [s1 EXCEPT !.open = OpenRows]
      BY <3>1
    <3> HIDE DEF s1
    <3>5. sweep' \in S /\ sweep'.pc # 3 /\ sweep'.open = OpenRows
      BY <3>2, <3>3, <3>4
    <3>6. SweepKnows'
      BY <2>1, <3>2, <3>5 DEF SweepKnows
    <3>7. QED
      BY <1>2, <2>1, <3>5, <3>6
  <2>3. CASE sweep.pc = 2
    <3> DEFINE L == {w \in Workspaces : Exists(w)}
               s1 == [sweep EXCEPT !.pc = 3]
    <3>1. s1 \in S /\ s1.open = sweep.open
      BY <1>1
    <3>2. sweep' = [s1 EXCEPT !.live = L]
      BY <1>3, <2>3 DEF SweepRead, ReadOrder
    <3> HIDE DEF s1
    <3>3. sweep' \in S /\ sweep'.open = sweep.open /\ sweep'.live = L
      BY <3>1, <3>2
    <3>4. ASSUME NEW s \in sweep.open, row[s].target \in Workspaces \ L PROVE Gone(row[s].target)
      <4>1. row[s].st # "none" /\ s \in Sids
        BY DEF IInv, Shape, SweepKnows
      <4>2. Known(row[s].target)
        BY <4>1 DEF IInv, RowsKnown
      <4>3. QED
        BY <3>4, <4>2 DEF Known, Exists, Gone, IInv, Shape
    <3>5. SweepKnows'
      BY <2>1, <3>3, <3>4 DEF IInv, SweepKnows, Gone
    <3>6. QED
      BY <1>2, <2>1, <3>3, <3>5
  <2>4. QED
    BY <2>1, <2>2, <2>3
<1>4. CASE SweepAborts
  <2>1. sweep' \in S /\ sweep'.open = {}
    BY <1>4 DEF SweepAborts
  <2>2. UNCHANGED <<ws, rem, secret, ending, row, call>> /\ SweepKnows'
    BY <1>4, <2>1 DEF SweepAborts, registry, SweepKnows
  <2>3. QED
    BY <1>2, <2>1, <2>2
<1>5. ASSUME NEW s \in Sids, SweepOne(s) PROVE IInv' /\ RightEnds
  <2> DEFINE Z == {z \in {s} : Orphaned(z)}
  <2>1. End(Z, "sweeper") /\ UNCHANGED <<ws, rem, secret, call, ending>> /\ sweep.pc = 3 /\ s \in sweep.open
    BY <1>5 DEF SweepOne, registry
  <2>2. /\ sweep' \in S /\ sweep'.open \subseteq sweep.open
        /\ sweep'.pc = 3 => sweep.pc = 3 /\ sweep'.live = sweep.live
    BY <1>1, <1>5 DEF SweepOne
  <2>3. ending' \in [Targets -> {None, "secret", "sessions"}]
    BY <2>1 DEF IInv, Shape
  <2>4. /\ IInv' /\ \A z \in Sids : row[z].st = "ended" => row'[z] = row[z]
        /\ \A z \in Sids : Open(z) /\ row'[z].by = "sweeper" => z \in Z
    BY <2>1, <2>2, <2>3, EndStep
  <2>5. ASSUME Orphaned(s) PROVE Gone(row[s].target)
    <3>1. row[s].st # "none" /\ row[s].target \in Targets /\ Known(row[s].target)
      BY <2>1 DEF IInv, SweepKnows, RowsKnown
    <3>2. CASE row[s].target \in Workspaces
      BY <2>1, <2>5, <3>2 DEF Orphaned, IInv, SweepKnows
    <3>3. CASE row[s].target \notin Workspaces
      BY <2>5, <3>1, <3>3 DEF Orphaned, Known, Gone
    <3>4. QED
      BY <3>2, <3>3
  <2>6. QED
    BY <2>4, <2>5 DEF RightEnds
<1>6. QED
  BY <1>3, <1>4, <1>5

\* Every step preserves the invariant and ends sessions rightly.
LEMMA Step == IInv /\ [Next]_vars => IInv' /\ RightEnds
<1> SUFFICES ASSUME IInv, [Next]_vars PROVE IInv' /\ RightEnds
  OBVIOUS
<1>1. CASE Registry
  BY <1>1, WorkspaceSteps, RemoteSteps, EndingSteps, RowsKept DEF Registry
<1>2. CASE Connect
  <2>1. PICK s \in Sids : (\E x \in Targets : ConnectFetch(s, x)) \/ ConnectRecord(s) \/ TokenExpires(s)
    BY <1>2 DEF Connect
  <2>2. CASE TokenExpires(s)
    BY <2>2, Elsewhere, RowsKept DEF TokenExpires, registry, sweepers
  <2>3. QED
    BY <2>1, <2>2, ConnectSteps
<1>3. CASE Proxy
  <2>1. ASSUME NEW t \in Tunnels, NEW s \in Sids, Resolve(t, s) \/ OpenKasmCached(t, s) \/ CacheExpires(s)
        PROVE  IInv' /\ RightEnds
    BY <2>1, Elsewhere, RowsKept DEF Resolve, OpenKasmCached, CacheExpires, registry, sweepers
  <2>2. ASSUME NEW t \in Tunnels,
               OpenGuac(t) \/ OpenKasm(t) \/ StreamCloses(t) \/ EndSessionLost(t) \/ Forget(t)
        PROVE  IInv' /\ RightEnds
    BY <2>2, Elsewhere, RowsKept DEF OpenGuac, OpenKasm, StreamCloses, EndSessionLost, Forget, registry, sweepers
  <2>3. ASSUME NEW s \in Sids, CacheExpires(s) PROVE IInv' /\ RightEnds
    BY <2>3, Elsewhere, RowsKept DEF CacheExpires, registry, sweepers
  <2>4. CASE WwtCrash
    BY <2>4, Elsewhere, RowsKept DEF WwtCrash, registry, sweepers
  <2>5. QED
    BY <1>3, <2>1, <2>2, <2>3, <2>4, EndingSteps DEF Proxy
<1>4. CASE SessionSweeper \/ SweepAborts
  BY <1>4, SweeperSteps DEF SessionSweeper
<1>5. CASE IdleSweeper
  <2>1. CASE IdleList \/ IdleActivity \/ \E w \in Workspaces : IdleConflict(w)
    BY <2>1, Elsewhere, RowsKept DEF IdleList, IdleActivity, IdleConflict, registry
  <2>2. CASE \E w \in Workspaces : IdlePause(w)
    BY <2>2, WorkspaceSteps, RowsKept
  <2>3. QED
    BY <1>5, <2>1, <2>2 DEF IdleSweeper
<1>6. CASE UNCHANGED vars
  BY <1>6, Elsewhere, RowsKept DEF vars
<1>7. QED
  BY <1>1, <1>2, <1>3, <1>4, <1>5, <1>6 DEF Next

-----------------------------------------------------------------------------
(* An entry of the remote registry always has its credentials Secret,      *)
(* whatever creations, updates, deletions and failures run at once.        *)
THEOREM SecretsStay == Spec => []RowHasSecret
<1>1. IInv => RowHasSecret
  BY DEF IInv, SecretsHeld, RowHasSecret
<1>2. QED
  BY InitIInv, Step, <1>1, PTL DEF Spec

(* A session ends once, and the sweeper ends it only when its target is    *)
(* gone, for any number of targets, sessions, requests and faults.         *)
THEOREM EndsAreRight == Spec => EndsRightly
<1>1. RightEnds => [\A s \in Sids : /\ row[s].st = "ended" => row'[s] = row[s]
                                    /\ Open(s) /\ row'[s].by = "sweeper" => Gone(row[s].target)]_vars
  BY DEF RightEnds
<1>2. QED
  BY InitIInv, Step, <1>1, PTL DEF Spec, EndsRightly

-----------------------------------------------------------------------------
(* The idle sweeper: what the user resumed since its listing has been      *)
(* touched since, and between two passes there is nothing to remember.     *)
ResumesSeen ==
    /\ idle \in [pc : {"idle", "listed", "pausing"}, cand : SUBSET Workspaces, touched : SUBSET Workspaces]
    /\ used \in [faults : Nat, pauses : Nat]
    /\ resumed \subseteq idle.touched
    /\ idle.pc = "idle" => resumed = {}

\* What a step of the idle sweeper must not do.
ResumesRespected ==
    \A w \in Workspaces : used'.pauses > used.pauses /\ ws'[w].paused # ws[w].paused => w \notin resumed

\* A step of somebody else that leaves the sweeper and its history alone, save a fault.
LEMMA NotIdle ==
  ASSUME ResumesSeen, UNCHANGED <<idle, resumed>>, UNCHANGED used \/ Fault
  PROVE  ResumesSeen' /\ ResumesRespected
<1>1. used' \in [faults : Nat, pauses : Nat] /\ used'.pauses = used.pauses
  BY DEF ResumesSeen, Fault
<1>2. QED
  BY <1>1 DEF ResumesSeen, ResumesRespected

\* A write to a CR is seen by the sweeper's version check, a resume too.
LEMMA Touched ==
  ASSUME ResumesSeen, NEW w \in Workspaces, Touch(w), UNCHANGED used,
         resumed' \subseteq resumed \cup {v \in {w} : idle.pc # "idle"}
  PROVE  ResumesSeen' /\ ResumesRespected
<1> DEFINE T == idle.touched \cup {v \in {w} : idle.pc # "idle"}
<1>1. idle' = [idle EXCEPT !.touched = T]
  BY DEF Touch
<1>2. T \subseteq Workspaces /\ resumed' \subseteq T
  BY DEF ResumesSeen
<1> HIDE DEF T
<1>3. /\ idle' \in [pc : {"idle", "listed", "pausing"}, cand : SUBSET Workspaces, touched : SUBSET Workspaces]
      /\ idle'.pc = idle.pc /\ idle'.touched = T
  BY <1>1, <1>2 DEF ResumesSeen
<1>4. QED
  BY <1>2, <1>3 DEF ResumesSeen, ResumesRespected

\* A pass goes on, or ends and forgets what it knew.
LEMMA LeftSeen ==
  ASSUME ResumesSeen, NEW C \in SUBSET Workspaces, IdleLeft(C)
  PROVE  /\ idle' \in [pc : {"idle", "listed", "pausing"}, cand : SUBSET Workspaces, touched : SUBSET Workspaces]
         /\ resumed' \subseteq idle'.touched /\ (idle'.pc = "idle" => resumed' = {})
<1>1. CASE C = {}
  BY <1>1 DEF IdleLeft
<1>2. CASE C # {}
  <2> DEFINE i1 == [idle EXCEPT !.pc = "pausing"]
  <2>1. /\ i1 \in [pc : {"idle", "listed", "pausing"}, cand : SUBSET Workspaces, touched : SUBSET Workspaces]
        /\ i1.pc = "pausing" /\ i1.touched = idle.touched
    BY DEF ResumesSeen
  <2>2. idle' = [i1 EXCEPT !.cand = C] /\ resumed' = resumed
    BY <1>2 DEF IdleLeft
  <2> HIDE DEF i1
  <2>3. QED
    BY <2>1, <2>2 DEF ResumesSeen
<1>3. QED
  BY <1>1, <1>2

\* The steps of the idle sweeper.
LEMMA IdleSteps == ASSUME Shape, ResumesSeen, IdleSweeper PROVE ResumesSeen' /\ ResumesRespected
<1>1. /\ idle \in [pc : {"idle", "listed", "pausing"}, cand : SUBSET Workspaces, touched : SUBSET Workspaces]
      /\ used \in [faults : Nat, pauses : Nat]
  BY DEF ResumesSeen
<1>2. CASE IdleList
  <2>1. /\ idle'.pc = "listed" /\ resumed' = resumed /\ used' = used /\ resumed = {}
        /\ idle' \in [pc : {"idle", "listed", "pausing"}, cand : SUBSET Workspaces, touched : SUBSET Workspaces]
    BY <1>2 DEF IdleList, history, ResumesSeen
  <2>2. QED
    BY <1>1, <2>1 DEF ResumesSeen, ResumesRespected
<1>3. CASE IdleActivity
  <2>1. PICK C \in SUBSET Workspaces : IdleLeft(C)
    <3>1. PICK quiet \in SUBSET idle.cand : IdleLeft({w \in quiet : \A s \in OpenRows : row[s].target # w})
      BY <1>3 DEF IdleActivity
    <3>2. QED
      BY <1>1, <3>1
  <2>2. used' = used
    BY <1>3 DEF IdleActivity
  <2>3. QED
    BY <1>1, <2>1, <2>2, LeftSeen DEF ResumesSeen, ResumesRespected
<1>4. ASSUME NEW w \in Workspaces, IdleConflict(w) PROVE ResumesSeen' /\ ResumesRespected
  <2>1. IdleLeft(idle.cand \ {w}) /\ used' = used /\ idle.cand \ {w} \in SUBSET Workspaces
    BY <1>1, <1>4 DEF IdleConflict
  <2>2. QED
    BY <1>1, <2>1, LeftSeen DEF ResumesSeen, ResumesRespected
<1>5. ASSUME NEW w \in Workspaces, IdlePause(w) PROVE ResumesSeen' /\ ResumesRespected
  <2>1. /\ IdleLeft(idle.cand \ {w}) /\ idle.cand \ {w} \in SUBSET Workspaces
        /\ w \notin idle.touched /\ used' = [used EXCEPT !.pauses = used.pauses + 1]
        /\ ws' = [ws EXCEPT ![w].paused = TRUE]
    BY <1>1, <1>5 DEF IdlePause, Unchanged
  <2>2. used' \in [faults : Nat, pauses : Nat]
    BY <1>1, <2>1
  <2>3. ResumesSeen'
    BY <2>1, <2>2, LeftSeen DEF ResumesSeen
  <2>4. \A v \in Workspaces : v # w => ws'[v] = ws[v]
    BY <2>1 DEF Shape
  <2>5. QED
    BY <2>1, <2>3, <2>4 DEF ResumesSeen, ResumesRespected
<1>6. QED
  BY <1>2, <1>3, <1>4, <1>5 DEF IdleSweeper

\* Every step.
LEMMA IdleStep == ASSUME Shape, ResumesSeen, [Next]_vars PROVE ResumesSeen' /\ ResumesRespected
<1>1. CASE Registry
  <2>1. ASSUME NEW w \in Workspaces, OperatorReports(w) \/ Finalize(w) \/ KubectlDelete(w) \/ DeleteWorkspace(w) \/ PauseWorkspace(w)
        PROVE  ResumesSeen' /\ ResumesRespected
    BY <2>1, Touched DEF OperatorReports, Finalize, KubectlDelete, DeleteWorkspace, PauseWorkspace, history
  <2>2. ASSUME NEW w \in Workspaces, ResumeWorkspace(w) PROVE ResumesSeen' /\ ResumesRespected
    BY <2>2, Touched DEF ResumeWorkspace
  <2>3. ASSUME NEW w \in Workspaces, CreateWorkspace(w) PROVE ResumesSeen' /\ ResumesRespected
    BY <2>3, NotIdle DEF CreateWorkspace, history, sweepers
  <2>4. ASSUME NEW x \in Targets, EndAllForWorkspace(x) \/ EndAllFails(x) PROVE ResumesSeen' /\ ResumesRespected
    BY <2>4, NotIdle DEF EndAllForWorkspace, EndAllFails, history, sweepers
  <2>5. ASSUME NEW r \in Remotes, \/ CreateRemoteSecret(r) \/ CreateRemoteRow(r) \/ CreateRemoteFails(r)
                                  \/ UpdateRemoteFetch(r) \/ UpdateRemoteSecret(r) \/ UpdateRemoteRow(r)
                                  \/ DeleteRemoteRow(r) \/ DeleteRemoteSecret(r) \/ DeleteRemoteSecretFails(r)
        PROVE  ResumesSeen' /\ ResumesRespected
    BY <2>5, NotIdle DEF CreateRemoteSecret, CreateRemoteRow, CreateRemoteFails, UpdateRemoteFetch, UpdateRemoteSecret,
         UpdateRemoteRow, DeleteRemoteRow, DeleteRemoteSecret, DeleteRemoteSecretFails, history, sweepers
  <2>6. QED
    BY <1>1, <2>1, <2>2, <2>3, <2>4, <2>5 DEF Registry
<1>2. CASE Connect
  BY <1>2, NotIdle DEF Connect, ConnectFetch, ConnectRecord, TokenExpires, history, sweepers
<1>3. CASE Proxy
  <2>1. ASSUME NEW t \in Tunnels, \/ \E s \in Sids : Resolve(t, s) \/ OpenKasmCached(t, s)
                                  \/ OpenGuac(t) \/ OpenKasm(t) \/ StreamCloses(t)
                                  \/ EndSession(t) \/ EndSessionLost(t) \/ Forget(t)
        PROVE  ResumesSeen' /\ ResumesRespected
    BY <2>1, NotIdle DEF Resolve, OpenKasmCached, OpenGuac, OpenKasm, StreamCloses, EndSession, EndSessionLost, Forget,
         history, sweepers
  <2>2. CASE WwtCrash \/ \E s \in Sids : CacheExpires(s)
    BY <2>2, NotIdle DEF WwtCrash, CacheExpires, history, sweepers
  <2>3. QED
    BY <1>3, <2>1, <2>2 DEF Proxy
<1>4. CASE SessionSweeper \/ SweepAborts
  BY <1>4, NotIdle DEF SessionSweeper, SweepRead, SweepOne, SweepAborts, history
<1>5. CASE UNCHANGED vars
  BY <1>5, NotIdle DEF vars
<1>6. QED
  BY <1>1, <1>2, <1>3, <1>4, <1>5, IdleSteps DEF Next

(* A resume made while an idle sweep runs is not undone by that sweep, for *)
(* any number of workspaces and any interleaving: the version the update   *)
(* carries is older than the resume.                                       *)
THEOREM ResumesStay == Spec => PauseRespectsResume
<1>1. Init => ResumesSeen
  BY DEF Init, ResumesSeen
<1>2. IInv /\ ResumesSeen /\ [Next]_vars => ResumesSeen' /\ ResumesRespected
  BY IdleStep DEF IInv
<1>3. ResumesRespected =>
        [\A w \in Workspaces : used'.pauses > used.pauses /\ ws'[w].paused # ws[w].paused => w \notin resumed]_vars
  BY DEF ResumesRespected
<1>4. QED
  BY <1>1, <1>2, <1>3, InitIInv, Step, PTL DEF Spec, PauseRespectsResume

-----------------------------------------------------------------------------
(* Types, and sessions that are over.                                      *)

\* Secrets and updates in flight are of remotes.
RegistryTyped ==
    /\ secret \subseteq Remotes
    /\ upd \in [Remotes -> {None, "fetched", "written"}]

\* A row says who ended it, has a target once it is recorded, and is kasm for
\* cluster workspaces only.
RowsTold ==
    \A s \in Sids : /\ row[s].st = "ended" => row[s].by # None
                    /\ row[s].st = "none" <=> row[s].target = None
                    /\ row[s].st = "none" => ~row[s].kasm
                    /\ row[s].kasm => row[s].target \in Workspaces

TokensTyped == token \in [Sids -> {"none", "valid", "expired"}]

\* A request of wwt is about a session, and so is a cached answer, of kasm.
TunPcs == {None, "resolved", "open", "closed", "ended"}
ProxyTyped ==
    /\ tun \in [Tunnels -> [pc : TunPcs, sid : Sids \cup {None}]]
    /\ \A t \in Tunnels : tun[t].pc # None => tun[t].sid \in Sids
    /\ \A s \in cache : s \in Sids /\ row[s].kasm

FaultsBounded == used.faults \in 0..MaxFaults

TypeInv == RegistryTyped /\ RowsTold /\ TokensTyped /\ ProxyTyped /\ FaultsBounded

\* Together with what the other proofs know, these are the types.
LEMMA TypeInvTypes == IInv /\ ResumesSeen /\ TypeInv => TypeOK
<1> SUFFICES ASSUME IInv, ResumesSeen, TypeInv PROVE TypeOK
  OBVIOUS
<1>1. \A s \in Sids : /\ (row[s].st = "ended") = (row[s].by # None)
                      /\ (row[s].st = "none") = (row[s].target = None)
                      /\ row[s].kasm => row[s].target \in Workspaces
  BY DEF IInv, RowsKnown, TypeInv, RowsTold
<1>2. used \in [faults : 0..MaxFaults, pauses : Nat] /\ resumed \subseteq Workspaces
  BY DEF TypeInv, FaultsBounded, ResumesSeen
<1>3. /\ idle \in [pc : {"idle", "listed", "pausing"}, cand : SUBSET Workspaces, touched : SUBSET Workspaces]
      /\ secret \subseteq Remotes /\ upd \in [Remotes -> {None, "fetched", "written"}]
      /\ token \in [Sids -> {"none", "valid", "expired"}]
      /\ tun \in [Tunnels -> [pc : {None, "resolved", "open", "closed", "ended"}, sid : Sids \cup {None}]]
      /\ \A s \in cache : s \in Sids /\ row[s].kasm
  BY DEF ResumesSeen, TypeInv, RegistryTyped, TokensTyped, ProxyTyped, TunPcs
<1>4. Shape
  BY DEF IInv
<1>5. QED
  BY <1>1, <1>2, <1>3, <1>4 DEF TypeOK, Shape

\* They hold before anything has happened.
LEMMA InitTypeInv == Init => TypeInv
<1> SUFFICES ASSUME Init PROVE TypeInv
  OBVIOUS
<1>1. RegistryTyped /\ RowsTold /\ TokensTyped
  BY DEF Init, RegistryTyped, RowsTold, TokensTyped, None
<1>2. ProxyTyped
  BY DEF Init, ProxyTyped, TunPcs, None
<1>3. FaultsBounded
  BY SessionsAssumption DEF Init, FaultsBounded
<1>4. QED
  BY <1>1, <1>2, <1>3 DEF TypeInv

\* The steps of wwt's requests and of its cache.
ProxySteps ==
    \/ \E t \in Tunnels : \/ \E s \in Sids : Resolve(t, s) \/ OpenKasmCached(t, s)
                          \/ OpenGuac(t)
                          \/ OpenKasm(t)
                          \/ StreamCloses(t)
                          \/ EndSession(t)
                          \/ EndSessionLost(t)
                          \/ Forget(t)
    \/ \E s \in Sids : CacheExpires(s)
    \/ WwtCrash

\* Nobody else touches them.
LEMMA ProxyAlone == Next => UNCHANGED proxy \/ ProxySteps
<1>1. Registry => UNCHANGED proxy
  BY DEF Registry, CreateWorkspace, OperatorReports, Finalize, KubectlDelete, DeleteWorkspace,
     PauseWorkspace, ResumeWorkspace, EndAllForWorkspace, EndAllFails, CreateRemoteSecret,
     CreateRemoteRow, CreateRemoteFails, UpdateRemoteFetch, UpdateRemoteSecret, UpdateRemoteRow,
     DeleteRemoteRow, DeleteRemoteSecret, DeleteRemoteSecretFails, proxy
<1>2. Connect => UNCHANGED proxy
  BY DEF Connect, ConnectFetch, ConnectRecord, TokenExpires, proxy
<1>3. SessionSweeper \/ SweepAborts \/ IdleSweeper => UNCHANGED proxy
  BY DEF SessionSweeper, SweepRead, SweepOne, SweepAborts, IdleSweeper, IdleList, IdleActivity,
     IdlePause, IdleConflict, proxy
<1>4. Proxy => ProxySteps
  BY DEF Proxy, ProxySteps
<1>5. QED
  BY <1>1, <1>2, <1>3, <1>4 DEF Next

\* Rows are recorded, and ended.
RowSteps ==
    \/ UNCHANGED row
    \/ \E S : \E by \in {"proxy", "delete", "sweeper"} : End(S, by)
    \/ \E s \in Sids : ConnectRecord(s)

\* No other step writes a row: sessions are never deleted or reopened.
LEMMA RowAlone == Next => RowSteps
<1>1. ASSUME Registry PROVE RowSteps
  <2>1. CASE \E x \in Targets : EndAllForWorkspace(x)
    BY <2>1 DEF EndAllForWorkspace, RowSteps
  <2>2. CASE ~(\E x \in Targets : EndAllForWorkspace(x))
    <3>1. UNCHANGED row
      BY <1>1, <2>2 DEF Registry, CreateWorkspace, OperatorReports, Finalize, KubectlDelete,
         DeleteWorkspace, PauseWorkspace, ResumeWorkspace, EndAllFails, CreateRemoteSecret,
         CreateRemoteRow, CreateRemoteFails, UpdateRemoteFetch, UpdateRemoteSecret,
         UpdateRemoteRow, DeleteRemoteRow, DeleteRemoteSecret, DeleteRemoteSecretFails
    <3>2. QED
      BY <3>1 DEF RowSteps
  <2>3. QED
    BY <2>1, <2>2
<1>2. ASSUME Connect PROVE RowSteps
  BY <1>2 DEF Connect, ConnectFetch, TokenExpires, RowSteps
<1>3. ASSUME Proxy PROVE RowSteps
  <2>1. CASE \E t \in Tunnels : EndSession(t)
    BY <2>1 DEF EndSession, RowSteps
  <2>2. CASE ~(\E t \in Tunnels : EndSession(t))
    <3>1. UNCHANGED row
      BY <1>3, <2>2 DEF Proxy, Resolve, OpenKasmCached, OpenGuac, OpenKasm, StreamCloses,
         EndSessionLost, Forget, CacheExpires, WwtCrash
    <3>2. QED
      BY <3>1 DEF RowSteps
  <2>3. QED
    BY <2>1, <2>2
<1>4. ASSUME SessionSweeper \/ SweepAborts PROVE RowSteps
  <2>1. CASE \E s \in Sids : SweepOne(s)
    BY <2>1 DEF SweepOne, RowSteps
  <2>2. CASE SweepRead \/ SweepAborts
    BY <2>2 DEF SweepRead, SweepAborts, RowSteps
  <2>3. QED
    BY <1>4, <2>1, <2>2 DEF SessionSweeper
<1>5. ASSUME IdleSweeper PROVE RowSteps
  BY <1>5 DEF IdleSweeper, IdleList, IdleActivity, IdlePause, IdleConflict, RowSteps
<1>6. QED
  BY <1>1, <1>2, <1>3, <1>4, <1>5 DEF Next

\* Ending a row changes neither its target nor its protocol, and an end stays.
LEMMA EndKeeps ==
  ASSUME Shape, NEW S, NEW by \in {"proxy", "delete", "sweeper"}, End(S, by), NEW s \in Sids
  PROVE  /\ row'[s].target = row[s].target /\ row'[s].kasm = row[s].kasm
         /\ row'[s].st = "none" <=> row[s].st = "none"
         /\ row'[s] = row[s] \/ (row'[s].st = "ended" /\ row'[s].by = by)
         /\ row[s].st = "ended" => row'[s].st = "ended"
<1> DEFINE Rows == [st : {"none", "open", "ended"}, target : Targets \cup {None}, kasm : BOOLEAN,
                    by : {None, "proxy", "delete", "sweeper"}]
           r1 == [row[s] EXCEPT !.st = "ended"]
           r2 == [r1 EXCEPT !.by = by]
<1>1. row[s] \in Rows
  BY DEF Shape
<1>2. /\ r1 \in Rows /\ r1.st = "ended" /\ r1.target = row[s].target /\ r1.kasm = row[s].kasm
  BY <1>1
<1>3. row'[s] = IF s \in S /\ Open(s) THEN [[row[s] EXCEPT !.st = "ended"] EXCEPT !.by = by] ELSE row[s]
  BY DEF End, EndRow
<1>4. row'[s] = IF s \in S /\ Open(s) THEN r2 ELSE row[s]
  BY <1>3
<1> HIDE DEF r1
<1>5. /\ r2.st = "ended" /\ r2.target = row[s].target /\ r2.kasm = row[s].kasm /\ r2.by = by
  BY <1>2
<1> HIDE DEF r2
<1>6. QED
  BY <1>4, <1>5 DEF Open

\* A step keeps what the rows tell.
LEMMA RowsStayTold ==
  ASSUME IInv, RowsTold, Next PROVE RowsTold'
<1>1. CASE UNCHANGED row
  BY <1>1 DEF RowsTold
<1>2. CASE \E S : \E by \in {"proxy", "delete", "sweeper"} : End(S, by)
  <2>1. PICK S : \E by \in {"proxy", "delete", "sweeper"} : End(S, by)
    BY <1>2
  <2>2. PICK by \in {"proxy", "delete", "sweeper"} : End(S, by)
    BY <2>1
  <2>3. Shape /\ by # None
    BY DEF IInv, None
  <2>4. QED
    BY <2>2, <2>3, EndKeeps DEF RowsTold
<1>3. CASE \E s \in Sids : ConnectRecord(s)
  <2>1. PICK s \in Sids : ConnectRecord(s)
    BY <1>3
  <2>2. PICK k \in Protocols(call[s]) :
          row' = [row EXCEPT ![s] = [st |-> "open", target |-> call[s], kasm |-> k, by |-> None]]
    BY <2>1 DEF ConnectRecord
  <2>3. call[s] # None /\ (k => call[s] \in Workspaces)
    BY <2>1, <2>2 DEF ConnectRecord, Protocols
  <2>4. /\ row'[s].st = "open" /\ row'[s].target = call[s] /\ row'[s].kasm = k
        /\ \A z \in Sids \ {s} : row'[z] = row[z]
    BY <2>2 DEF IInv, Shape
  <2>5. QED
    BY <2>3, <2>4 DEF RowsTold
<1>4. QED
  BY <1>1, <1>2, <1>3, RowAlone DEF RowSteps

\* A session's protocol stays once its row is there.
LEMMA KasmStays ==
  ASSUME IInv, RowsTold, Next, NEW s \in Sids, row[s].kasm PROVE row'[s].kasm
<1>1. CASE UNCHANGED row
  BY <1>1
<1>2. CASE \E S : \E by \in {"proxy", "delete", "sweeper"} : End(S, by)
  <2>1. row'[s].kasm = row[s].kasm
    BY <1>2, EndKeeps DEF IInv
  <2>2. QED
    BY <2>1
<1>3. CASE \E z \in Sids : ConnectRecord(z)
  <2>1. PICK z \in Sids : ConnectRecord(z)
    BY <1>3
  <2>2. row[z].st = "none"
    BY <2>1 DEF ConnectRecord, IInv, CallsKnown
  <2>3. z # s
    BY <2>2 DEF RowsTold
  <2>4. row'[s] = row[s]
    BY <2>1, <2>3 DEF ConnectRecord
  <2>5. QED
    BY <2>4
<1>4. QED
  BY <1>1, <1>2, <1>3, RowAlone DEF RowSteps

\* A request is set to a session, or to none.
LEMMA TunnelSet ==
  ASSUME ProxyTyped, NEW t \in Tunnels, NEW pc \in TunPcs, NEW s \in Sids \cup {None},
         SetTunnel(t, pc, s), pc # None => s \in Sids
  PROVE  /\ tun' \in [Tunnels -> [pc : TunPcs, sid : Sids \cup {None}]]
         /\ \A u \in Tunnels : tun'[u].pc # None => tun'[u].sid \in Sids
  BY DEF ProxyTyped, SetTunnel

\* A step keeps the requests and the cache about sessions.
LEMMA ProxyStaysTyped ==
  ASSUME IInv, RowsTold, ProxyTyped, Next PROVE ProxyTyped'
<1>1. \A s \in cache : s \in Sids /\ row'[s].kasm
  BY KasmStays DEF ProxyTyped
<1>2. CASE UNCHANGED proxy
  BY <1>1, <1>2 DEF ProxyTyped, proxy
<1>3. CASE WwtCrash
  BY <1>3 DEF WwtCrash, ProxyTyped, TunPcs
<1>4. CASE \E s \in Sids : CacheExpires(s)
  BY <1>1, <1>4 DEF CacheExpires, ProxyTyped
<1>5. ASSUME NEW t \in Tunnels,
             \/ \E s \in Sids : Resolve(t, s) \/ OpenKasmCached(t, s)
             \/ OpenGuac(t)
             \/ OpenKasm(t)
             \/ StreamCloses(t)
             \/ EndSession(t)
             \/ EndSessionLost(t)
             \/ Forget(t)
      PROVE  ProxyTyped'
  <2>1. CASE \E s \in Sids : Resolve(t, s) \/ OpenKasmCached(t, s)
    <3>1. PICK s \in Sids : Resolve(t, s) \/ OpenKasmCached(t, s)
      BY <2>1
    <3>2. UNCHANGED cache /\ (SetTunnel(t, "resolved", s) \/ SetTunnel(t, "open", s))
      BY <3>1 DEF Resolve, OpenKasmCached
    <3>3. {"resolved", "open"} \subseteq TunPcs
      BY DEF TunPcs
    <3>4. QED
      BY <1>1, <3>2, <3>3, TunnelSet DEF ProxyTyped
  <2>2. CASE ~(\E s \in Sids : Resolve(t, s) \/ OpenKasmCached(t, s))
    <3>1. tun[t].pc # None
      BY <1>5, <2>2 DEF OpenGuac, OpenKasm, StreamCloses, EndSession, EndSessionLost, Forget, None
    <3>2. tun[t].sid \in Sids
      BY <3>1 DEF ProxyTyped
    <3>3. \/ \E pc \in TunPcs : SetTunnel(t, pc, tun[t].sid)
          \/ SetTunnel(t, None, None)
      BY <1>5, <2>2 DEF OpenGuac, OpenKasm, StreamCloses, EndSession, EndSessionLost, Forget,
         AfterStream, TunPcs
    <3>4. /\ tun' \in [Tunnels -> [pc : TunPcs, sid : Sids \cup {None}]]
          /\ \A u \in Tunnels : tun'[u].pc # None => tun'[u].sid \in Sids
      <4>1. None \in TunPcs
        BY DEF TunPcs
      <4>2. QED
        BY <3>2, <3>3, <4>1, TunnelSet
    <3>5. \A s \in cache' : s \in cache \/ (s = tun[t].sid /\ row[s].kasm)
      BY <1>5, <2>2 DEF OpenGuac, OpenKasm, StreamCloses, EndSession, EndSessionLost, Forget
    <3>6. \A s \in cache' : s \in Sids /\ row'[s].kasm
      BY <1>1, <3>2, <3>5, KasmStays
    <3>7. QED
      BY <3>4, <3>6 DEF ProxyTyped
  <2>3. QED
    BY <2>1, <2>2
<1>6. QED
  BY <1>2, <1>3, <1>4, <1>5, ProxyAlone DEF ProxySteps

\* A step keeps the Secrets and the updates about remotes.
LEMMA RegistryStaysTyped ==
  ASSUME RegistryTyped, Next PROVE RegistryTyped'
<1>1. ASSUME NEW r \in Remotes,
             \/ CreateRemoteSecret(r) \/ CreateRemoteRow(r) \/ CreateRemoteFails(r)
             \/ UpdateRemoteFetch(r) \/ UpdateRemoteSecret(r) \/ UpdateRemoteRow(r)
             \/ DeleteRemoteRow(r) \/ DeleteRemoteSecret(r) \/ DeleteRemoteSecretFails(r)
      PROVE  RegistryTyped'
  BY <1>1 DEF CreateRemoteSecret, CreateRemoteRow, CreateRemoteFails, UpdateRemoteFetch,
     UpdateRemoteSecret, UpdateRemoteRow, DeleteRemoteRow, DeleteRemoteSecret,
     DeleteRemoteSecretFails, RegistryTyped, registry
<1>2. CASE UNCHANGED <<secret, upd>>
  BY <1>2 DEF RegistryTyped
<1>3. \/ UNCHANGED <<secret, upd>>
      \/ \E r \in Remotes :
             \/ CreateRemoteSecret(r) \/ CreateRemoteRow(r) \/ CreateRemoteFails(r)
             \/ UpdateRemoteFetch(r) \/ UpdateRemoteSecret(r) \/ UpdateRemoteRow(r)
             \/ DeleteRemoteRow(r) \/ DeleteRemoteSecret(r) \/ DeleteRemoteSecretFails(r)
  <2>1. CASE Registry
    BY <2>1 DEF Registry, CreateWorkspace, OperatorReports, Finalize, KubectlDelete,
       DeleteWorkspace, PauseWorkspace, ResumeWorkspace, EndAllForWorkspace, EndAllFails, registry
  <2>2. CASE Connect \/ SessionSweeper \/ SweepAborts \/ IdleSweeper
    BY <2>2 DEF Connect, ConnectFetch, ConnectRecord, TokenExpires, SessionSweeper, SweepRead,
       SweepOne, SweepAborts, IdleSweeper, IdleList, IdleActivity, IdlePause, IdleConflict, registry
  <2>3. CASE Proxy
    BY <2>3 DEF Proxy, Resolve, OpenKasmCached, OpenGuac, OpenKasm, StreamCloses, EndSession,
       EndSessionLost, Forget, CacheExpires, WwtCrash, registry
  <2>4. QED
    BY <2>1, <2>2, <2>3 DEF Next
<1>4. QED
  BY <1>1, <1>2, <1>3

\* A step keeps the tokens what they are.
LEMMA TokensStayTyped ==
  ASSUME TokensTyped, Next PROVE TokensTyped'
<1>1. CASE \E s \in Sids : ConnectRecord(s) \/ TokenExpires(s)
  BY <1>1 DEF ConnectRecord, TokenExpires, TokensTyped
<1>2. CASE ~(\E s \in Sids : ConnectRecord(s) \/ TokenExpires(s))
  <2>1. CASE Registry
    BY <2>1 DEF Registry, CreateWorkspace, OperatorReports, Finalize, KubectlDelete,
       DeleteWorkspace, PauseWorkspace, ResumeWorkspace, EndAllForWorkspace, EndAllFails,
       CreateRemoteSecret, CreateRemoteRow, CreateRemoteFails, UpdateRemoteFetch,
       UpdateRemoteSecret, UpdateRemoteRow, DeleteRemoteRow, DeleteRemoteSecret,
       DeleteRemoteSecretFails, TokensTyped
  <2>2. CASE Connect \/ SessionSweeper \/ SweepAborts \/ IdleSweeper
    BY <1>2, <2>2 DEF Connect, ConnectFetch, SessionSweeper, SweepRead, SweepOne, SweepAborts,
       IdleSweeper, IdleList, IdleActivity, IdlePause, IdleConflict, TokensTyped
  <2>3. CASE Proxy
    BY <2>3 DEF Proxy, Resolve, OpenKasmCached, OpenGuac, OpenKasm, StreamCloses, EndSession,
       EndSessionLost, Forget, CacheExpires, WwtCrash, TokensTyped
  <2>4. QED
    BY <2>1, <2>2, <2>3 DEF Next
<1>3. QED
  BY <1>1, <1>2

\* Faults are counted where they happen, and guarded there.
LEMMA FaultsStayBounded ==
  ASSUME ResumesSeen, FaultsBounded, Next PROVE FaultsBounded'
<1>1. used \in [faults : Nat, pauses : Nat] /\ used.faults \in 0..MaxFaults /\ MaxFaults \in Nat
  BY SessionsAssumption DEF ResumesSeen, FaultsBounded
<1>2. \/ UNCHANGED used
      \/ used.faults < MaxFaults /\ used' = [used EXCEPT !.faults = @ + 1]
      \/ used' = [used EXCEPT !.pauses = @ + 1]
  <2>1. CASE Registry
    BY <2>1 DEF Registry, CreateWorkspace, OperatorReports, Finalize, KubectlDelete,
       DeleteWorkspace, PauseWorkspace, ResumeWorkspace, EndAllForWorkspace, EndAllFails,
       CreateRemoteSecret, CreateRemoteRow, CreateRemoteFails, UpdateRemoteFetch,
       UpdateRemoteSecret, UpdateRemoteRow, DeleteRemoteRow, DeleteRemoteSecret,
       DeleteRemoteSecretFails, Fault, history
  <2>2. CASE Connect \/ SessionSweeper \/ SweepAborts \/ IdleSweeper
    BY <2>2 DEF Connect, ConnectFetch, ConnectRecord, TokenExpires, SessionSweeper, SweepRead,
       SweepOne, SweepAborts, IdleSweeper, IdleList, IdleActivity, IdlePause, IdleConflict,
       Fault, history
  <2>3. CASE Proxy
    BY <2>3 DEF Proxy, Resolve, OpenKasmCached, OpenGuac, OpenKasm, StreamCloses, EndSession,
       EndSessionLost, Forget, CacheExpires, WwtCrash, Fault, history
  <2>4. QED
    BY <2>1, <2>2, <2>3 DEF Next
<1>3. QED
  BY <1>1, <1>2 DEF FaultsBounded

\* Every step keeps the types.
LEMMA TypeInvStays ==
  ASSUME IInv, ResumesSeen, TypeInv, [Next]_vars PROVE TypeInv'
<1>1. CASE Next
  BY <1>1, RegistryStaysTyped, RowsStayTold, TokensStayTyped, ProxyStaysTyped, FaultsStayBounded
  DEF TypeInv
<1>2. CASE UNCHANGED vars
  BY <1>2 DEF vars, TypeInv, RegistryTyped, RowsTold, TokensTyped, ProxyTyped, FaultsBounded
<1>3. QED
  BY <1>1, <1>2

(* The variables keep their types; a row says who ended it exactly when it *)
(* has ended, and only cluster workspaces have kasm sessions.              *)
THEOREM TypesHold == Spec => []TypeOK
<1>1. Init => IInv /\ ResumesSeen /\ TypeInv
  <2>1. Init => ResumesSeen
    BY DEF Init, ResumesSeen
  <2>2. QED
    BY <2>1, InitIInv, InitTypeInv
<1>2. IInv /\ ResumesSeen /\ TypeInv /\ [Next]_vars => (IInv /\ ResumesSeen /\ TypeInv)'
  <2>1. IInv /\ ResumesSeen /\ [Next]_vars => ResumesSeen'
    BY IdleStep DEF IInv
  <2>2. QED
    BY <2>1, Step, TypeInvStays
<1>3. QED
  BY <1>1, <1>2, TypeInvTypes, PTL DEF Spec

-----------------------------------------------------------------------------
\* An ended session that no request has resolved and no answer is cached for.
Forgotten(s) ==
    /\ row[s].st = "ended" /\ s \notin cache
    /\ \A t \in Tunnels : tun[t].pc = "resolved" => tun[t].sid # s

\* Only an open row resolves, and only a resolved request is cached.
LEMMA ForgottenStays ==
  ASSUME IInv, TypeInv, Next, NEW s \in Sids, Forgotten(s) PROVE Forgotten(s)'
<1>1. row'[s].st = "ended"
  <2>1. CASE UNCHANGED row
    BY <2>1 DEF Forgotten
  <2>2. CASE \E S : \E by \in {"proxy", "delete", "sweeper"} : End(S, by)
    BY <2>2, EndKeeps DEF Forgotten, IInv
  <2>3. CASE \E z \in Sids : ConnectRecord(z)
    <3>1. PICK z \in Sids : ConnectRecord(z)
      BY <2>3
    <3>2. row[z].st = "none" /\ row[s].st = "ended"
      BY <3>1 DEF ConnectRecord, IInv, CallsKnown, Forgotten
    <3>3. QED
      BY <3>1, <3>2 DEF ConnectRecord, IInv, Shape
  <2>4. QED
    BY <2>1, <2>2, <2>3, RowAlone DEF RowSteps
<1>2. tun \in [Tunnels -> [pc : TunPcs, sid : Sids \cup {None}]]
  BY DEF TypeInv, ProxyTyped
<1>3. CASE UNCHANGED proxy
  BY <1>1, <1>3 DEF Forgotten, proxy
<1>4. CASE WwtCrash
  BY <1>1, <1>4 DEF WwtCrash, Forgotten, None
<1>5. CASE \E z \in Sids : CacheExpires(z)
  BY <1>1, <1>5 DEF CacheExpires, Forgotten
<1>6. ASSUME NEW t \in Tunnels,
             \/ \E z \in Sids : Resolve(t, z) \/ OpenKasmCached(t, z)
             \/ OpenGuac(t)
             \/ OpenKasm(t)
             \/ StreamCloses(t)
             \/ EndSession(t)
             \/ EndSessionLost(t)
             \/ Forget(t)
      PROVE  Forgotten(s)'
  <2>1. s \notin cache'
    BY <1>6 DEF Resolve, OpenKasmCached, OpenGuac, OpenKasm, StreamCloses, EndSession,
       EndSessionLost, Forget, Forgotten
  <2>2. \/ \E z \in Sids : SetTunnel(t, "resolved", z) /\ z # s
        \/ \E pc \in {"open", "closed", "ended", None} : \E z : SetTunnel(t, pc, z)
    BY <1>6 DEF Resolve, Resolvable, Open, OpenKasmCached, OpenGuac, OpenKasm, StreamCloses,
       EndSession, EndSessionLost, Forget, AfterStream, Forgotten
  <2>3. \A u \in Tunnels : tun'[u].pc = "resolved" => tun'[u].sid # s
    BY <1>2, <2>2 DEF SetTunnel, Forgotten, None
  <2>4. QED
    BY <1>1, <2>1, <2>3 DEF Forgotten
<1>7. QED
  BY <1>3, <1>4, <1>5, <1>6, ProxyAlone DEF ProxySteps

(* An ended session that is in no cache and that no request has resolved   *)
(* is never resolved nor cached again, for any number of requests and      *)
(* crashes: the safety half of "an ended session stops resolving for good" *)
(* (connection.go ConnectionInfo, kasm.go connectionInfo, forget).         *)
THEOREM ForgottenForGood == Spec => [][\A s \in Sids : Forgotten(s) => Forgotten(s)']_vars
<1>1. Init => IInv /\ ResumesSeen /\ TypeInv
  <2>1. Init => ResumesSeen
    BY DEF Init, ResumesSeen
  <2>2. QED
    BY <2>1, InitIInv, InitTypeInv
<1>2. IInv /\ ResumesSeen /\ TypeInv /\ [Next]_vars => (IInv /\ ResumesSeen /\ TypeInv)'
  <2>1. IInv /\ ResumesSeen /\ [Next]_vars => ResumesSeen'
    BY IdleStep DEF IInv
  <2>2. QED
    BY <2>1, Step, TypeInvStays
<1>3. IInv /\ TypeInv /\ [Next]_vars => [\A s \in Sids : Forgotten(s) => Forgotten(s)']_vars
  BY ForgottenStays
<1>4. QED
  BY <1>1, <1>2, <1>3, PTL DEF Spec
=============================================================================
