------------------------------ MODULE Sessions ------------------------------
(***************************************************************************)
(* Desktop sessions: the rows of the api-server's sessions table, the      *)
(* calls that open and close them, the streams wwt proxies on their        *)
(* behalf, the session sweeper, the idle sweeper, and the registry of      *)
(* remote workspaces with the Secret each entry owns.                      *)
(*                                                                         *)
(* A handler that makes several calls is one action per call, so another   *)
(* actor may run between any two.  Sessions reference their target by UID, *)
(* which is never reused: a target is created once.                        *)
(***************************************************************************)
EXTENDS Naturals, FiniteSets

CONSTANTS
    Workspaces,          \* UIDs of cluster workspaces, all of one owner
    Remotes,             \* ids of remote workspaces
    Sids,                \* session ids
    Tunnels,             \* requests wwt can serve at once
    MaxTargets,          \* bound: targets ever created
    MaxFaults,           \* bound: failed calls and crashes
    MaxPauses            \* bound: no idle sweep begins after that many pauses

ASSUME SessionsAssumption ==
    /\ Workspaces \cap Remotes = {}
    /\ MaxTargets \in Nat /\ MaxFaults \in Nat /\ MaxPauses \in Nat

Targets == Workspaces \cup Remotes
None == "none"

VARIABLES
    ws,        \* workspace CRs: st "new" "live" "terminating" "gone", running, paused
    rem,       \* remote_workspaces rows: "new" "creating" "live" "gone"
    secret,    \* the remotes whose credentials Secret exists
    upd,       \* per remote, an Update in flight: "none" "fetched" "written"
    row,       \* sessions rows: st "none" "open" "ended", target, kasm, by
    call,      \* per session, the target a Connect has fetched, or None
    token,     \* connection tokens: "none" "valid" "expired"
    ending,    \* per target, a Delete in flight: "none" "secret" "sessions"
    tun,       \* wwt requests: pc "none" "resolved" "open" "closed" "ended", sid
    cache,     \* sessions whose ConnectionInfo is in kasm's cache, unexpired
    sweep,     \* session sweeper: pc 1 (idle), 2, 3 (ending), open, live
    idle,      \* idle sweeper: pc "idle" "listed" "pausing", cand, touched
    used,      \* history: faults and idle pauses so far
    resumed    \* history: workspaces resumed since the idle sweeper's listing

vars == <<ws, rem, secret, upd, row, call, token, ending, tun, cache, sweep, idle, used, resumed>>

registry == <<rem, secret, upd>>
proxy    == <<tun, cache>>
sweepers == <<sweep, idle>>
history  == <<used, resumed>>

Exists(w) == ws[w].st \in {"live", "terminating"}
Open(s)   == row[s].st = "open"
Room      == Cardinality({w \in Workspaces : ws[w].st # "new"} \cup {r \in Remotes : rem[r] # "new"}) < MaxTargets
Fault     == used.faults < MaxFaults /\ used' = [used EXCEPT !.faults = @ + 1]

\* UPDATE sessions SET ended_at = ? WHERE id = ? AND ended_at IS NULL.
EndRow(s, by) == IF Open(s) THEN [row[s] EXCEPT !.st = "ended", !.by = by] ELSE row[s]

End(S, by) == row' = [s \in Sids |-> IF s \in S THEN EndRow(s, by) ELSE row[s]]

\* Any write to a CR moves its resourceVersion past what the sweeper listed.
Touch(w) == idle' = [idle EXCEPT !.touched = @ \cup {v \in {w} : idle.pc # "idle"}]

-----------------------------------------------------------------------------
(* Workspace CRs: the api-server, kubectl and the operator.                *)

CreateWorkspace(w) ==
    /\ ws[w].st = "new" /\ Room
    /\ ws' = [ws EXCEPT ![w].st = "live"]
    /\ UNCHANGED <<registry, row, call, token, ending, proxy, sweepers, history>>

\* The operator reports the phase: Running once unpaused, else not.
OperatorReports(w) ==
    LET up == ws[w].st = "live" /\ ~ws[w].paused IN
    /\ Exists(w) /\ ws[w].running # up
    /\ ws' = [ws EXCEPT ![w].running = up]
    /\ Touch(w)
    /\ UNCHANGED <<registry, row, call, token, ending, proxy, sweep, history>>

Finalize(w) ==
    /\ ws[w].st = "terminating"
    /\ ws' = [ws EXCEPT ![w] = [st |-> "gone", running |-> FALSE, paused |-> FALSE]]
    /\ Touch(w)
    /\ UNCHANGED <<registry, row, call, token, ending, proxy, sweep, history>>

KubectlDelete(w) ==
    /\ ws[w].st = "live"
    /\ ws' = [ws EXCEPT ![w].st = "terminating"]
    /\ Touch(w)
    /\ UNCHANGED <<registry, row, call, token, ending, proxy, sweep, history>>

\* WorkspaceService.Delete: the CR first, its sessions afterwards.
DeleteWorkspace(w) ==
    /\ ws[w].st = "live"
    /\ ws' = [ws EXCEPT ![w].st = "terminating"]
    /\ ending' = [ending EXCEPT ![w] = "sessions"]
    /\ Touch(w)
    /\ UNCHANGED <<registry, row, call, token, proxy, sweep, history>>

EndAllForWorkspace(x) ==
    /\ ending[x] = "sessions"
    /\ End({s \in Sids : row[s].target = x}, "delete")
    /\ ending' = [ending EXCEPT ![x] = None]
    /\ UNCHANGED <<ws, registry, call, token, proxy, sweepers, history>>

\* Logged, not returned.
EndAllFails(x) ==
    /\ ending[x] = "sessions" /\ Fault
    /\ ending' = [ending EXCEPT ![x] = None]
    /\ UNCHANGED <<ws, registry, row, call, token, proxy, sweepers, resumed>>

PauseWorkspace(w) ==
    /\ ws[w].st = "live" /\ ~ws[w].paused
    /\ ws' = [ws EXCEPT ![w].paused = TRUE]
    /\ Touch(w)
    /\ UNCHANGED <<registry, row, call, token, ending, proxy, sweep, history>>

ResumeWorkspace(w) ==
    /\ ws[w].st = "live" /\ ws[w].paused
    /\ ws' = [ws EXCEPT ![w].paused = FALSE]
    /\ Touch(w)
    /\ resumed' = resumed \cup {v \in {w} : idle.pc # "idle"}
    /\ UNCHANGED <<registry, row, call, token, ending, proxy, sweep, used>>

-----------------------------------------------------------------------------
(* The remote registry.                                                    *)

\* Create: the Secret first, the row second.
CreateRemoteSecret(r) ==
    /\ rem[r] = "new" /\ Room
    /\ rem' = [rem EXCEPT ![r] = "creating"]
    /\ secret' = secret \cup {r}
    /\ UNCHANGED <<ws, upd, row, call, token, ending, proxy, sweepers, history>>

CreateRemoteRow(r) ==
    /\ rem[r] = "creating"
    /\ rem' = [rem EXCEPT ![r] = "live"]
    /\ UNCHANGED <<ws, secret, upd, row, call, token, ending, proxy, sweepers, history>>

\* The row fails (a duplicate name): the Secret is rolled back.
CreateRemoteFails(r) ==
    /\ rem[r] = "creating" /\ Fault
    /\ rem' = [rem EXCEPT ![r] = "gone"]
    /\ secret' = secret \ {r}
    /\ UNCHANGED <<ws, upd, row, call, token, ending, proxy, sweepers, resumed>>

UpdateRemoteFetch(r) ==
    /\ rem[r] = "live" /\ upd[r] = None
    /\ upd' = [upd EXCEPT ![r] = "fetched"]
    /\ UNCHANGED <<ws, rem, secret, row, call, token, ending, proxy, sweepers, history>>

\* writeCredentials patches the Secret, or creates it when it is missing.
UpdateRemoteSecret(r) ==
    /\ upd[r] = "fetched"
    /\ upd' = [upd EXCEPT ![r] = "written"]
    /\ secret' = secret \cup {r}
    /\ UNCHANGED <<ws, rem, row, call, token, ending, proxy, sweepers, history>>

\* The row is rewritten if it is still there; a missing one is an error.
UpdateRemoteRow(r) ==
    /\ upd[r] = "written"
    /\ upd' = [upd EXCEPT ![r] = None]
    /\ UNCHANGED <<ws, rem, secret, row, call, token, ending, proxy, sweepers, history>>

\* Mutant of DeleteRemoteRow: the Secret goes first.
DeleteRemoteSecretFirst(r) ==
    /\ rem[r] = "live" /\ ending[r] = None
    /\ secret' = secret \ {r}
    /\ ending' = [ending EXCEPT ![r] = "secret"]
    /\ UNCHANGED <<ws, rem, upd, row, call, token, proxy, sweepers, history>>

\* Delete: the row, then the Secret, then the sessions.
DeleteRemoteRow(r) ==
    /\ rem[r] = "live"
    /\ rem' = [rem EXCEPT ![r] = "gone"]
    /\ ending' = [ending EXCEPT ![r] = "secret"]
    /\ UNCHANGED <<ws, secret, upd, row, call, token, proxy, sweepers, history>>

DeleteRemoteSecret(r) ==
    /\ ending[r] = "secret"
    /\ secret' = secret \ {r}
    /\ ending' = [ending EXCEPT ![r] = "sessions"]
    /\ UNCHANGED <<ws, rem, upd, row, call, token, proxy, sweepers, history>>

\* Returned to the caller; the row is gone, so a retry is "not found".
DeleteRemoteSecretFails(r) ==
    /\ ending[r] = "secret" /\ Fault
    /\ ending' = [ending EXCEPT ![r] = None]
    /\ UNCHANGED <<ws, registry, row, call, token, proxy, sweepers, resumed>>

-----------------------------------------------------------------------------
(* Connect: fetch the target, record the session, sign the token.          *)

ConnectFetch(s, x) ==
    /\ row[s].st = "none" /\ call[s] = None
    /\ IF x \in Workspaces THEN Exists(x) /\ ws[x].running ELSE rem[x] = "live"
    /\ call' = [call EXCEPT ![s] = x]
    /\ UNCHANGED <<ws, registry, row, token, ending, proxy, sweepers, history>>

\* Is kasmvnc among what the target offers?  Never for a remote.
Protocols(x) == IF x \in Workspaces THEN BOOLEAN ELSE {FALSE}

ConnectRecord(s) ==
    /\ call[s] # None
    /\ \E k \in Protocols(call[s]) :
         row' = [row EXCEPT ![s] = [st |-> "open", target |-> call[s], kasm |-> k, by |-> None]]
    /\ token' = [token EXCEPT ![s] = "valid"]
    /\ call' = [call EXCEPT ![s] = None]
    /\ UNCHANGED <<ws, registry, ending, proxy, sweepers, history>>

TokenExpires(s) ==
    /\ token[s] = "valid"
    /\ token' = [token EXCEPT ![s] = "expired"]
    /\ UNCHANGED <<ws, registry, row, call, ending, proxy, sweepers, history>>

-----------------------------------------------------------------------------
(* wwt.                                                                    *)

Dialable(x) == IF x \in Workspaces THEN Exists(x) /\ ws[x].running ELSE rem[x] = "live" /\ x \in secret

\* Mutant of Resolvable: an ended session is not refused.
ResolvableEnded(s) == row[s].st # "none" /\ Dialable(row[s].target)

\* ConnectionInfo: the row is open and its target can be dialled.
Resolvable(s) == Open(s) /\ Dialable(row[s].target)

SetTunnel(t, pc, s) == tun' = [tun EXCEPT ![t] = [pc |-> pc, sid |-> s]]

\* Token, then ConnectionInfo.  Kasm asks the api-server only on a miss.
Resolve(t, s) ==
    /\ tun[t].pc = None /\ token[s] = "valid" /\ s \notin cache
    /\ Resolvable(s)
    /\ SetTunnel(t, "resolved", s)
    /\ UNCHANGED <<ws, registry, row, call, token, ending, cache, sweepers, history>>

\* guacd is dialled and shakes hands, or refuses: the session stays open.
OpenGuac(t) ==
    /\ tun[t].pc = "resolved" /\ ~row[tun[t].sid].kasm
    /\ \/ SetTunnel(t, "open", tun[t].sid)
       \/ SetTunnel(t, None, None)
    /\ UNCHANGED <<ws, registry, row, call, token, ending, cache, sweepers, history>>

\* The answer is cached, for an asset or for the desktop stream.
OpenKasm(t) ==
    /\ tun[t].pc = "resolved" /\ row[tun[t].sid].kasm
    /\ cache' = cache \cup {tun[t].sid}
    /\ \/ SetTunnel(t, "open", tun[t].sid)
       \/ SetTunnel(t, None, None)
    /\ UNCHANGED <<ws, registry, row, call, token, ending, sweepers, history>>

OpenKasmCached(t, s) ==
    /\ tun[t].pc = None /\ token[s] = "valid" /\ s \in cache
    /\ SetTunnel(t, "open", s)
    /\ UNCHANGED <<ws, registry, row, call, token, ending, cache, sweepers, history>>

CacheExpires(s) ==
    /\ s \in cache
    /\ cache' = cache \ {s}
    /\ UNCHANGED <<ws, registry, row, call, token, ending, tun, sweepers, history>>

StreamCloses(t) ==
    /\ tun[t].pc = "open"
    /\ SetTunnel(t, "closed", tun[t].sid)
    /\ UNCHANGED <<ws, registry, row, call, token, ending, cache, sweepers, history>>

\* Kasm has its cache entry to forget.
AfterStream(t) ==
    IF row[tun[t].sid].kasm THEN SetTunnel(t, "ended", tun[t].sid) ELSE SetTunnel(t, None, None)

\* The end-of-session callback, best effort: 5 seconds, no retry.
EndSession(t) ==
    /\ tun[t].pc = "closed"
    /\ End({tun[t].sid}, "proxy")
    /\ AfterStream(t)
    /\ UNCHANGED <<ws, registry, call, token, ending, cache, sweepers, history>>

EndSessionLost(t) ==
    /\ tun[t].pc = "closed" /\ Fault
    /\ AfterStream(t)
    /\ UNCHANGED <<ws, registry, row, call, token, ending, cache, sweepers, resumed>>

Forget(t) ==
    /\ tun[t].pc = "ended"
    /\ cache' = cache \ {tun[t].sid}
    /\ SetTunnel(t, None, None)
    /\ UNCHANGED <<ws, registry, row, call, token, ending, sweepers, history>>

WwtCrash ==
    /\ Fault
    /\ tun' = [t \in Tunnels |-> [pc |-> None, sid |-> None]]
    /\ cache' = {}
    /\ UNCHANGED <<ws, registry, row, call, token, ending, sweepers, resumed>>

-----------------------------------------------------------------------------
(* The session sweeper.                                                    *)

OpenRows == {s \in Sids : Open(s)}

\* Mutant of ReadOrder: the workspaces are listed before the rows.
ReadOrderSwapped == <<"crs", "rows">>

\* What a pass reads first and what second.
ReadOrder == <<"rows", "crs">>

\* A pass that finds no open row is over.
SweepRead ==
    /\ sweep.pc \in {1, 2}
    /\ sweep' = IF ReadOrder[sweep.pc] = "crs"
                THEN [sweep EXCEPT !.pc = @ + 1, !.live = {w \in Workspaces : Exists(w)}]
                ELSE [sweep EXCEPT !.pc = IF OpenRows = {} THEN 1 ELSE @ + 1, !.open = OpenRows]
    /\ UNCHANGED <<ws, registry, row, call, token, ending, proxy, idle, history>>

\* Mutant of Orphaned: only cluster workspaces are looked at.
OrphanedLocal(s) == row[s].target \in Workspaces \ sweep.live

Orphaned(s) ==
    LET x == row[s].target IN IF x \in Workspaces THEN x \notin sweep.live ELSE rem[x] # "live"

SweepOne(s) ==
    /\ sweep.pc = 3 /\ s \in sweep.open
    /\ End({z \in {s} : Orphaned(z)}, "sweeper")
    /\ sweep' = IF sweep.open = {s} THEN [pc |-> 1, open |-> {}, live |-> {}]
                ELSE [sweep EXCEPT !.open = @ \ {s}]
    /\ UNCHANGED <<ws, registry, call, token, ending, proxy, idle, history>>

\* Any error ends the pass; the next tick starts over.
SweepAborts ==
    /\ sweep.pc # 1 /\ Fault
    /\ sweep' = [pc |-> 1, open |-> {}, live |-> {}]
    /\ UNCHANGED <<ws, registry, row, call, token, ending, proxy, idle, resumed>>

-----------------------------------------------------------------------------
(* The idle sweeper.                                                       *)

IdleList ==
    /\ idle.pc = "idle" /\ used.pauses < MaxPauses
    /\ idle' = [pc |-> "listed", touched |-> {},
                cand |-> {w \in Workspaces : ws[w].st = "live" /\ ~ws[w].paused}]
    /\ UNCHANGED <<ws, registry, row, call, token, ending, proxy, sweep, history>>

\* Go on with the candidates in C, or end the pass.
IdleLeft(C) ==
    IF C = {} THEN idle' = [pc |-> "idle", cand |-> {}, touched |-> {}] /\ resumed' = {}
    ELSE idle' = [idle EXCEPT !.pc = "pausing", !.cand = C] /\ UNCHANGED resumed

\* Activity: who has an open session, and, of the others, who has been
\* quiet for idleSuspendAfter (any of them: time is not modelled).
IdleActivity ==
    /\ idle.pc = "listed"
    /\ \E quiet \in SUBSET idle.cand : IdleLeft({w \in quiet : \A s \in OpenRows : row[s].target # w})
    /\ UNCHANGED <<ws, registry, row, call, token, ending, proxy, sweep, used>>

\* Mutant of Unchanged: the update is forced through.
UnchangedOrNot(w) == TRUE

\* The update carries the listed resourceVersion.
Unchanged(w) == w \notin idle.touched

IdlePause(w) ==
    /\ idle.pc = "pausing" /\ w \in idle.cand /\ Unchanged(w) /\ Exists(w)
    /\ ws' = [ws EXCEPT ![w].paused = TRUE]
    /\ IdleLeft(idle.cand \ {w})
    /\ used' = [used EXCEPT !.pauses = @ + 1]
    /\ UNCHANGED <<registry, row, call, token, ending, proxy, sweep>>

\* A conflict is logged and skipped.
IdleConflict(w) ==
    /\ idle.pc = "pausing" /\ w \in idle.cand /\ ~Unchanged(w)
    /\ IdleLeft(idle.cand \ {w})
    /\ UNCHANGED <<ws, registry, row, call, token, ending, proxy, sweep, used>>

-----------------------------------------------------------------------------
Init ==
    /\ ws = [w \in Workspaces |-> [st |-> "new", running |-> FALSE, paused |-> FALSE]]
    /\ rem = [r \in Remotes |-> "new"] /\ secret = {} /\ upd = [r \in Remotes |-> None]
    /\ row = [s \in Sids |-> [st |-> "none", target |-> None, kasm |-> FALSE, by |-> None]]
    /\ call = [s \in Sids |-> None] /\ token = [s \in Sids |-> "none"]
    /\ ending = [x \in Targets |-> None]
    /\ tun = [t \in Tunnels |-> [pc |-> None, sid |-> None]] /\ cache = {}
    /\ sweep = [pc |-> 1, open |-> {}, live |-> {}]
    /\ idle = [pc |-> "idle", cand |-> {}, touched |-> {}]
    /\ used = [faults |-> 0, pauses |-> 0] /\ resumed = {}

Registry ==
    \/ \E w \in Workspaces : \/ CreateWorkspace(w) \/ OperatorReports(w) \/ Finalize(w) \/ KubectlDelete(w)
                             \/ DeleteWorkspace(w) \/ PauseWorkspace(w) \/ ResumeWorkspace(w)
    \/ \E x \in Targets : EndAllForWorkspace(x) \/ EndAllFails(x)
    \/ \E r \in Remotes : \/ CreateRemoteSecret(r) \/ CreateRemoteRow(r) \/ CreateRemoteFails(r)
                          \/ UpdateRemoteFetch(r) \/ UpdateRemoteSecret(r) \/ UpdateRemoteRow(r)
                          \/ DeleteRemoteRow(r) \/ DeleteRemoteSecret(r) \/ DeleteRemoteSecretFails(r)

Connect ==
    \E s \in Sids : (\E x \in Targets : ConnectFetch(s, x)) \/ ConnectRecord(s) \/ TokenExpires(s)

Proxy ==
    \/ \E t \in Tunnels : \/ \E s \in Sids : Resolve(t, s) \/ OpenKasmCached(t, s)
                          \/ OpenGuac(t) \/ OpenKasm(t) \/ StreamCloses(t)
                          \/ EndSession(t) \/ EndSessionLost(t) \/ Forget(t)
    \/ \E s \in Sids : CacheExpires(s)
    \/ WwtCrash

SessionSweeper == SweepRead \/ (\E s \in Sids : SweepOne(s))

IdleSweeper ==
    \/ IdleList \/ IdleActivity
    \/ \E w \in Workspaces : IdlePause(w) \/ IdleConflict(w)

Next ==
    Registry \/ Connect \/ Proxy \/ SessionSweeper \/ SweepAborts \/ IdleSweeper

(* Tickers keep firing, handlers run to their end, cached answers age.     *)
(* Nobody is obliged to connect, to disconnect or to delete anything.      *)
Fairness ==
    /\ WF_vars(SessionSweeper)
    /\ \A t \in Tunnels : /\ WF_vars(OpenKasm(t)) /\ WF_vars(OpenGuac(t))
                          /\ WF_vars(EndSession(t) \/ EndSessionLost(t)) /\ WF_vars(Forget(t))
    /\ \A s \in Sids : WF_vars(CacheExpires(s))

Spec == Init /\ [][Next]_vars /\ Fairness

-----------------------------------------------------------------------------
(* The state variables keep their types; a row says who ended it exactly   *)
(* when it has ended, and only cluster workspaces have kasm sessions.      *)
TypeOK ==
    /\ ws \in [Workspaces -> [st : {"new", "live", "terminating", "gone"}, running : BOOLEAN, paused : BOOLEAN]]
    /\ rem \in [Remotes -> {"new", "creating", "live", "gone"}] /\ secret \subseteq Remotes
    /\ upd \in [Remotes -> {None, "fetched", "written"}]
    /\ row \in [Sids -> [st : {"none", "open", "ended"}, target : Targets \cup {None}, kasm : BOOLEAN,
                         by : {None, "proxy", "delete", "sweeper"}]]
    /\ \A s \in Sids : (row[s].st = "ended") = (row[s].by # None)
    /\ \A s \in Sids : (row[s].st = "none") = (row[s].target = None)
    /\ \A s \in Sids : row[s].kasm => row[s].target \in Workspaces
    /\ call \in [Sids -> Targets \cup {None}] /\ token \in [Sids -> {"none", "valid", "expired"}]
    /\ ending \in [Targets -> {None, "secret", "sessions"}]
    /\ tun \in [Tunnels -> [pc : {None, "resolved", "open", "closed", "ended"}, sid : Sids \cup {None}]]
    /\ \A s \in cache : s \in Sids /\ row[s].kasm
    /\ sweep \in [pc : 1..3, open : SUBSET Sids, live : SUBSET Workspaces]
    /\ idle \in [pc : {"idle", "listed", "pausing"}, cand : SUBSET Workspaces, touched : SUBSET Workspaces]
    /\ resumed \subseteq Workspaces
    /\ used \in [faults : 0..MaxFaults, pauses : Nat]

Gone(x) == IF x \in Workspaces THEN ws[x].st = "gone" ELSE rem[x] = "gone"

(* A session ends once: a late callback, a Delete and a sweep racing each  *)
(* other never move the end of an ended session (session_sql.go, the       *)
(* conditional UPDATEs), and the sweeper only ends sessions whose target   *)
(* is gone, however targets and sessions come and go during its pass: the  *)
(* rows are read before the workspaces (session_sweeper.go sweep).         *)
EndsRightly ==
    [][\A s \in Sids :
         /\ row[s].st = "ended" => row'[s] = row[s]
         /\ Open(s) /\ row'[s].by = "sweeper" => Gone(row[s].target)]_vars

(* No session stays open on a target that is gone, whichever of the        *)
(* callback, the Delete's clean-up and the sweeps was lost                 *)
(* (session_sweeper.go; "the session sweeper will retry").                 *)
OrphansAreClosed == \A s \in Sids : (Open(s) /\ Gone(row[s].target)) ~> row[s].st = "ended"

(* An ended session stops resolving for good: the entry that a request     *)
(* fetched before the end and stored after forget() ages out and is never  *)
(* renewed (kasm.go infoTTL, connectionInfo, forget).                      *)
EndedStopsResolving == \A s \in Sids : (row[s].st = "ended") ~> [](s \notin cache)

(* A resume the user makes while an idle sweep runs is not undone by that  *)
(* sweep (idle_sweeper.go: the update carries the listed version).         *)
PauseRespectsResume ==
    [][\A w \in Workspaces : used'.pauses > used.pauses /\ ws'[w].paused # ws[w].paused => w \notin resumed]_vars

(* An entry of the remote registry always has its credentials Secret       *)
(* (remote_workspace_service.go: Secret first on create, last on delete).  *)
RowHasSecret == \A r \in Remotes : rem[r] = "live" => r \in secret

-----------------------------------------------------------------------------
(* What the code does not guarantee.                                       *)

(* "An open session always counts as active" (idle_sweeper.go): a          *)
(* workspace with an open session is not paused for being idle.            *)
NeverPausedInUse ==
    [][\A w \in Workspaces : used'.pauses > used.pauses /\ ws'[w].paused # ws[w].paused => \A s \in OpenRows : row[s].target # w]_vars

(* A session that lost its callback, or whose token was never used, is     *)
(* closed in the end and stops counting as activity (session_sweeper.go).  *)
DeadSessionsClose ==
    \A s \in Sids :
        (Open(s) /\ token[s] = "expired" /\ \A t \in Tunnels : tun[t].sid # s) ~> row[s].st = "ended"

(* Delete "removes the entry and its credentials Secret"                   *)
(* (remote_workspace_service.go): no Secret outlives its entry once no     *)
(* call is in flight.                                                      *)
NoOrphanSecret ==
    \A r \in secret : rem[r] = "gone" => ending[r] = "secret" \/ upd[r] = "written"

=============================================================================
