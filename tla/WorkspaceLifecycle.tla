------------------------- MODULE WorkspaceLifecycle -------------------------
(***************************************************************************)
(* The life of one workspace between its creation and its deletion: the    *)
(* api-server's lifecycle calls and idle sweeper, template and policy      *)
(* edits by an admin, and the operator's Reconcile loop                    *)
(* (operator/internal/controller/workspace_controller.go, workload.go),    *)
(* which reads the Workspace and its template through informer caches,     *)
(* scales the workload, converges its pod template at scale-up boundaries  *)
(* (docs/adr/0001), consumes the one-shot reload request and writes the    *)
(* status.  Pods are run by Kubernetes, which is external.                 *)
(*                                                                         *)
(* The deletion path, the home volume, namespaces and credentials are the  *)
(* subject of other modules; here a failure of any of those steps is an    *)
(* error return of Reconcile (ReconcileError).                             *)
(***************************************************************************)
EXTENDS Schedule

CONSTANTS Kinds,           \* workload kinds that templates use
          Sched,           \* the effective schedule (two lists of crons)
          CoherentCache,   \* TRUE: the operator's reads are always current
          StartPaused,     \* spec.paused values at creation
          MaxClock, MaxToggles, MaxIdle, MaxEdits, MaxOverrides, MaxReloads,
          MaxSwitches, MaxVerdicts, MaxPodFailures, MaxFaults    \* bounds

AllKinds == {"Deployment", "StatefulSet", "Pod", "VM"}

ASSUME KindsAssumption == Kinds \subseteq AllKinds /\ Kinds # {}
ASSUME StartPausedAssumption == StartPaused \subseteq BOOLEAN
ASSUME CoherentCacheAssumption == CoherentCache \in BOOLEAN
ASSUME BoundsAssumption ==
  /\ MaxClock \in Nat /\ MaxToggles \in Nat /\ MaxIdle \in Nat
  /\ MaxEdits \in Nat /\ MaxOverrides \in Nat /\ MaxReloads \in Nat
  /\ MaxSwitches \in Nat /\ MaxVerdicts \in Nat
  /\ MaxPodFailures \in Nat /\ MaxFaults \in Nat

VARIABLES
  clock,     \* the present instant
  ws,        \* the Workspace CR: spec and annotations
  seen,      \* the operator's cached copy of it
  tpl,       \* the WorkspaceTemplate: workload kind and revision
  seenTpl,   \* the operator's cached copy of it
  denied,    \* the verdict evaluateGovernance would return
  status,    \* status.phase and the TemplateDrifted condition
  wl,        \* the Deployment, StatefulSet and VM objects
  pod,       \* the desktop pod of each kind (the bare Pod included)
  rc,        \* the reconcile in flight
  queued,    \* the workspace is in the operator's work queue
  timer,     \* the instant of the reconcile that asked for a timed requeue
  used,      \* how often each bounded event has happened
  asked,     \* history: reload requests accepted by the api-server
  forced,    \* history: mid-session restarts the operator made, per kind
  served,    \* history: the last reload request a reconcile has acted on
  owed       \* history: what requests are owed a restart or a stop

vars == <<clock, ws, seen, tpl, seenTpl, denied, status, wl, pod, rc, queued,
          timer, used, asked, forced, served, owed>>

history == <<asked, forced, served, owed>>

-----------------------------------------------------------------------------
(* Data.                                                                   *)

\* A pod template fingerprint: the template's and the overrides' revision.
Shapes == [rev : 0 .. MaxEdits, ov : 0 .. MaxOverrides]

NoShape == [rev |-> 0, ov |-> 0]

Workspaces == [paused : BOOLEAN, manualAt : {NoTime} \cup 0 .. MaxClock,
               reload : 0 .. MaxReloads, ov : 0 .. MaxOverrides]

Phases == {"Pending", "Provisioning", "Running", "Paused", "Stopped", "Failed"}

\* A failed pod may recover (a crash loop, a missing image); an evicted one
\* never does.
PodStates == {"none", "starting", "ready", "failed", "evicted", "terminating"}

Live(p) == p.st \notin {"none", "terminating"}

NoWorkload == [exists |-> FALSE, up |-> FALSE, shape |-> NoShape]

NoPod == [st |-> "none", shape |-> NoShape]

\* Replica-counted kinds; a bare Pod has no object besides the pod itself.
Scaled == AllKinds \ {"Pod"}

\* What the operator's reads return: its client caches everything but
\* Secrets and ConfigMaps.
View == IF CoherentCache THEN ws ELSE seen

TplView == IF CoherentCache THEN tpl ELSE seenTpl

\* podTemplateFingerprint(buildPodTemplate(ws, tpl)).
Desired(w, t) == [rev |-> t.rev, ov |-> w.ov]

\* The kind's desktop is scaled up, and the shape it was last given.
IsUp(k) == IF k = "Pod" THEN Live(pod[k]) ELSE wl[k].exists /\ wl[k].up

LiveShape(k) == IF k = "Pod" THEN pod[k].shape ELSE wl[k].shape

\* A configuration change awaits the running desktop.
ChangePending ==
  IsUp(tpl.kind) /\ tpl.kind # "VM" /\ LiveShape(tpl.kind) # Desired(ws, tpl)

\* The same for the configuration the operator has learnt of.
KnownChange ==
  LET k == TplView.kind
  IN IsUp(k) /\ k # "VM" /\ LiveShape(k) # Desired(View, TplView)

\* computeExists: any linux kind counts, a VM only for a windows template.
computeExists(t) ==
  IF t.kind = "VM" THEN wl["VM"].exists
  ELSE \/ wl["Deployment"].exists \/ wl["StatefulSet"].exists
       \/ pod["Pod"].st # "none"

Idle == [pc |-> "idle",
         ws |-> [paused |-> FALSE, manualAt |-> NoTime, reload |-> 0, ov |-> 0],
         tpl |-> [kind |-> "Deployment", rev |-> 0],
         denied |-> FALSE, at |-> 0, down |-> FALSE, manual |-> FALSE,
         ready |-> FALSE, drifted |-> FALSE]

Events == {"toggle", "idle", "switch", "verdict", "podfail", "fault"}

Limit == [e \in Events |->
            CASE e = "toggle"  -> MaxToggles
              [] e = "idle"    -> MaxIdle
              [] e = "switch"  -> MaxSwitches
              [] e = "verdict" -> MaxVerdicts
              [] e = "podfail" -> MaxPodFailures
              [] e = "fault"   -> MaxFaults]

\* Environment events are bounded: each action that spends one counts it.
Spend(e) == used[e] < Limit[e] /\ used' = [used EXCEPT ![e] = @ + 1]

Init ==
  /\ clock = 0
  /\ \E p \in StartPaused :
       ws = [paused |-> p, manualAt |-> NoTime, reload |-> 0, ov |-> 0]
  /\ seen = ws
  /\ \E k \in Kinds : tpl = [kind |-> k, rev |-> 0]
  /\ seenTpl = tpl
  /\ denied \in IF MaxVerdicts > 0 THEN BOOLEAN ELSE {FALSE}
  /\ status = [phase |-> "Pending", drifted |-> FALSE]
  /\ wl = [k \in AllKinds |-> NoWorkload]
  /\ pod = [k \in AllKinds |-> NoPod]
  /\ rc = Idle
  /\ queued = TRUE
  /\ timer = NoTime
  /\ used = [e \in Events |-> 0]
  /\ asked = 0
  /\ forced = [k \in AllKinds |-> 0]
  /\ served = 0
  /\ owed = {}

-----------------------------------------------------------------------------
(* The api-server.  updateWithConflictRetry re-fetches and re-applies, so  *)
(* each call is one atomic update of the CR.                               *)

apiVars == <<clock, seen, tpl, seenTpl, denied, status, wl, pod, rc, queued,
             timer, forced, served>>

\* Mutant of SetPaused: the stamp is ahead of the operator's clock.
SetPausedSkewed(p) ==
  /\ Spend("toggle")
  /\ p \/ ~ws.paused \/ ~denied
  /\ ws' = [ws EXCEPT !.paused = p, !.manualAt = clock + 1]
  /\ UNCHANGED <<apiVars, asked, owed>>

\* WorkspaceService.SetPaused.  The webhook exempts an update that only
\* pauses or leaves the spec alone; a resume re-runs the full check.
SetPaused(p) ==
  /\ Spend("toggle")
  /\ p \/ ~ws.paused \/ ~denied
  /\ ws' = [ws EXCEPT !.paused = p, !.manualAt = clock]
  /\ UNCHANGED <<apiVars, asked, owed>>

\* WorkspaceService.UpdateOverrides: a spec change, so fully re-checked.
UpdateOverrides ==
  /\ ws.ov < MaxOverrides
  /\ ~denied
  /\ ws' = [ws EXCEPT !.ov = @ + 1]
  /\ UNCHANGED <<apiVars, used, asked, owed>>

reloadRequested(w) == w.reload # 0

\* A reconcile in flight has read, or is about to clear, a reload request.
Consuming == rc.pc = "clear" \/ (rc.pc = "workload" /\ reloadRequested(rc.ws))

\* What a request made now is owed a restart for: any pending change, and
\* one that the operator knows of when no other request is being consumed.
Debt == {d \in {"change", "known"} :
           IF d = "change" THEN ChangePending ELSE KnownChange /\ ~Consuming}

\* WorkspaceService.Reload: Running workspaces only; stamps an annotation.
Reload ==
  /\ asked < MaxReloads
  /\ status.phase = "Running"
  /\ asked' = asked + 1
  /\ ws' = [ws EXCEPT !.reload = asked']
  /\ owed' = owed \cup Debt
  /\ UNCHANGED <<apiVars, used>>

\* IdleSweeper.sweep on a workspace whose idle time is up.  It sets
\* spec.paused and leaves the manual-state-at annotation alone.
IdleSweep ==
  /\ Spend("idle")
  /\ ~ws.paused
  /\ ws' = [ws EXCEPT !.paused = TRUE]
  /\ UNCHANGED <<apiVars, asked, owed>>

-----------------------------------------------------------------------------
(* The admin, the clock and the watches.                                   *)

EditTemplate ==
  /\ tpl.rev < MaxEdits
  /\ tpl' = [tpl EXCEPT !.rev = @ + 1]
  /\ UNCHANGED <<clock, ws, seen, seenTpl, denied, status, wl, pod, rc, queued,
                 timer, used, history>>

\* The workload kind is an ordinary field of the template: the template
\* webhook accepts a change of it.
SwitchKind(k) ==
  /\ Spend("switch")
  /\ k # tpl.kind /\ k # "VM" /\ tpl.kind # "VM"
  /\ tpl' = [tpl EXCEPT !.kind = k]
  /\ UNCHANGED <<clock, ws, seen, seenTpl, denied, status, wl, pod, rc, queued,
                 timer, history>>

\* Policies are not watched; a change of verdict wakes nobody.
ChangeVerdict ==
  /\ Spend("verdict")
  /\ denied' = ~denied
  /\ UNCHANGED <<clock, ws, seen, tpl, seenTpl, status, wl, pod, rc, queued, timer,
                 history>>

Tick ==
  /\ clock < MaxClock
  /\ clock' = clock + 1
  /\ UNCHANGED <<ws, seen, tpl, seenTpl, denied, status, wl, pod, rc, queued,
                 timer, used, history>>

\* Mutant of wsPredicate: generation changes only.
wsPredicateGeneration(old, new) == old.paused # new.paused \/ old.ov # new.ov

\* The predicate of the Workspace watch: generation or annotation changes.
wsPredicate(old, new) ==
  \/ old.paused # new.paused \/ old.ov # new.ov
  \/ old.manualAt # new.manualAt \/ old.reload # new.reload

\* The informer delivers the current CR; the handler enqueues it.
Deliver ==
  /\ seen # ws
  /\ seen' = ws
  /\ queued' = (queued \/ wsPredicate(seen, ws))
  /\ UNCHANGED <<clock, ws, tpl, seenTpl, denied, status, wl, pod, rc, timer,
                 used, history>>

\* The same for the template: edits change its generation, and the watch
\* enqueues the workspaces stamped from it.
DeliverTemplate ==
  /\ seenTpl # tpl
  /\ seenTpl' = tpl
  /\ queued' = TRUE
  /\ UNCHANGED <<clock, ws, seen, tpl, denied, status, wl, pod, rc, timer, used,
                 history>>

\* The timed requeue at the next edge (RequeueAfter).
Wake ==
  /\ timer # NoTime
  /\ LET next == NextEdge(Sched, timer) IN next # NoTime /\ next <= clock
  /\ timer' = NoTime
  /\ queued' = TRUE
  /\ UNCHANGED <<clock, ws, seen, tpl, seenTpl, denied, status, wl, pod, rc, used,
                 history>>

-----------------------------------------------------------------------------
(* Kubernetes (external): pods follow their workload object, a Deployment  *)
(* with the Recreate strategy or a StatefulSet of one replica never runs   *)
(* two pods of its own.  Every pod event reaches the operator's watch.     *)

podVars == <<clock, ws, seen, tpl, seenTpl, denied, status, wl, rc, timer,
             history>>

PodCreated(k) ==
  /\ k \in Scaled /\ wl[k].exists /\ wl[k].up /\ pod[k].st = "none"
  /\ pod' = [pod EXCEPT ![k] = [st |-> "starting", shape |-> wl[k].shape]]
  /\ queued' = TRUE
  /\ UNCHANGED <<podVars, used>>

PodStopped(k) ==
  /\ k \in Scaled /\ Live(pod[k])
  /\ ~wl[k].up \/ (k # "VM" /\ pod[k].shape # wl[k].shape)
  /\ pod' = [pod EXCEPT ![k].st = "terminating"]
  /\ queued' = TRUE
  /\ UNCHANGED <<podVars, used>>

PodGone(k) ==
  /\ pod[k].st = "terminating"
  /\ pod' = [pod EXCEPT ![k] = NoPod]
  /\ queued' = TRUE
  /\ UNCHANGED <<podVars, used>>

PodReady(k) ==
  /\ pod[k].st \in {"starting", "failed"}
  /\ pod' = [pod EXCEPT ![k].st = "ready"]
  /\ queued' = TRUE
  /\ UNCHANGED <<podVars, used>>

\* A crash loop, an image that cannot be pulled, or an eviction; the
\* controller of a Deployment, StatefulSet or VM replaces an evicted pod.
PodFails(k) ==
  /\ Spend("podfail")
  /\ pod[k].st \in {"starting", "ready"}
  /\ \E st \in {"failed", IF k = "Pod" THEN "evicted" ELSE "terminating"} :
       pod' = [pod EXCEPT ![k].st = st]
  /\ queued' = TRUE
  /\ UNCHANGED podVars

Kubernetes ==
  \E k \in AllKinds : \/ PodCreated(k) \/ PodStopped(k)
                      \/ PodGone(k) \/ PodReady(k)

-----------------------------------------------------------------------------
(* Reconcile.  One action up to each write that others can observe.        *)

\* Mutant of Refuse: the denial is terminal.
RefuseForGood(w) ==
  /\ status' = IF w = ws THEN [status EXCEPT !.phase = "Failed"] ELSE status
  /\ queued' = FALSE
  /\ rc' = rc

\* The governance gate denies new compute: setUnready (which conflicts on a
\* stale read), then a retry on the slow loop.
Refuse(w) ==
  /\ status' = IF w = ws THEN [status EXCEPT !.phase = "Failed"] ELSE status
  /\ queued' = TRUE
  /\ rc' = rc

\* Reconcile reads the CR and the template, both from the cache, and passes
\* the governance gate, which guards new compute only.
BeginReconcile ==
  /\ rc.pc = "idle" /\ queued
  /\ IF ~View.paused /\ ~computeExists(TplView) /\ denied
     THEN Refuse(View)
     ELSE /\ rc' = [Idle EXCEPT !.pc = "workload", !.ws = View, !.tpl = TplView,
                               !.denied = denied]
          /\ queued' = FALSE
          /\ status' = status
  /\ UNCHANGED <<clock, ws, seen, tpl, seenTpl, denied, wl, pod, timer, used, history>>

\* The readiness Reconcile may read for a pod (podReady, readyReplicas, the
\* VM's status.ready): for a pod being terminated, its last status or none.
Readiness(p) == IF p.st = "terminating" THEN BOOLEAN ELSE {p.st = "ready"}

\* What Reconcile learns from ensureWorkload, and where it goes next: a
\* reload request is consumed when applied or when nothing is to apply.
\* (Of the objects read, only the template's kind is used later on.)
Learn(decision, ready, drifted, reloaded) ==
  LET consumed == /\ reloadRequested(rc.ws)
                  /\ reloaded \/ decision.down \/ ~drifted
  IN /\ rc' = [Idle EXCEPT
                 !.tpl = [kind |-> rc.tpl.kind, rev |-> 0],
                 !.pc = IF consumed THEN "clear" ELSE "status",
                 !.at = clock, !.down = decision.down, !.manual = decision.manual,
                 !.ready = ready, !.drifted = drifted]
     /\ served' = IF consumed THEN rc.ws.reload ELSE served

\* Mutants of Reloads: a reload restarts the desktop whether or not it has
\* drifted; a reload is ignored.
ReloadsEager(stale, boundary, w) == ~boundary /\ reloadRequested(w)

ReloadsNever(stale, boundary, w) == FALSE

\* The pending shape is applied mid-session, at the owner's request.
Reloads(stale, boundary, w) == stale /\ ~boundary /\ reloadRequested(w)

\* ensureDeployment and ensureStatefulSet.
ensureScaled(k, decision) ==
  LET old == wl[k]
      want == Desired(rc.ws, rc.tpl)
      stale == old.exists /\ old.shape # want
      boundary == stale /\ (~old.up \/ decision.down)
      reloaded == old.exists /\ Reloads(stale, boundary, rc.ws)
      new == [exists |-> TRUE, up |-> ~decision.down,
              shape |-> IF old.exists /\ ~boundary /\ ~reloaded
                        THEN old.shape ELSE want]
  IN /\ wl' = [wl EXCEPT ![k] = new]
     /\ queued' = (queued \/ new # old)
     /\ forced' = IF reloaded THEN [forced EXCEPT ![k] = @ + 1] ELSE forced
     /\ owed' = IF reloaded \/ new.up # old.up THEN {} ELSE owed
     /\ \E ready \in Readiness(pod[k]) :
          Learn(decision, old.exists /\ ready /\ ~decision.down /\ ~reloaded,
                stale /\ ~boundary /\ ~reloaded, reloaded)
     /\ pod' = pod

\* ensureVirtualMachine: toggles spec.running, knows no drift.  VMs are not
\* watched, their launcher pods are.
ensureVirtualMachine(decision) ==
  LET old == wl["VM"]
      new == [exists |-> TRUE, up |-> ~decision.down,
              shape |-> IF old.exists THEN old.shape ELSE Desired(rc.ws, rc.tpl)]
  IN /\ wl' = [wl EXCEPT !["VM"] = new]
     /\ \E ready \in Readiness(pod["VM"]) :
          Learn(decision, old.exists /\ ready /\ ~decision.down, FALSE, FALSE)
     /\ owed' = IF new.up # old.up THEN {} ELSE owed
     /\ UNCHANGED <<pod, queued, forced>>

\* ensurePod: scale to zero is deletion, and convergence is recreation.
ensurePod(decision) ==
  LET old == pod["Pod"]
      exists == old.st # "none"
      want == Desired(rc.ws, rc.tpl)
      stale == exists /\ old.shape # want
      reloaded == exists /\ Reloads(stale, decision.down, rc.ws)
      delete == exists /\ (decision.down \/ reloaded)
      create == ~exists /\ ~decision.down
  IN /\ pod' = [pod EXCEPT !["Pod"] =
                  IF delete THEN [old EXCEPT !.st = "terminating"]
                  ELSE IF create THEN [st |-> "starting", shape |-> want]
                  ELSE old]
     /\ queued' = (queued \/ pod' # pod)
     /\ forced' = IF reloaded /\ Live(old) THEN [forced EXCEPT !["Pod"] = @ + 1]
                  ELSE forced
     /\ owed' = IF delete \/ create THEN {} ELSE owed
     /\ \E ready \in Readiness(old) :
          Learn(decision, ready /\ ~delete, stale /\ ~delete, reloaded)
     /\ wl' = wl

\* The schedule decision at this instant, then the workload.
EnsureWorkload ==
  /\ rc.pc = "workload"
  /\ LET decision == Resolve(Sched, clock, rc.ws.paused, rc.ws.manualAt)
     IN CASE rc.tpl.kind = "Pod" -> ensurePod(decision)
          [] rc.tpl.kind = "VM" -> ensureVirtualMachine(decision)
          [] OTHER -> ensureScaled(rc.tpl.kind, decision)
  /\ UNCHANGED <<clock, ws, seen, tpl, seenTpl, denied, status, timer, used,
                 asked>>

\* An error return: the work queue retries with backoff.
Abort == rc' = Idle /\ queued' = TRUE

\* clearReloadRequest: a fresh (cached) read, then an update that conflicts
\* when that read is stale.  It removes whatever request it finds.
ClearReloadRequest ==
  /\ rc.pc = "clear"
  /\ IF View.reload = 0
     THEN rc' = [rc EXCEPT !.pc = "status"] /\ UNCHANGED <<ws, queued>>
     ELSE IF View # ws
     THEN Abort /\ ws' = ws
     ELSE /\ ws' = [ws EXCEPT !.reload = 0]
          /\ rc' = [rc EXCEPT !.pc = "status"]
          /\ queued' = queued
  /\ UNCHANGED <<clock, seen, tpl, seenTpl, denied, status, wl, pod, timer,
                 used, history>>

\* detectWorkloadFailure: a pod of this workspace is stuck in an error.
detectWorkloadFailure == \E k \in AllKinds : pod[k].st \in {"failed", "evicted"}

\* The phase Reconcile reports.
PhaseOf(r) ==
  CASE r.down /\ r.manual -> "Paused"
    [] r.down /\ ~r.manual -> "Stopped"
    [] ~r.down /\ r.ready -> "Running"
    [] OTHER -> IF r.tpl.kind # "VM" /\ detectWorkloadFailure
                THEN "Failed" ELSE "Provisioning"

\* patchStatus (which conflicts on a stale read) and the requeue: at the
\* next edge when settled, shortly when the desktop is not ready yet.
PatchStatus ==
  /\ rc.pc = "status"
  /\ IF View # ws
     THEN Abort /\ UNCHANGED <<status, timer>>
     ELSE /\ status' = [phase |-> PhaseOf(rc), drifted |-> rc.drifted]
          /\ timer' = IF timer = NoTime /\ (rc.down \/ rc.ready)
                      THEN rc.at ELSE timer
          /\ queued' = (queued \/ (~rc.down /\ ~rc.ready))
          /\ rc' = Idle
  /\ UNCHANGED <<clock, ws, seen, tpl, seenTpl, denied, wl, pod, used, history>>

\* Any of the calls of Reconcile fails: namespace, volume, credentials,
\* pull secret, an API error or a conflict.
ReconcileError ==
  /\ rc.pc # "idle"
  /\ Spend("fault")
  /\ Abort
  /\ UNCHANGED <<clock, ws, seen, tpl, seenTpl, denied, status, wl, pod, timer,
                 history>>

\* The operator restarts: queue and timers are lost, all objects are re-listed.
OperatorRestart ==
  /\ Spend("fault")
  /\ Abort
  /\ timer' = NoTime
  /\ seen' = ws /\ seenTpl' = tpl
  /\ UNCHANGED <<clock, ws, tpl, denied, status, wl, pod, history>>

Operator ==
  \/ BeginReconcile \/ EnsureWorkload \/ ClearReloadRequest \/ PatchStatus

Environment ==
  \/ \E p \in BOOLEAN : SetPaused(p)
  \/ UpdateOverrides \/ Reload \/ IdleSweep
  \/ EditTemplate \/ ChangeVerdict
  \/ \E k \in Kinds : SwitchKind(k)
  \/ \E k \in AllKinds : PodFails(k)
  \/ ReconcileError \/ OperatorRestart

Next == \/ Operator \/ Environment \/ Kubernetes
        \/ Deliver \/ DeliverTemplate \/ Wake \/ Tick

\* The informer, the work queue with its single worker, Kubernetes' own
\* controllers and time always make progress; nobody else has to.
Fairness ==
  /\ WF_vars(Operator) /\ WF_vars(Kubernetes)
  /\ WF_vars(Deliver) /\ WF_vars(DeliverTemplate)
  /\ WF_vars(Wake) /\ WF_vars(Tick)

Spec == Init /\ [][Next]_vars

FairSpec == Spec /\ Fairness

-----------------------------------------------------------------------------
(* Properties.                                                             *)

TypeOK ==
  /\ clock \in 0 .. MaxClock
  /\ ws \in Workspaces
  /\ seen \in Workspaces
  /\ tpl \in [kind : Kinds, rev : 0 .. MaxEdits]
  /\ seenTpl \in [kind : Kinds, rev : 0 .. MaxEdits]
  /\ denied \in BOOLEAN
  /\ status \in [phase : Phases, drifted : BOOLEAN]
  /\ wl \in [AllKinds -> [exists : BOOLEAN, up : BOOLEAN, shape : Shapes]]
  /\ pod \in [AllKinds -> [st : PodStates, shape : Shapes]]
  /\ rc \in [pc : {"idle", "workload", "clear", "status"}, ws : Workspaces,
             tpl : [kind : AllKinds, rev : 0 .. MaxEdits],
             denied : BOOLEAN, at : 0 .. MaxClock, down : BOOLEAN, manual : BOOLEAN,
             ready : BOOLEAN, drifted : BOOLEAN]
  /\ queued \in BOOLEAN
  /\ timer \in {NoTime} \cup 0 .. MaxClock
  /\ used \in [Events -> Nat]
  /\ asked \in 0 .. MaxReloads
  /\ forced \in [AllKinds -> Nat]
  /\ served \in 0 .. MaxReloads
  /\ owed \subseteq {"change", "known"}

\* The decision for the CR as it now stands.
Verdict == Resolve(Sched, clock, ws.paused, ws.manualAt)

IsDown(k) == pod[k].st = "none" /\ (k \in Scaled => wl[k].exists /\ ~wl[k].up)

\* What the user is promised once everybody has caught up: the workload is
\* up or down as rule B says, the phase says so and why, pending changes
\* are flagged and no reload request is left behind.
Settled ==
  LET k == tpl.kind
      refused == ~ws.paused /\ ~computeExists(tpl) /\ denied
  IN IF refused THEN status.phase = "Failed"
     ELSE /\ ws.reload = 0
          /\ IF Verdict.down
             THEN /\ IsDown(k)
                  /\ status.phase = IF Verdict.manual THEN "Paused" ELSE "Stopped"
             ELSE /\ \/ pod[k].st = "ready" /\ status.phase = "Running"
                     \/ pod[k].st = "evicted" /\ status.phase = "Failed"
                  /\ status.drifted = (k # "VM" /\ LiveShape(k) # Desired(ws, tpl))

\* Reconcile's triggers suffice: whatever the interleaving of API calls,
\* edits, cron edges, stale reads, conflicts, errors and restarts, the
\* watches, requeues and timers bring the workspace to a settled state.
Converges == <>[]Settled

\* ADR 0001, against stale reads, lost updates and restarts too: a running
\* workload is restarted at most once for each change of configuration, so
\* nothing but a new shape can ever interrupt a session mid-flight.
RestartsNeedNewShape ==
  \A k \in AllKinds : forced[k] <= tpl.rev + ws.ov

\* workspace_controller.go: "The reload request is ONE-SHOT: consumed when
\* applied, and cleared just as well when there is nothing to apply": a
\* request that one reconcile has acted on never makes another restart the
\* desktop.
ReloadIsOneShot == [][forced' # forced => rc.ws.reload > served]_vars

\* docs/workspace-lifecycle.md: a reload "forces that boundary NOW": a
\* request accepted while a change is pending ends in a restart or a stop.
ReloadIsHonoured == "change" \in owed ~> "change" \notin owed

\* The same of the code as it is: when the operator has learnt of the change
\* and no other request is being consumed at that moment, the request ends in
\* a restart or a stop, whatever earlier or later requests, edits, overrides,
\* stale reads, conflicts and failures there are.
KnownChangeIsReloaded == "known" \in owed ~> "known" \notin owed

\* docs/governance.md: idleSuspendAfter pauses session-less workspaces,
\* "compute freed": once the operator has nothing left to do for a
\* workspace the sweeper paused, its desktop is not scaled up.
IdlePauseFreesCompute ==
  rc.pc = "idle" /\ ~queued /\ seen = ws /\ ws.paused /\ ws.manualAt = NoTime
    => ~IsUp(tpl.kind)

\* workspace_governance.go: "an image disabled after admission must stop
\* yielding compute for NEW pods": a reconcile that began under a denial
\* never scales a desktop up.
DenialStopsNewCompute ==
  [][\A k \in AllKinds : ~IsUp(k) /\ IsUp(k)' => ~rc.denied]_vars

\* docs/templates-and-protocols.md: "the home PVC is RWO, two desktop pods
\* must never overlap".
OneDesktop ==
  \A j, k \in AllKinds : pod[j].st # "none" /\ pod[k].st # "none" => j = k
=============================================================================
