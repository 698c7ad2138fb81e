------------------------------ MODULE Tenancy -------------------------------
(***************************************************************************)
(* One tenant namespace: the workspace reconciler that creates it and      *)
(* places workspaces in it (placement.go and the order of Reconcile), the  *)
(* namespace janitor that reclaims it when it is empty                     *)
(* (namespace_janitor.go), and the cluster between them.                   *)
(*                                                                         *)
(* Each controller has one worker.  Namespaces are read from the           *)
(* operator's informer cache; so are Workspaces, where a late cache is the *)
(* same as a worker that starts earlier.  The janitor lists the content of *)
(* a namespace straight from the API, one kind after the other.            *)
(***************************************************************************)
EXTENDS Naturals, FiniteSets

CONSTANTS
    Tenants,          \* workspaces placed in this namespace, each created once
    MaxEvents         \* bound: template edits, takeovers, failed calls and restarts

ASSUME TenancyBounds == MaxEvents \in Nat

VARIABLES
    ns,          \* the Namespace
    nsSeen,      \* its copy in the cache
    netpol,      \* waas-default-ingress: "none" "current" "old" "taken"
    quota,       \* waas-quota exists
    pull,        \* the shared copy of the pull secret exists
    ws,          \* "none" "new" (no finalizer) "live" "deleting" "gone"
    claim,       \* home claim: "none" "bound" "retained" "terminating"
    load,        \* Deployment, Pod and Service: "none" "up" "stopping"
    files,       \* password Secret and KasmVNC ConfigMap beside the workload
    todo,        \* the reconciler's work queue
    rec,         \* the reconciler's worker: workspace and step
    jtodo,       \* the janitor's work queue
    jan,         \* the janitor's worker: "idle" "loads" "claims" "files" "delete"
    cleanup,     \* placement.cleanup of the template, with its default
    events,      \* bounded events so far
    late         \* history: homes made after the janitor last listed the claims

content == <<claim, load, files>>
tenancyVars == <<ns, nsSeen, netpol, quota, pull, ws, content, todo, rec,
                 jtodo, jan, cleanup, events, late>>

Policies == {"Retain", "DeleteWhenEmpty"}
NoNs == [st |-> "none", managed |-> FALSE, cleanup |-> "unset"]
None == "none"
NoPass == [ws |-> None, pc |-> "idle"]

Present(w) == ws[w] \in {"new", "live", "deleting"}

\* What the API server asks of a namespace before it creates something in it.
Accepts == ns.st = "active"

\* Both controllers watch Workspaces and workloads.
Watched(w) == todo' = todo \cup {w} /\ jtodo' = TRUE

-----------------------------------------------------------------------------
(* People: users, administrators, the operator's deployment.               *)

CreateWorkspace(w) ==
    /\ ws[w] = "none"
    /\ ws' = [ws EXCEPT ![w] = "new"]
    /\ Watched(w)
    /\ UNCHANGED <<ns, nsSeen, netpol, quota, pull, content, rec, jan, cleanup, events, late>>

\* Held by the finalizer, if there is one.
DeleteWorkspace(w) ==
    /\ ws[w] \in {"new", "live"}
    /\ ws' = [ws EXCEPT ![w] = IF @ = "new" THEN "gone" ELSE "deleting"]
    /\ Watched(w)
    /\ UNCHANGED <<ns, nsSeen, netpol, quota, pull, content, rec, jan, cleanup, events, late>>

\* The volumes API removes a retained volume.
DeleteRetainedVolume(w) ==
    /\ claim[w] = "retained"
    /\ claim' = [claim EXCEPT ![w] = "terminating"]
    /\ jtodo' = TRUE
    /\ UNCHANGED <<ns, nsSeen, netpol, quota, pull, ws, load, files, todo,
                   rec, jan, cleanup, events, late>>

EditTemplate ==
    /\ events < MaxEvents
    /\ events' = events + 1
    /\ \E p \in Policies \ {cleanup} : cleanup' = p
    /\ todo' = todo \cup {w \in Tenants : Present(w)}                  \* mapTemplateToWorkspaces
    /\ UNCHANGED <<ns, nsSeen, netpol, quota, pull, ws, content, rec,
                   jtodo, jan, late>>

\* An administrator takes the managed-by label off the network policy.
TakeOver ==
    /\ events < MaxEvents
    /\ netpol = "current"
    /\ netpol' = "taken"
    /\ events' = events + 1
    /\ UNCHANGED <<ns, nsSeen, quota, pull, ws, content, todo, rec,
                   jtodo, jan, cleanup, late>>

\* The caches are filled anew and both queues get everything; the egress
\* settings of the new process may differ (desktop_egress.go).
Restart ==
    /\ events < MaxEvents
    /\ events' = events + 1
    /\ nsSeen' = ns
    /\ todo' = {w \in Tenants : Present(w)}
    /\ jtodo' = TRUE
    /\ rec' = NoPass
    /\ jan' = "idle"
    /\ netpol' \in {netpol, IF netpol = "current" THEN "old" ELSE netpol}
    /\ UNCHANGED <<ns, quota, pull, ws, content, cleanup, late>>

-----------------------------------------------------------------------------
(* The cluster: watch events, drained pods, the namespace cascade.         *)

DeliverNamespace ==
    /\ nsSeen # ns
    /\ nsSeen' = ns
    /\ jtodo' = (jtodo \/ ns.managed \/ nsSeen.managed)          \* managedNS
    /\ UNCHANGED <<ns, netpol, quota, pull, ws, content, todo, rec, jan,
                   cleanup, events, late>>

\* The events of a workload reach both controllers.
WorkloadGone(w) ==
    /\ load[w] = "stopping" \/ (load[w] = "up" /\ ns.st = "terminating")
    /\ load' = [load EXCEPT ![w] = "none"]
    /\ Watched(w)
    /\ UNCHANGED <<ns, nsSeen, netpol, quota, pull, ws, claim, files, rec,
                   jan, cleanup, events, late>>

\* pvc-protection holds a claim until no pod mounts it.
HomeGone(w) ==
    /\ claim[w] = "terminating" \/ (claim[w] # "none" /\ ns.st = "terminating")
    /\ load[w] = "none"
    /\ claim' = [claim EXCEPT ![w] = "none"]
    /\ jtodo' = TRUE
    /\ UNCHANGED <<ns, nsSeen, netpol, quota, pull, ws, load, files, todo,
                   rec, jan, cleanup, events, late>>

\* The cascade takes the rest; nothing watches these kinds.
RestGone ==
    /\ ns.st = "terminating"
    /\ netpol # "none" \/ quota \/ pull \/ \E w \in Tenants : files[w]
    /\ netpol' = "none" /\ quota' = FALSE /\ pull' = FALSE
    /\ files' = [w \in Tenants |-> FALSE]
    /\ UNCHANGED <<ns, nsSeen, ws, claim, load, todo, rec, jtodo, jan,
                   cleanup, events, late>>

NamespaceGone ==
    /\ ns.st = "terminating"
    /\ netpol = "none" /\ ~quota /\ ~pull
    /\ \A w \in Tenants : claim[w] = "none" /\ load[w] = "none" /\ ~files[w]
    /\ ns' = NoNs
    /\ late' = {}
    /\ UNCHANGED <<nsSeen, netpol, quota, pull, ws, content, todo, rec,
                   jtodo, jan, cleanup, events>>

-----------------------------------------------------------------------------
(* The workspace reconciler.                                               *)

At(w, pc) == rec = [ws |-> w, pc |-> pc]
Goto(w, pc) == rec' = [ws |-> w, pc |-> pc] /\ UNCHANGED todo
Done(w) == rec' = NoPass /\ UNCHANGED todo
\* Mutant of Retry: the error is logged and dropped.
RetryDropped(w) == rec' = NoPass /\ UNCHANGED todo

\* An error: the key goes back into the queue.
Retry(w) == rec' = NoPass /\ todo' = todo \cup {w}

Begin(w) ==
    /\ rec = NoPass /\ w \in todo
    /\ todo' = todo \ {w}
    /\ rec' = CASE ws[w] = "new"      -> [ws |-> w, pc |-> "finalizer"]
                [] ws[w] = "live"     -> [ws |-> w, pc |-> "namespace"]
                [] ws[w] = "deleting" -> [ws |-> w, pc |-> "home volume"]
                [] OTHER                  -> NoPass
    /\ UNCHANGED <<ns, nsSeen, netpol, quota, pull, ws, content, jtodo,
                   jan, cleanup, events, late>>

\* The update fails when the CR changed since it was cached.
EnsureFinalizer(w) ==
    /\ At(w, "finalizer")
    /\ \/ ws[w] = "new" /\ ws' = [ws EXCEPT ![w] = "live"] /\ Goto(w, "namespace") /\ jtodo' = TRUE
       \/ ws[w] # "new" /\ Retry(w) /\ UNCHANGED <<ws, jtodo>>
    /\ UNCHANGED <<ns, nsSeen, netpol, quota, pull, content, jan,
                   cleanup, events, late>>

CreateNamespace(w) ==
    /\ At(w, "namespace") /\ nsSeen.st = "none"
    /\ ns' = IF ns.st = "none" THEN [st |-> "active", managed |-> TRUE, cleanup |-> cleanup]
             ELSE ns                                             \* AlreadyExists
    /\ Goto(w, "bootstrap")
    /\ UNCHANGED <<nsSeen, netpol, quota, pull, ws, content, jtodo, jan,
                   cleanup, events, late>>

\* ensureCleanupLabel fills a missing label of a namespace of the operator's own.
cleanupLabel(n) == IF n.managed /\ n.cleanup = "unset" THEN [n EXCEPT !.cleanup = cleanup] ELSE n

\* The namespace exists: the label's update fails on a stale copy.
FindNamespace(w) ==
    /\ At(w, "namespace") /\ nsSeen.st # "none"
    /\ \/ cleanupLabel(nsSeen) = nsSeen /\ Goto(w, "policy") /\ UNCHANGED ns
       \/ cleanupLabel(nsSeen) # nsSeen /\ ns = nsSeen /\ ns' = cleanupLabel(ns) /\ Goto(w, "policy")
       \/ cleanupLabel(nsSeen) # nsSeen /\ ns # nsSeen /\ Retry(w) /\ UNCHANGED ns
    /\ UNCHANGED <<nsSeen, netpol, quota, pull, ws, content, jtodo, jan,
                   cleanup, events, late>>

\* namespaceQuota: the owner's policy has aggregate caps; they are not
\* found when the policies cannot be listed, which is no error.
namespaceQuota(found) ==
    \/ found /\ UNCHANGED events
    \/ ~found /\ events < MaxEvents /\ events' = events + 1

\* bootstrapNamespace: only the pass that creates the namespace gets here.
\* The namespace is personal.
BootstrapNamespace(w) ==
    /\ At(w, "bootstrap")
    /\ \E found \in BOOLEAN :
          /\ namespaceQuota(found)
          /\ \/ found /\ ~quota /\ Accepts /\ quota' = TRUE /\ Goto(w, "policy")
             \/ (~found \/ quota) /\ Goto(w, "policy") /\ UNCHANGED quota
             \/ found /\ ~quota /\ ~Accepts /\ Retry(w) /\ UNCHANGED quota
    /\ UNCHANGED <<ns, nsSeen, netpol, pull, ws, content, jtodo, jan,
                   cleanup, late>>

\* Created when missing, brought up to date unless an administrator took it over.
Healed(p) == IF p = "taken" THEN p ELSE "current"

ensureNamespacePolicy(w) ==
    /\ At(w, "policy")
    /\ \/ (netpol # "none" \/ Accepts) /\ netpol' = Healed(netpol) /\ Goto(w, "claim")
       \/ netpol = "none" /\ ~Accepts /\ Retry(w) /\ UNCHANGED netpol
    /\ UNCHANGED <<ns, nsSeen, quota, pull, ws, content, jtodo, jan,
                   cleanup, events, late>>

\* A claim that is being deleted is never mounted.
ensureHomePVC(w) ==
    /\ At(w, "claim")
    /\ \/ claim[w] = "bound" /\ Goto(w, "files") /\ UNCHANGED <<claim, late, jtodo>>
       \/ /\ claim[w] = "none" /\ Accepts
          /\ claim' = [claim EXCEPT ![w] = "bound"]
          /\ late' = late \cup {w}
          /\ jtodo' = TRUE
          /\ Goto(w, "files")
       \/ /\ claim[w] = "terminating" \/ (claim[w] = "none" /\ ~Accepts)
          /\ Retry(w)
          /\ UNCHANGED <<claim, late, jtodo>>
    /\ UNCHANGED <<ns, nsSeen, netpol, quota, pull, ws, load, files, jan,
                   cleanup, events>>

\* The pod-side password copy, the KasmVNC config and the shared pull secret.
EnsureFiles(w) ==
    /\ At(w, "files")
    /\ \/ /\ (files[w] /\ pull) \/ Accepts
          /\ files' = [files EXCEPT ![w] = TRUE]
          /\ pull' = TRUE
          /\ Goto(w, "workload")
       \/ /\ ~(files[w] /\ pull) /\ ~Accepts
          /\ Retry(w)
          /\ UNCHANGED <<files, pull>>
    /\ UNCHANGED <<ns, nsSeen, netpol, quota, ws, claim, load, jtodo, jan,
                   cleanup, events, late>>

EnsureWorkload(w) ==
    /\ At(w, "workload")
    /\ \/ load[w] = "up" /\ Done(w) /\ UNCHANGED <<load, jtodo>>
       \/ /\ load[w] # "up" /\ Accepts
          /\ load' = [load EXCEPT ![w] = "up"]
          /\ jtodo' = TRUE
          /\ Done(w)
       \/ load[w] # "up" /\ ~Accepts /\ Retry(w) /\ UNCHANGED <<load, jtodo>>
    /\ UNCHANGED <<ns, nsSeen, netpol, quota, pull, ws, claim, files, jan,
                   cleanup, events, late>>

\* The deletion branch: the home's fate first, then the sweep, then the
\* finalizer.  The user chose to keep the home or not (HomeVolume).
finalizeHomeVolume(w) ==
    /\ At(w, "home volume")
    /\ \E fate \in {"retained", "terminating"} :
          claim' = [claim EXCEPT ![w] = IF @ = "bound" THEN fate ELSE @]
    /\ Goto(w, "sweep")
    /\ UNCHANGED <<ns, nsSeen, netpol, quota, pull, ws, load, files, jtodo,
                   jan, cleanup, events, late>>

Swept(w) ==
    /\ load' = [load EXCEPT ![w] = IF @ = "up" THEN "stopping" ELSE @]
    /\ files' = [files EXCEPT ![w] = FALSE]

teardownPlacement(w) ==
    /\ At(w, "sweep")
    /\ Swept(w)
    /\ Goto(w, "release")
    /\ UNCHANGED <<ns, nsSeen, netpol, quota, pull, ws, claim, jtodo, jan,
                   cleanup, events, late>>

RemoveFinalizer(w) ==
    /\ At(w, "release")
    /\ ws' = [ws EXCEPT ![w] = "gone"]
    /\ rec' = NoPass
    /\ Watched(w)
    /\ UNCHANGED <<ns, nsSeen, netpol, quota, pull, content, jan, cleanup, events, late>>

PassFails(w) ==
    /\ rec.ws = w /\ events < MaxEvents
    /\ events' = events + 1
    /\ Retry(w)
    /\ UNCHANGED <<ns, nsSeen, netpol, quota, pull, ws, content, jtodo, jan,
                   cleanup, late>>

-----------------------------------------------------------------------------
(* The janitor.                                                            *)

janUnchanged == <<nsSeen, netpol, quota, pull, ws, content, todo, rec,
                  cleanup, events>>

\* A workspace, live or terminating, targets the namespace.
Targeted(w) == ws[w] \in {"new", "live", "deleting"}

Reclaimable == nsSeen.managed /\ nsSeen.cleanup = "DeleteWhenEmpty"

JanitorBegin ==
    /\ jan = "idle" /\ jtodo
    /\ jtodo' = FALSE
    /\ jan' = IF nsSeen.st = "active" /\ Reclaimable /\ \A w \in Tenants : ~Targeted(w)
              THEN "loads" ELSE "idle"
    /\ UNCHANGED <<ns, late, janUnchanged>>

\* Mutant of Holds: home claims are not in the inventory.
HoldsLoads(kind) == kind = "loads" /\ \E w \in Tenants : load[w] # "none"

\* Mutant of Holds: every Secret counts, the shared pull secret too.
HoldsPull(kind) ==
    \/ kind = "loads"  /\ \E w \in Tenants : load[w] # "none"
    \/ kind = "claims" /\ \E w \in Tenants : claim[w] # "none"
    \/ kind = "files"  /\ (pull \/ \E w \in Tenants : files[w])

\* One List of isEmpty: is there an object of the kind?  The shared pull
\* secret does not count.
Holds(kind) ==
    \/ kind = "loads"  /\ \E w \in Tenants : load[w] # "none"
    \/ kind = "claims" /\ \E w \in Tenants : claim[w] # "none"
    \/ kind = "files"  /\ \E w \in Tenants : files[w]

After(kind) == CASE kind = "loads" -> "claims" [] kind = "claims" -> "files" [] kind = "files" -> "delete"

JanitorList ==
    /\ jan \in {"loads", "claims", "files"}
    /\ jan' = IF Holds(jan) THEN "idle" ELSE After(jan)
    /\ late' = IF jan = "claims" /\ ~Holds(jan) THEN {} ELSE late
    /\ UNCHANGED <<ns, jtodo, janUnchanged>>

\* The deletion goes by name, whatever happened since.
JanitorDelete ==
    /\ jan = "delete"
    /\ ns' = IF ns.st = "active" THEN [ns EXCEPT !.st = "terminating"] ELSE ns
    /\ jan' = "idle"
    /\ UNCHANGED <<jtodo, late, janUnchanged>>

JanitorFails ==
    /\ jan # "idle" /\ events < MaxEvents
    /\ events' = events + 1
    /\ jan' = "idle" /\ jtodo' = TRUE
    /\ UNCHANGED <<ns, nsSeen, netpol, quota, pull, ws, content, todo, rec,
                   cleanup, late>>

-----------------------------------------------------------------------------
\* The namespace does not exist, predates the cleanup label, or is an
\* administrator's own.
TenancyInit ==
    /\ ns \in {NoNs, [st |-> "active", managed |-> TRUE, cleanup |-> "unset"],
               [st |-> "active", managed |-> FALSE, cleanup |-> "unset"]}
    /\ nsSeen = ns
    /\ netpol = "none" /\ quota = FALSE /\ pull = FALSE
    /\ ws = [w \in Tenants |-> "none"]
    /\ claim = [w \in Tenants |-> "none"] /\ load = [w \in Tenants |-> "none"]
    /\ files = [w \in Tenants |-> FALSE]
    /\ todo = {} /\ rec = NoPass
    /\ jtodo = TRUE /\ jan = "idle"
    /\ cleanup \in Policies
    /\ events = 0
    /\ late = {}

People(w) == CreateWorkspace(w) \/ DeleteWorkspace(w) \/ DeleteRetainedVolume(w)

Cluster(w) == WorkloadGone(w) \/ HomeGone(w)

Reconcile(w) ==
    \/ EnsureFinalizer(w) \/ CreateNamespace(w) \/ FindNamespace(w) \/ BootstrapNamespace(w)
    \/ ensureNamespacePolicy(w) \/ ensureHomePVC(w) \/ EnsureFiles(w) \/ EnsureWorkload(w)
    \/ finalizeHomeVolume(w) \/ teardownPlacement(w) \/ RemoveFinalizer(w)

Janitor == JanitorBegin \/ JanitorList \/ JanitorDelete

TenancyNext ==
    \/ \E w \in Tenants : People(w) \/ Cluster(w) \/ Begin(w) \/ Reconcile(w) \/ PassFails(w)
    \/ EditTemplate \/ TakeOver \/ Restart
    \/ DeliverNamespace \/ RestGone \/ NamespaceGone
    \/ Janitor \/ JanitorFails

\* Workers and watches run, and a queue starves no key; people need not act.
TenancyFairness ==
    /\ \A w \in Tenants : WF_tenancyVars(Cluster(w)) /\ SF_tenancyVars(Begin(w))
                         /\ WF_tenancyVars(Reconcile(w))
    /\ WF_tenancyVars(DeliverNamespace) /\ WF_tenancyVars(RestGone)
    /\ WF_tenancyVars(NamespaceGone)
    /\ WF_tenancyVars(Janitor)

TenancySpec == TenancyInit /\ [][TenancyNext]_tenancyVars /\ TenancyFairness

-----------------------------------------------------------------------------
TenancyTypeOK ==
    /\ ns \in [st : {"none", "active", "terminating"}, managed : BOOLEAN, cleanup : Policies \cup {"unset"}]
    /\ nsSeen \in [st : {"none", "active", "terminating"}, managed : BOOLEAN, cleanup : Policies \cup {"unset"}]
    /\ netpol \in {"none", "current", "old", "taken"}
    /\ quota \in BOOLEAN /\ pull \in BOOLEAN
    /\ ws \in [Tenants -> {"none", "new", "live", "deleting", "gone"}]
    /\ claim \in [Tenants -> {"none", "bound", "retained", "terminating"}]
    /\ load \in [Tenants -> {"none", "up", "stopping"}]
    /\ files \in [Tenants -> BOOLEAN]
    /\ todo \subseteq Tenants /\ jtodo \in BOOLEAN
    /\ rec = NoPass \/ (rec.ws \in Tenants /\ rec.pc # "idle")
    /\ jan \in {"idle", "loads", "claims", "files", "delete"}
    /\ cleanup \in Policies
    /\ late \subseteq Tenants
    /\ ns.st = "none" => ns = NoNs
    \* nothing is left of a workspace whose CR is gone, except its home
    /\ \A w \in Tenants : ws[w] = "gone" => load[w] # "up" /\ ~files[w]

\* A namespace that is being reclaimed holds no home older than the
\* janitor's last look at the claims: every volume that existed then,
\* retained ones included, keeps its namespace (isEmpty, isEmpty's order).
OldHomesSafe == ns.st = "terminating" => \A w \in Tenants : claim[w] # "none" => w \in late

\* A namespace left empty is reclaimed, through drained pods, volumes
\* deleted long after their workspace, faults and restarts: the deletion
\* event of what was last inside wakes the janitor (SetupWithManager).
Reclaimed ==
    (/\ ns.managed /\ ns.cleanup = "DeleteWhenEmpty"
     /\ \A w \in Tenants : ~Present(w) /\ claim[w] = "none")
        ~> (ns.st = "none" \/ \E w \in Tenants : Present(w))

\* A workspace is placed in the end, home, files and workload, in a live
\* namespace, even when the janitor reclaims the namespace under it.
Placed ==
    \A w \in Tenants : ws[w] = "live"
        ~> (ws[w] # "live" \/ (Accepts /\ claim[w] = "bound" /\ files[w] /\ load[w] = "up"))

-----------------------------------------------------------------------------
\* What the documents say (docs/workspace-deletion.md: the janitor deletes
\* only a namespace targeted by no Workspace and holding no waas object).
EmptyWhenDeleted ==
    [][ns.st = "active" /\ ns'.st = "terminating" =>
          \A w \in Tenants : ~Present(w) /\ claim[w] = "none"]_tenancyVars

\* The namespace the janitor deletes is labelled DeleteWhenEmpty (the same
\* document): not when the name was reused since the janitor read it.
OnlyDeleteWhenEmpty ==
    [][ns.st = "active" /\ ns'.st = "terminating" => ns.cleanup = "DeleteWhenEmpty"]_tenancyVars

\* Every namespace the operator created carries its quota once a workspace
\* runs in it (docs/placement.md, bootstrapNamespace).
QuotaInstalled == \A w \in Tenants : ns.managed /\ ns.cleanup # "unset" /\ load[w] = "up" /\ rec = NoPass => quota

=============================================================================
