----------------------------- MODULE Governance -----------------------------
(***************************************************************************)
(* How the quotas of one owner's policy are enforced: by the admission     *)
(* webhook, whose verdict reaches the API server some time before the      *)
(* object is stored, and by the reconciler, which evaluates the policy     *)
(* once more before it grants new compute.  Sources: validate, enforce and *)
(* otherLoads (workspace_webhook.go), the governance gate of Reconcile and *)
(* evaluateGovernance (workspace_governance.go), OwnerLoads,               *)
(* RetainedVolumeLoads and CheckLimits (pkg/policy).                       *)
(*                                                                         *)
(* Webhook and reconciler read Workspaces and claims through the operator's*)
(* informer cache.  One policy, one catalog entry and one template, as that*)
(* cache shows them, stand for what the workspaces of the owner use; memory*)
(* is capped like cpu.  A retained volume may become the home of a new     *)
(* workspace (spec.homeVolumeName).                                        *)
(***************************************************************************)
EXTENDS Integers, FiniteSets, FiniteSetsExt

CONSTANTS Ws,              \* the owner's workspaces, each created at most once
          Resources,       \* the compute each asks for: limit, request
          ImageDefault,    \* the compute the catalog entry gives otherwise
          Home,            \* the home size of each, by its template
          Kept,            \* volumes kept from earlier workspaces
          KeptSize,        \* and their sizes
          DefaultHome,     \* the home size counted when the template is gone
          Policies,        \* caps of the policy, as the admin may have set them
          CreatePaused,    \* values of spec.paused at creation
          Scheduled,       \* workspaces with a schedule, which overrules paused
          MaxPauses, MaxResumes, MaxToggles    \* bounds

Unlimited == -1            \* a nil cap

Unset == -1                \* a quantity that is not given

ASSUME SizesAssumption ==
  /\ Resources \in [Ws -> [limit : Nat \cup {Unset}, request : Nat \cup {Unset}]]
  /\ ImageDefault \in Nat \cup {Unset}
  /\ Home \in [Ws -> Nat] /\ DefaultHome \in Nat
  /\ KeptSize \in [Kept -> Nat] /\ IsFiniteSet(Kept) /\ Kept \cap Ws = {}
ASSUME LimitsAssumption ==
  Policies \subseteq
    [workspaces : Nat \cup {Unlimited}, running : Nat \cup {Unlimited},
     cpu : Nat \cup {Unlimited}, storage : Nat \cup {Unlimited}]
ASSUME ScheduledAssumption == Scheduled \subseteq Ws /\ IsFiniteSet(Ws)
ASSUME CreatePausedAssumption == CreatePaused \subseteq BOOLEAN
ASSUME GovernanceBoundsAssumption ==
  MaxPauses \in Nat /\ MaxResumes \in Nat /\ MaxToggles \in Nat

VARIABLES
  limits,   \* the caps of the policy; they stay as they are
  cr,       \* the Workspace CRs in the API server
  seen,     \* the operator's cached copies
  req,      \* admitted writes that are not stored yet
  tpl,      \* the template exists
  img,      \* the catalog entry is enabled
  comp,     \* the compute of each workspace: none, scaled down or up
  vol,      \* the owner's volumes: size, and whose home or retained
  seenVol,  \* the operator's cached copies of their claims
  refused,  \* workspaces whose status.phase is Failed
  used      \* bounded events so far

vars == <<limits, cr, seen, req, tpl, img, comp, vol, seenVol, refused, used>>

\* A home of its own is named after its workspace.
Vols == Ws \cup Kept

\* homePVCName: the volume a workspace adopts, or its own.
NoCr(w) == [st |-> "none", paused |-> FALSE, home |-> w]

NoReq(w) == [op |-> "none", paused |-> FALSE, home |-> w]

NoVol == [st |-> "none", size |-> 0, of |-> {}]

Retained(size) == [st |-> "retained", size |-> size, of |-> {}]

HomeOf(w, size) == [st |-> "home", size |-> size, of |-> {w}]

Init ==
  /\ limits \in Policies
  /\ cr = [w \in Ws |-> NoCr(w)]
  /\ seen = cr
  /\ req = [w \in Ws |-> NoReq(w)]
  /\ tpl \in BOOLEAN
  /\ img \in BOOLEAN
  /\ comp = [w \in Ws |-> "none"]
  /\ vol = [v \in Vols |-> IF v \in Kept THEN Retained(KeptSize[v]) ELSE NoVol]
  /\ seenVol = vol
  /\ refused = {}
  /\ used = [pause |-> 0, resume |-> 0, toggle |-> 0]

-----------------------------------------------------------------------------
(* pkg/policy.                                                             *)

Within(x, cap) == cap = Unlimited \/ x <= cap

\* LoadOf: limits if set, else requests, else the image's default.
LoadOf(w) ==
  LET r == Resources[w]
  IN CASE r.limit # Unset -> r.limit
       [] r.limit = Unset /\ r.request # Unset -> r.request
       [] OTHER -> ImageDefault

ComputeKnown(w) == LoadOf(w) # Unset

\* What a workspace weighs; without its template no compute and the default
\* home.
Cpu == [w \in Ws |-> IF tpl /\ ComputeKnown(w) THEN LoadOf(w) ELSE 0]

Storage == [w \in Ws |-> IF tpl THEN Home[w] ELSE DefaultHome]

Total(size, S) == MapThenSumSet(LAMBDA x : size[x], S)

\* Mutant of OwnerLoads: "only siblings that already HAVE compute or a home
\* volume claim", as far as the cache of claims knows.
OwnerLoadsWithClaim(view, skip) ==
  {x \in Ws \ skip : view[x].st = "live" /\ seenVol[view[x].home].st = "home"}

\* OwnerLoads: the workspaces that are not skipped and not being deleted.
OwnerLoads(view, skip) == {x \in Ws \ skip : view[x].st = "live"}

SizeIn(claims) == [v \in Vols |-> claims[v].size]

\* What spec.homeVolumeName names.
Adopted(w, home) == {home} \ {w}

\* RetainedVolumeLoads: storage only, without the volume being adopted.
RetainedVolumeLoads(claims, w, home) ==
  {v \in Vols : claims[v].st = "retained"} \ Adopted(w, home)

\* Mutant of CheckLimits: what runs already is compared with the caps, the
\* workspace itself is forgotten.
CheckLimitsOthersOnly(view, claims, w, paused, home, own) ==
  LET others == OwnerLoads(view, {w})
      running == {x \in others : ~view[x].paused}
      kept == RetainedVolumeLoads(claims, w, home)
  IN /\ Within(Cardinality(others) + 1, limits.workspaces)
     /\ paused \/ Within(Cardinality(running), limits.running)
     /\ limits.cpu # Unlimited => ComputeKnown(w)
     /\ Within(Total(Cpu, running), limits.cpu)
     /\ Within(Total(Storage, others) + Total(SizeIn(claims), kept) + own, limits.storage)

\* CheckLimits: the workspace and running counts, then the aggregates; own is
\* the storage of the workspace itself.
CheckLimits(view, claims, w, paused, home, own) ==
  LET others == OwnerLoads(view, {w})
      running == {x \in others : ~view[x].paused}
      kept == RetainedVolumeLoads(claims, w, home)
  IN /\ Within(Cardinality(others) + 1, limits.workspaces)
     /\ paused \/ Within(Cardinality(running) + 1, limits.running)
     /\ limits.cpu # Unlimited => ComputeKnown(w)
     /\ Within(Total(Cpu, running) + IF paused THEN 0 ELSE Cpu[w], limits.cpu)
     /\ Within(Total(Storage, others) + Total(SizeIn(claims), kept) + own, limits.storage)

\* The full decision: the image is allowed, then the limits.
Allowed(view, claims, w, paused, home, own) ==
  img /\ CheckLimits(view, claims, w, paused, home, own)

-----------------------------------------------------------------------------
(* Writes and their admission.                                             *)

\* enforce: an adopted volume already has its size.
AdmittedSize(w, home) ==
  IF home # w /\ seenVol[home].st # "none" THEN seenVol[home].size ELSE Home[w]

\* validate: a workspace whose template is missing is admitted unchecked.
Validate(w, paused, home) ==
  tpl => Allowed(seen, seenVol, w, paused, home, AdmittedSize(w, home))

\* checkHomeVolumeAdoption comes before the template and binds every caller.
AdmitCreate(w, paused, home) ==
  /\ cr[w].st = "none" /\ req[w] = NoReq(w)
  /\ \A v \in Adopted(w, home) : seenVol[v].st = "retained"
  /\ Validate(w, paused, home)
  /\ req' = [req EXCEPT ![w] = [op |-> "create", paused |-> paused, home |-> home]]
  /\ UNCHANGED <<limits, cr, seen, tpl, img, comp, vol, seenVol, refused, used>>

\* A resume re-runs the full check.
AdmitResume(w) ==
  /\ cr[w].st = "live" /\ cr[w].paused /\ req[w] = NoReq(w)
  /\ used.resume < MaxResumes
  /\ Validate(w, FALSE, cr[w].home)
  /\ used' = [used EXCEPT !.resume = @ + 1]
  /\ req' = [req EXCEPT ![w] = [op |-> "resume", paused |-> FALSE, home |-> cr[w].home]]
  /\ UNCHANGED <<limits, cr, seen, tpl, img, comp, vol, seenVol, refused>>

\* The API server stores what was admitted; an update of a CR that has
\* gone or has changed since fails.
Persist(w) ==
  LET r == req[w]
      stored == r.op = "create" \/ (cr[w].st = "live" /\ cr[w].paused)
  IN /\ r # NoReq(w)
     /\ req' = [req EXCEPT ![w] = NoReq(w)]
     /\ cr' = IF stored
              THEN [cr EXCEPT ![w] = [st |-> "live", paused |-> r.paused, home |-> r.home]]
              ELSE cr
     /\ UNCHANGED <<limits, seen, tpl, img, comp, vol, seenVol, refused, used>>

\* Pausing is exempt from every check.
Pause(w) ==
  /\ cr[w].st = "live" /\ ~cr[w].paused
  /\ used.pause < MaxPauses
  /\ cr' = [cr EXCEPT ![w].paused = TRUE]
  /\ used' = [used EXCEPT !.pause = @ + 1]
  /\ UNCHANGED <<limits, seen, req, tpl, img, comp, vol, seenVol, refused>>

Delete(w) ==
  /\ cr[w].st = "live"
  /\ cr' = [cr EXCEPT ![w].st = "deleting"]
  /\ UNCHANGED <<limits, seen, req, tpl, img, comp, vol, seenVol, refused, used>>

\* DeleteRetainedVolume.
DeleteVolume(v) ==
  /\ vol[v].st = "retained"
  /\ vol' = [vol EXCEPT ![v] = NoVol]
  /\ UNCHANGED <<limits, cr, seen, req, tpl, img, comp, seenVol, refused, used>>

\* GitOps applies the template; an admin flips the catalog entry.
ApplyTemplate ==
  /\ ~tpl
  /\ tpl' = TRUE
  /\ UNCHANGED <<limits, cr, seen, req, img, comp, vol, seenVol, refused, used>>

ToggleImage ==
  /\ used.toggle < MaxToggles
  /\ img' = ~img
  /\ used' = [used EXCEPT !.toggle = @ + 1]
  /\ UNCHANGED <<limits, cr, seen, req, tpl, comp, vol, seenVol, refused>>

-----------------------------------------------------------------------------
(* The operator.                                                           *)

Deliver(w) ==
  /\ seen[w] # cr[w]
  /\ seen' = [seen EXCEPT ![w] = cr[w]]
  /\ UNCHANGED <<limits, cr, req, tpl, img, comp, vol, seenVol, refused, used>>

DeliverClaim(v) ==
  /\ seenVol[v] # vol[v]
  /\ seenVol' = [seenVol EXCEPT ![v] = vol[v]]
  /\ UNCHANGED <<limits, cr, seen, req, tpl, img, comp, vol, refused, used>>

\* The governance gate guards the creation of new compute only.
Gated(w) == ~seen[w].paused /\ comp[w] = "none"

\* evaluateGovernance: the decision of the webhook, but a home weighs what the
\* template says, adopted or not.
EvaluateGovernance(w) ==
  Allowed(seen, seenVol, w, FALSE, seen[w].home, Home[w])

\* setUnready(PhaseFailed); the reconcile is retried on a slow loop.
Refuse(w) ==
  /\ refused' = refused \cup {w}
  /\ UNCHANGED <<comp, vol>>

\* The claim the operator knows is another's home or retained: it is relabelled.
MustRelabel(w) ==
  LET claim == seenVol[seen[w].home]
  IN claim.st # "none" /\ claim.of # {w}

\* ensureHomePVC: what becomes of the volume.  A claim that the cache does not
\* show is created, and left alone if it exists after all.
EnsuredHome(w) ==
  LET now == vol[seen[w].home]
  IN CASE MustRelabel(w) -> HomeOf(w, now.size)
       [] seenVol[seen[w].home].st = "none" /\ now.st = "none" -> HomeOf(w, Home[w])
       [] OTHER -> now

\* ensureHomePVC and ensureWorkload.  The effective state is what rule B
\* makes of spec.paused and the schedule (module Schedule).
Provision(w, down) ==
  /\ comp' = [comp EXCEPT ![w] = IF down THEN "down" ELSE "up"]
  /\ vol' = [vol EXCEPT ![seen[w].home] = EnsuredHome(w)]
  /\ refused' = refused \ {w}

\* Mutant of Due: a refusal is not retried.
DueOnce(w) == seen[w].st = "live" /\ tpl /\ w \notin refused

\* Reconcile gets past the deletion branch and finds the template.
Due(w) == seen[w].st = "live" /\ tpl

\* Relabelling a claim that has changed since it was read is a conflict: the
\* reconcile fails and is repeated.
Reconcile(w) ==
  /\ Due(w)
  /\ IF Gated(w) /\ ~EvaluateGovernance(w)
     THEN Refuse(w)
     ELSE /\ MustRelabel(w) => seenVol[seen[w].home] = vol[seen[w].home]
          /\ \E down \in IF w \in Scheduled THEN BOOLEAN ELSE {seen[w].paused} :
               Provision(w, down)
  /\ UNCHANGED <<limits, cr, seen, req, tpl, img, seenVol, used>>

\* The teardown finalizer: the home the cache shows as this workspace's is
\* deleted by name or retained (a stale copy is a conflict), the compute goes.
Finalize(w, keep) ==
  LET home == cr[w].home
      mine == seenVol[home].of = {w}
  IN /\ seen[w].st = "deleting" /\ cr[w].st = "deleting"
     /\ mine /\ keep => seenVol[home] = vol[home]
     /\ cr' = [cr EXCEPT ![w].st = "gone"]
     /\ comp' = [comp EXCEPT ![w] = "none"]
     /\ vol' = IF ~mine THEN vol
               ELSE [vol EXCEPT ![home] = IF keep THEN Retained(@.size) ELSE NoVol]
     /\ UNCHANGED <<limits, seen, req, tpl, img, seenVol, refused, used>>

Next ==
  \/ \E w \in Ws :
       \/ \E paused \in CreatePaused, home \in Vols : AdmitCreate(w, paused, home)
       \/ AdmitResume(w) \/ Persist(w) \/ Pause(w) \/ Delete(w)
       \/ Deliver(w) \/ Reconcile(w)
       \/ \E keep \in BOOLEAN : Finalize(w, keep)
  \/ \E v \in Vols : DeleteVolume(v) \/ DeliverClaim(v)
  \/ ApplyTemplate \/ ToggleImage

Spec == Init /\ [][Next]_vars

\* Admitted writes are stored, the cache catches up and the operator's work
\* queue serves every workspace, refused ones included.
Fairness ==
  /\ \A w \in Ws : /\ WF_vars(Persist(w)) /\ WF_vars(Deliver(w))
                   /\ WF_vars(Reconcile(w))
                   /\ WF_vars(\E keep \in BOOLEAN : Finalize(w, keep))
  /\ \A v \in Vols : WF_vars(DeliverClaim(v))

FairSpec == Spec /\ Fairness

-----------------------------------------------------------------------------
CrStates == [st : {"none", "live", "deleting", "gone"}, paused : BOOLEAN, home : Vols]

VolStates == [st : {"none", "home", "retained"}, size : Nat, of : SUBSET Ws]

TypeOK ==
  /\ limits \in Policies
  /\ cr \in [Ws -> CrStates]
  /\ seen \in [Ws -> CrStates]
  /\ req \in [Ws -> [op : {"none", "create", "resume"}, paused : BOOLEAN, home : Vols]]
  /\ tpl \in BOOLEAN
  /\ img \in BOOLEAN
  /\ comp \in [Ws -> {"none", "down", "up"}]
  /\ vol \in [Vols -> VolStates]
  /\ seenVol \in [Vols -> VolStates]
  /\ refused \subseteq Ws
  /\ used \in [pause : Nat, resume : Nat, toggle : Nat]

\* Live workspaces that hold compute and are meant to run.
Granted == {w \in Ws : cr[w].st = "live" /\ ~cr[w].paused /\ comp[w] # "none"}

\* docs/governance.md: maxRunningWorkspaces and the aggregates "cap compute
\* CONCURRENCY": what the operator has granted stays within the caps.  Not
\* so when two resumptions race.
ConcurrencyCapped ==
  /\ Within(Cardinality(Granted), limits.running)
  /\ Within(Total(Cpu, Granted), limits.cpu)

\* "Of two creates racing through admission only one may get compute": as
\* long as nobody resumes, the caps hold also when admission was raced or
\* deferred (siblingLoads).
GrantedWithinQuota == used.resume = 0 => ConcurrencyCapped

\* docs/governance.md: maxRunningWorkspaces caps the desktops that run.  Not
\* so with a schedule, which wakes a workspace whose spec.paused let it pass
\* the gate (and not when two resumptions race).
DesktopsWithinQuota ==
  Within(Cardinality({w \in Ws : cr[w].st = "live" /\ comp[w] = "up"}), limits.running)

\* The owner has created workspaces and left them alone: none was paused,
\* resumed or deleted.
OnlyCreated ==
  /\ used.resume = 0
  /\ \A w \in Ws : cr[w].st # "none" => cr[w].st = "live" /\ ~cr[w].paused

\* Every home serves a workspace whose template gives it that size.
HomesAsTemplated ==
  \A v \in Vols : vol[v].st = "home" =>
    \E w \in Ws : comp[w] # "none" /\ cr[w].home = v /\ vol[v].size <= Home[w]

\* All the volumes of the owner fit the cap together as soon as something was
\* granted.  Not so when an adopted volume is larger than the homeSize of the
\* template, by which evaluateGovernance and OwnerLoads weigh it.
VolumesWithinQuota ==
  OnlyCreated /\ (\E w \in Ws : comp[w] # "none") =>
    Within(Total(SizeIn(vol), Vols), limits.storage)

\* docs/volumes.md: retained volumes count against the aggregate storage cap.
\* Whatever creations and adoptions race on the stale caches, and whichever
\* retained volumes are deleted meanwhile, what exists stays within it, as far
\* as homes have the size their templates say.
HomesWithinQuota == HomesAsTemplated => VolumesWithinQuota

\* The volumes that are retained or in the hands of a live workspace stay
\* within it always: not so while a workspace is being deleted.
StorageWithinQuota ==
  LET held == {v \in Vols : vol[v].st = "retained" \/ \E w \in vol[v].of : cr[w].st = "live"}
  IN Within(Total(SizeIn(vol), held), limits.storage)

\* The policy as it stands would let the workspace run.
Grantable(w) ==
  /\ cr[w].st = "live" /\ ~cr[w].paused /\ tpl
  /\ Allowed(cr, vol, w, FALSE, cr[w].home, Home[w])

\* Reconcile: "Policies and catalog can change; retry on a slow loop": a
\* refused workspace whose obstacle goes away for good gets its desktop.
RefusalIsNotFinal ==
  \A w \in Ws : <>[]Grantable(w) => <>[](comp[w] = "up")

\* siblingLoads: "of two admission-raced workspaces the first to reconcile
\* wins": while there are workspaces that each fit the quota alone, one of
\* them ends up with compute.
SomebodyWins ==
  (\E w \in Ws : cr[w].st = "live") ~>
    \/ \E w \in Ws : comp[w] # "none"
    \/ \A w \in Ws : cr[w].st # "live"
    \/ ~tpl \/ ~img
=============================================================================
