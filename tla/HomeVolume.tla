----------------------------- MODULE HomeVolume -----------------------------
(***************************************************************************)
(* The home volumes of the workspaces of one namespace: creation, adoption *)
(* of a retained volume, the user's keep-or-delete choice, the teardown    *)
(* finalizer, the lifetime limit of a policy, and the volumes API.         *)
(* Sources: ensureHomePVC, finalizeHomeVolume and the deletion branch of   *)
(* Reconcile (workspace_controller.go), enforceLifetime                    *)
(* (workspace_governance.go), checkHomeVolumeAdoption (the webhook),       *)
(* WorkspaceService.Create, Delete and DeleteRetainedVolume (api-server).  *)
(*                                                                         *)
(* A volume claim (PVC) has a name, which can be reused, and an identity,  *)
(* which stands for the user's data and cannot.  Updates of a claim are    *)
(* guarded by its resource version and so are atomic with the read before  *)
(* them; deletions go by name and are not.                                 *)
(***************************************************************************)
EXTENDS Naturals, FiniteSets

CONSTANTS Ws,             \* workspace CRs, each created at most once
          Names,          \* claim names
          Owners,         \* users
          Owner,          \* the user of each workspace
          Derived,        \* "<workload>-home" for each workspace
          Serial,         \* TRUE: nobody asks for a live workspace's volume
          Expiring,       \* workspaces under a policy with a maxLifetime
          MaxApiFaults,   \* bound: Delete calls of the api-server that fail
          MaxFaults,      \* bound: these and reconciles that fail
          MaxVolumeDeletes  \* bound: deletions through the volumes API

ASSUME OwnerAssumption == Owner \in [Ws -> Owners]
ASSUME DerivedAssumption == Derived \in [Ws -> Names]
ASSUME NoWsAssumption == "none" \notin Ws /\ "none" \notin Names /\ "api" \notin Ws
ASSUME ModeAssumption == Serial \in BOOLEAN /\ Expiring \subseteq Ws
ASSUME HomeBoundsAssumption ==
  MaxApiFaults \in Nat /\ MaxFaults \in Nat /\ MaxVolumeDeletes \in Nat

VARIABLES
  cr,         \* the workspace CRs
  pvc,        \* the claim under each name
  api,        \* api-server Delete calls between their two writes
  vapi,       \* the name a DeleteRetainedVolume call has checked
  rc,         \* the operator's single worker: workspace and step
  expired,    \* workspaces past their lifetime
  born,       \* claims created so far
  used,       \* bounded events so far
  home,       \* history: the data each workspace was last given
  consent,    \* history: Delete(keepVolume=false) in flight or successful
  destroyed   \* history: what was deleted, by whom and why

vars == <<cr, pvc, api, vapi, rc, expired, born, used, home, consent, destroyed>>

NoClaim == [st |-> "none", owner |-> "none", ws |-> "none", retained |-> FALSE,
            id |-> 0]

Idle == [ws |-> "none", pc |-> "idle"]

Exists(w) == cr[w].st \in {"live", "deleting"}

\* homePVCName.
Vol(w) == cr[w].vol

Init ==
  /\ cr = [w \in Ws |-> [st |-> "none", vol |-> Derived[w], finalizer |-> FALSE,
                         deleteHome |-> FALSE]]
  /\ pvc = [n \in Names |-> NoClaim]
  /\ api = {}
  /\ vapi = "none"
  /\ rc = Idle
  /\ expired = {}
  /\ born = 0
  /\ used = [api |-> 0, rec |-> 0, vol |-> 0]
  /\ home = [w \in Ws |-> 0]
  /\ consent = {}
  /\ destroyed = {}

-----------------------------------------------------------------------------
(* Creation.                                                               *)

\* A live workspace, or a volume deletion under way, names this claim.
Claimed(n) == vapi = n \/ \E x \in Ws : cr[x].st = "live" /\ Vol(x) = n

Created(w, n) ==
  /\ cr[w].st = "none"
  /\ Serial => ~Claimed(n)
  /\ cr' = [cr EXCEPT ![w] = [@ EXCEPT !.st = "live", !.vol = n]]
  /\ UNCHANGED <<pvc, api, vapi, rc, expired, born, used, home, consent,
                 destroyed>>

\* Create with a fresh home.  The webhook refuses a workload name in use;
\* the api-server (resolveWorkloadName) also avoids a name whose claim
\* exists, which a manifest applied with kubectl does not.
CreateFresh(w, viaApi) ==
  /\ \A x \in Ws : Exists(x) => Derived[x] # Derived[w]
  /\ viaApi => pvc[Derived[w]].st = "none"
  /\ Created(w, Derived[w])

\* checkHomeVolumeAdoption: an existing, retained volume of the same owner.
CreateAdopting(w, n) ==
  /\ \A x \in Ws : Exists(x) => Derived[x] # Derived[w]
  /\ pvc[n].st # "none" /\ pvc[n].retained /\ pvc[n].owner = Owner[w]
  /\ Created(w, n)

-----------------------------------------------------------------------------
(* Deletion requests.                                                      *)

\* The API server's DELETE: held by the finalizer, if there is one.
Doomed(c) == IF c.finalizer THEN [c EXCEPT !.st = "deleting"]
             ELSE [c EXCEPT !.st = "gone", !.deleteHome = FALSE]

\* Delete(keepVolume=true), kubectl delete, ArgoCD prune.
DeleteKeeping(w) ==
  /\ cr[w].st = "live"
  /\ cr' = [cr EXCEPT ![w] = Doomed(@)]
  /\ UNCHANGED <<pvc, api, vapi, rc, expired, born, used, home, consent, destroyed>>

\* Delete(keepVolume=false), first write: the delete-home annotation.
StampDeleteHome(w) ==
  /\ Exists(w) /\ w \notin api
  /\ cr' = [cr EXCEPT ![w].deleteHome = TRUE]
  /\ api' = api \cup {w}
  /\ consent' = consent \cup {w}
  /\ UNCHANGED <<pvc, vapi, rc, expired, born, used, home, destroyed>>

\* Second write: the deletion.  The caller sees success.
DeleteStamped(w) ==
  /\ w \in api
  /\ cr' = IF cr[w].st = "live" THEN [cr EXCEPT ![w] = Doomed(@)] ELSE cr
  /\ api' = api \ {w}
  /\ UNCHANGED <<pvc, vapi, rc, expired, born, used, home, consent, destroyed>>

\* Or it fails, or the process dies: the caller sees an error, the
\* workspace lives on and the annotation stays.
DeleteFails(w) ==
  /\ w \in api
  /\ used.api < MaxApiFaults /\ used.api + used.rec < MaxFaults
  /\ used' = [used EXCEPT !.api = @ + 1]
  /\ api' = api \ {w}
  /\ consent' = consent \ {w}
  /\ UNCHANGED <<cr, pvc, vapi, rc, expired, born, home, destroyed>>

Expire(w) ==
  /\ w \in Expiring \ expired /\ cr[w].st = "live"
  /\ expired' = expired \cup {w}
  /\ UNCHANGED <<cr, pvc, api, vapi, rc, born, used, home, consent, destroyed>>

-----------------------------------------------------------------------------
(* Claims.                                                                 *)

\* A DELETE of whatever claim has this name.
Destroy(n, by, why) ==
  IF pvc[n].st = "bound"
  THEN /\ pvc' = [pvc EXCEPT ![n].st = "terminating"]
       /\ destroyed' = destroyed \cup {[id |-> pvc[n].id, by |-> by, why |-> why]}
  ELSE UNCHANGED <<pvc, destroyed>>

\* Kubernetes (external): the claim is released once no pod mounts it.
ClaimReleased(n) ==
  /\ pvc[n].st = "terminating"
  /\ pvc' = [pvc EXCEPT ![n] = NoClaim]
  /\ UNCHANGED <<cr, api, vapi, rc, expired, born, used, home, consent, destroyed>>

\* DeleteRetainedVolume: the check, then the deletion by name.
CheckRetained(n) ==
  /\ vapi = "none" /\ used.vol < MaxVolumeDeletes
  /\ pvc[n].st # "none" /\ pvc[n].retained
  /\ Serial => ~Claimed(n)
  /\ vapi' = n
  /\ used' = [used EXCEPT !.vol = @ + 1]
  /\ UNCHANGED <<cr, pvc, api, rc, expired, born, home, consent, destroyed>>

DeleteRetained(n) ==
  /\ vapi = n
  /\ Destroy(n, "api", "volume")
  /\ vapi' = "none"
  /\ UNCHANGED <<cr, api, rc, expired, born, used, home, consent>>

-----------------------------------------------------------------------------
(* The operator, a single worker.                                          *)

AddFinalizer(w) ==
  /\ rc = Idle
  /\ cr[w].st = "live" /\ ~cr[w].finalizer
  /\ cr' = [cr EXCEPT ![w].finalizer = TRUE]
  /\ UNCHANGED <<pvc, api, vapi, rc, expired, born, used, home, consent, destroyed>>

\* A reconcile of a live workspace, past the finalizer.
Reconcilable(w) == rc = Idle /\ cr[w].st = "live" /\ cr[w].finalizer

\* enforceLifetime: the claim goes by name, whoever it belongs to, ...
ExpireHome(w) ==
  /\ Reconcilable(w) /\ w \in expired
  /\ Destroy(Vol(w), w, "ttl")
  /\ rc' = [ws |-> w, pc |-> "expire"]
  /\ UNCHANGED <<cr, api, vapi, expired, born, used, home, consent>>

\* ... then the workspace.
ExpireWorkspace(w) ==
  /\ rc = [ws |-> w, pc |-> "expire"]
  /\ cr' = IF cr[w].st = "live" THEN [cr EXCEPT ![w] = Doomed(@)] ELSE cr
  /\ rc' = Idle
  /\ UNCHANGED <<pvc, api, vapi, expired, born, used, home, consent, destroyed>>

\* Mutant of Labelled: the label holds the workload's name.
LabelledByWorkload(c, w) ==
  [c EXCEPT !.ws = Derived[w], !.owner = Owner[w], !.retained = FALSE]

\* The labels of a workspace's home.
Labelled(c, w) == [c EXCEPT !.ws = w, !.owner = Owner[w], !.retained = FALSE]

\* Mutant of Usable: a retained volume is nobody's to mount.
UsableUnlessRetained(c, w) ==
  c.st = "bound" /\ c.owner = Owner[w] /\ ~c.retained

\* An existing claim ensureHomePVC takes over.
Usable(c, w) == c.st = "bound" /\ c.owner = Owner[w]

\* ensureHomePVC.  A terminating claim or another owner's is an error.
EnsureHome(w) ==
  LET c == pvc[Vol(w)]
  IN /\ Reconcilable(w) /\ w \notin expired
     /\ \/ /\ c.st = "none"
           /\ born' = born + 1
           /\ pvc' = [pvc EXCEPT ![Vol(w)] =
                        Labelled([NoClaim EXCEPT !.st = "bound", !.id = born'], w)]
        \/ /\ Usable(c, w)
           /\ pvc' = [pvc EXCEPT ![Vol(w)] = Labelled(c, w)]
           /\ born' = born
     /\ home' = [home EXCEPT ![w] = pvc'[Vol(w)].id]
     /\ UNCHANGED <<cr, api, vapi, rc, expired, used, consent, destroyed>>

\* Mutants of StillHome and Retain: no ownership guard; the volume is left
\* with the labels of the workspace.
StillHomeUnguarded(w) == pvc[Vol(w)].st # "none"

RetainNothing(c) == c

\* The ownership guard of finalizeHomeVolume.
StillHome(w) == pvc[Vol(w)].st # "none" /\ pvc[Vol(w)].ws = w

Retain(c) == [c EXCEPT !.retained = TRUE, !.ws = "none"]

\* Mutant of DeletesHome: the choice is ignored.
DeletesHomeAlways(w) == TRUE

\* The user opted in to the deletion of the data.
DeletesHome(w) == cr[w].deleteHome

\* finalizeHomeVolume: nothing to do, or detach, or decide to delete.
FinalizeHome(w) ==
  /\ rc = Idle /\ cr[w].st = "deleting"
  /\ \/ /\ ~StillHome(w)
        /\ rc' = [ws |-> w, pc |-> "release"]
        /\ pvc' = pvc
     \/ /\ StillHome(w) /\ ~DeletesHome(w)
        /\ pvc' = [pvc EXCEPT ![Vol(w)] = Retain(@)]
        /\ rc' = [ws |-> w, pc |-> "release"]
     \/ /\ StillHome(w) /\ DeletesHome(w)
        /\ rc' = [ws |-> w, pc |-> "destroy"]
        /\ pvc' = pvc
  /\ UNCHANGED <<cr, api, vapi, expired, born, used, home, consent, destroyed>>

DestroyHome(w) ==
  /\ rc = [ws |-> w, pc |-> "destroy"]
  /\ Destroy(Vol(w), w, "choice")
  /\ rc' = [ws |-> w, pc |-> "release"]
  /\ UNCHANGED <<cr, api, vapi, expired, born, used, home, consent>>

\* teardownPlacement, then the finalizer is removed and the CR goes.
Release(w) ==
  /\ rc = [ws |-> w, pc |-> "release"]
  /\ cr' = [cr EXCEPT ![w] = [@ EXCEPT !.st = "gone", !.vol = Derived[w],
                                       !.deleteHome = FALSE]]
  /\ home' = [home EXCEPT ![w] = 0] /\ expired' = expired \ {w}
  /\ rc' = Idle
  /\ UNCHANGED <<pvc, api, vapi, born, used, consent, destroyed>>

\* A call fails (reportTeardownFailure) or the operator restarts: the
\* reconcile starts over.
ReconcileFails ==
  /\ rc # Idle
  /\ used.api + used.rec < MaxFaults
  /\ used' = [used EXCEPT !.rec = @ + 1]
  /\ rc' = Idle
  /\ UNCHANGED <<cr, pvc, api, vapi, expired, born, home, consent, destroyed>>

Operator(w) ==
  \/ AddFinalizer(w) \/ ExpireHome(w) \/ ExpireWorkspace(w) \/ EnsureHome(w)
  \/ FinalizeHome(w) \/ DestroyHome(w) \/ Release(w)

Next ==
  \/ \E w \in Ws :
       \/ \E viaApi \in BOOLEAN : CreateFresh(w, viaApi)
       \/ \E n \in Names : CreateAdopting(w, n)
       \/ DeleteKeeping(w) \/ StampDeleteHome(w) \/ DeleteStamped(w)
       \/ DeleteFails(w) \/ Expire(w)
       \/ Operator(w)
  \/ \E n \in Names : ClaimReleased(n) \/ CheckRetained(n) \/ DeleteRetained(n)
  \/ ReconcileFails

Spec == Init /\ [][Next]_vars

\* The work queue does not stop, and Kubernetes releases claims.
Fairness ==
  /\ WF_vars(\E w \in Ws : Operator(w))
  /\ WF_vars(\E n \in Names : ClaimReleased(n))

FairSpec == Spec /\ Fairness

-----------------------------------------------------------------------------
Claims == [st : {"none", "bound", "terminating"}, owner : Owners \cup {"none"},
           ws : Ws \cup {"none"}, retained : BOOLEAN, id : Nat]

CRs == [st : {"none", "live", "deleting", "gone"}, vol : Names,
        finalizer : BOOLEAN, deleteHome : BOOLEAN]

Losses == [id : Nat, by : Ws \cup {"api"}, why : {"choice", "ttl", "volume"}]

Jobs == [ws : Ws \cup {"none"}, pc : {"idle", "expire", "destroy", "release"}]

TypeOK ==
  /\ cr \in [Ws -> CRs]
  /\ pvc \in [Names -> Claims]
  /\ api \subseteq Ws
  /\ vapi \in Names \cup {"none"}
  /\ rc \in Jobs
  /\ expired \subseteq Ws
  /\ born \in Nat
  /\ used \in [api : Nat, rec : Nat, vol : Nat]
  /\ home \in [Ws -> Nat]
  /\ consent \subseteq Ws
  /\ destroyed \subseteq Losses

\* finalizeHomeVolume's guard ("deleting or relabeling it here would destroy
\* someone else's live data"): the data a live workspace was given is never
\* deleted on behalf of anyone but that workspace.
LiveHomeSafe ==
  \A x \in destroyed : \A w \in Ws :
    cr[w].st = "live" /\ home[w] = x.id => x.by = w

\* docs/workspace-deletion.md: without the opt-in of the deletion that the
\* caller saw succeed, a volume is retained: "GitOps can never destroy user
\* data by pruning a Workspace".  Not so after a call that failed halfway.
LossNeedsConsent ==
  \A x \in destroyed : x.why = "choice" => x.by \in consent

\* It holds as long as no Delete call of the api-server fails between its two
\* writes (StampDeleteHome, DeleteStamped).
NoLossWithoutConsent == used.api = 0 => LossNeedsConsent

\* docs/volumes.md: a volume is either some workspace's home or retained,
\* so that it is listed, adoptable and counted against the quota.
NoOrphanVolume ==
  \A n \in Names : pvc[n].st = "bound" =>
    pvc[n].retained \/ \E w \in Ws : Exists(w) /\ Vol(w) = n /\ pvc[n].ws = w

\* In the end nobody waits: every deletion asked for has run to its end, and
\* a live workspace has a home of its own unless another user's volume
\* occupies the name.
Progress ==
  <>[](\A w \in Ws :
         /\ cr[w].st # "deleting"
         /\ cr[w].st = "live" =>
              \/ home[w] = pvc[Vol(w)].id /\ pvc[Vol(w)].st = "bound"
              \/ pvc[Vol(w)].st = "bound" /\ pvc[Vol(w)].owner # Owner[w])
=============================================================================
