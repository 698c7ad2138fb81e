# A verification project for WaaS

WaaS gives users desktops ("workspaces") on Kubernetes.  This directory holds
TLA+ modules for the parts of it whose correctness depends on the order of
events, the TLC configurations that check them on small instances, and TLAPS
proofs of some of the results for every value of the constants.  Paths below
are relative to the repository's root.

## 1. The system

| Component | State it keeps | Operations | What is hard |
|---|---|---|---|
| Schedule evaluator (`operator/pkg/schedule`) | none: recomputed from the clock, `spec.paused` and the manual-state-at annotation | `Resolve`, `ScheduledDown`, `NextEdge` | the verdict must follow a history it does not see; the bounded backward scan |
| Workspace reconciler (`operator/internal/controller`) | the workload object, the claim, the service, `status`; in memory a work queue and timers | `Reconcile` and its `ensure*` steps, finalizer, requeues | cached reads, conflicts, crashes between two writes, wake-ups that must not be missed |
| Credentials, KasmVNC config, pull secret (`desktop_credentials.go`, `kasm_*.go`, `pull_secret.go`) | two Secrets per password, a ConfigMap, a copied Secret | ensure each, stamp a hash on the pod template | containers read the objects when they start; policies and Secrets are not watched |
| Admission webhooks (`operator/internal/webhook`) | none; read the operator's cache | `validate`, `enforce`, template validation | the verdict is older than the write it admits; templates that come later |
| Policy and parameter functions (`operator/pkg/policy`, `operator/pkg/params`) | none | `Resolve`, `FindImage`, `CheckLimits`, `CheckOverrides`, `OwnerLoads`, `ValidateUserOverrides`, ... | one decision shared by webhook, reconciler and portal |
| Namespace placement and janitor (`placement.go`, `namespace_janitor.go`) | namespaces, their cleanup label, quota, network policy | create, adopt, heal, delete when empty | the emptiness check is several lists, the deletion another call |
| Workspace service (`api-server/internal/service`) | the Workspace CRs (in Kubernetes), sessions (SQL) | `Create`, `Delete`, `SetPaused`, `UpdateOverrides`, `Reload`, `Connect`, `ConnectionInfo`, volumes API | two writes per call, retries on conflict, a write from a stale read |
| Sweepers (`idle_sweeper.go`, `session_sweeper.go`) | none; read sessions and CRs | pause idle workspaces, end dead sessions | activity read before the write that relies on it |
| Remote workspaces (`remote_workspace_service.go`) | a row and a Secret per host | `Create`, `Update`, `Delete`, `Connect` | two stores without a common transaction |
| Accounts (`user_service.go`, `auth_service.go`, `oidc_service.go`, `user_sql.go`) | the users table | sign-in, update, profile, SSO, deletion, token check | rows read, kept and written back; the last administrator |
| Catalog synchronisation and event hub (`catalog_sync_worker.go`, `event_hub.go`) | catalog entries (SQL), pending set, wake channel, a channel per stream | sync by ticker, by administrator, by watch event; `Notify` | three syncers on one semaphore, events caused by the sync itself, full channels |
| Session proxy (`wwt`) | a WebSocket and a guacd or Kasm connection per session, a cache of connection info | handshake, two pumps, framing, clipboard filter, end callback | lost callbacks, fragments of instructions, pumps that block |
| Frontend, Helm charts, CRD schemas, migrations | - | - | not modelled |

The components meet in the Workspace CR.  The api-server and GitOps write it,
each write passes the webhook, the operator reads it through an informer
cache, acts on the cluster and writes the status; the api-server's sweepers
write it again, from what they know of sessions; wwt asks the api-server what
to connect to and reports the end.  `PROJECT.json` lists every component with
its state of coverage, and under `hazards` the lines where these interactions
can go wrong.

What makes the system correct, in one line per component:

* schedule: the last event (edge or user) decides, and every change of the
  verdict is announced;
* lifecycle: whatever happens, the desktop ends up where the CR and the clock
  want it, and a running session is interrupted only for a reason;
* home volume: a user's data is destroyed only by that user's choice (or the
  policy's lifetime limit), and no volume gets lost;
* governance: what is created stays within the caps on number, compute and
  storage, however admissions race, and a refusal is not final;
* tenancy: a namespace is reclaimed once it is empty, and not under the homes
  that were in it; a workspace is placed in any case;
* desktop: the api-server connects with the password the pod has, a clipboard
  right that was taken away does not come back with a new pod, locked parameters
  stay locked;
* sessions: a session ends once, an orphan is always ended and nothing else is
  swept, an ended session resolves no more;
* tunnel: a clipboard stream passes whole exactly when its direction was
  enabled as it opened, nothing else is lost, and both pumps stop;
* accounts: the last decision on role, activation and revocation stands
  whatever copies are written back, and an administrator is left;
* catalog: no wake-up and no notification is lost, the event path comes to rest,
  and the entries follow the image's spec.

## 2. The modules

| Module | Contents |
|---|---|
| `Schedule` | `schedule.go` as operators on sets of instants |
| `ScheduleRule` | the clock and a user over `Schedule`; rule B as a history variable |
| `WorkspaceLifecycle` | one workspace: API calls, template edits, informer, Reconcile, pods (uses `Schedule`) |
| `HomeVolume` | several workspaces and users, claims by name and by identity, deletion |
| `Governance` | one owner's workspaces and retained volumes under a policy: admission, adoption, reconcile |
| `PolicyRules` | policy selection, catalog, tags, protocols, override rights, parameters, template validation, as operators |
| `Desktop` | one desktop, what it runs with and what a session is opened with (extends `PolicyRules`) |
| `Tenancy` | one namespace between the reconciler and the janitor |
| `Sessions` | session rows, proxied requests, both sweepers, remote workspaces |
| `ClipboardGate` | what the clipboard filter promises: the abstract specification |
| `GuacTunnel` | the tunnel with framer, filter and pumps; implements `ClipboardGate` |
| `Accounts` | the users table under concurrent calls |
| `EventHub` | streams, their channels and `Notify` |
| `CatalogSync` | the sync worker and the image watch (extends `EventHub`) |
| `MC...` | definitions for the constants of the TLC configurations |
| `...Proofs` | theorems about the module of that name; `WorkspaceLifecycleProofs` also about `ScheduleRule`, `HomeVolumeProofs` also about `Tenancy` |

### Schedule and ScheduleRule

A cron is the set of instants at which it fires, a schedule two lists of
crons.  Parsing and time zones are left out (`parseAll` drops what does not
parse; the webhook rejects it earlier).  `lastOf` keeps the code's behaviour
for lists: the cron that comes last and fires in the window wins.
`ScheduleRule` adds a clock, `PauseOrResume` (the code's `SetPaused`) and the variable `intent`, which rule
B of `docs/workspace-lifecycle.md` determines from the history of events;
`Resolve` sees only the present.

### WorkspaceLifecycle

State: the CR (`ws`) and the template's kind and revision (`tpl`), the
operator's cached copies of both (`seen`, `seenTpl`; its client caches everything
but Secrets and ConfigMaps, `operator/cmd/main.go`), the policy verdict
(`denied`), the status, one workload object and one pod per kind, the reconcile in flight (`rc`, with its program
counter), the work queue (`queued`), the timed requeue (`timer`).

Reconcile is split where others can observe it: `BeginReconcile` (reads,
governance gate), `EnsureWorkload` (schedule decision and the write of the
workload, `ensureDeployment`, `ensureStatefulSet`, `ensurePod`,
`ensureVirtualMachine`), `ClearReloadRequest`, `PatchStatus` (with the
requeue).  Writes of the CR or its status from a stale read conflict and end
in `Abort`, an error return.  Workloads and pods are cached too, but the code
acts on them only by writes that a stale copy turns into a conflict, so they are
read as they are.  `ReconcileError` is any other error return,
`OperatorRestart` loses queue and timers and re-lists.  A pod template is its
fingerprint: the revision of the template and of the overrides.  Pods are run
by Kubernetes, which is external: `PodCreated`, `PodStopped`, `PodGone`,
`PodReady`, `PodFails`.  The history variables count requests (`asked`,
`served`), restarts in mid-session (`forced`), and what requests are owed
(`owed`): `Reload` notes whether it meets a pending change, and whether the
operator knows of that change and is not consuming another request.  Revisions
only grow: an edit that is taken back before anybody acts on it is not modelled.

### HomeVolume

A claim has a name, which can be reused, and an identity (`id`), which stands
for the data.  The labels that the code reads (`ws`, `owner`, `retained`) are
fields.  An update of a claim carries its resource version and is one step
with the read before it; a deletion goes by name and is a step of its own
(`DestroyHome`, `DeleteRetained`, `ExpireHome`).  `WorkspaceService.Delete` is
two writes (`StampDeleteHome`, `DeleteStamped`) of which the second may fail.
`consent` remembers the calls whose caller was told that the data would go.
The constant `Serial` restricts the users: nobody asks for a volume that a
live workspace names.  Without it data is lost (`home_two_adopters.cfg`).
`NoLossWithoutConsent` is `LossNeedsConsent` up to the first api-server call
that fails half way; the bare `LossNeedsConsent` fails in the run `home_volume`.

### Governance

One owner, one policy of several that `Policies` offers, one catalog entry and
one template.  Admission (`AdmitCreate`, `AdmitResume`) reads the cached
workspaces and claims (`seen`, `seenVol`); the write is stored later
(`Persist`).  `Reconcile` is the governance gate and what follows it; whether the
workload is up or down is `spec.paused`, or anything when the workspace has a
schedule.  A new workspace may adopt a retained volume (`spec.homeVolumeName`):
the webhook weighs it by the size of the volume (`AdmittedSize`) and leaves it
out of `RetainedVolumeLoads`, the operator weighs it by the template's homeSize
(`EvaluateGovernance`), relabels it (`EnsuredHome`, a conflict on a stale copy)
and keeps or deletes it with the workspace (`Finalize`).  `LoadOf` takes the cpu
from the limit, the request or the image's default; `OwnerLoads` skips what is
being deleted.  The comparison of a claim's copies by value stands for its
resource version.

The caps, the policy that matches and a template's homeSize stay as they are
within a behaviour; the template may come late and the catalog entry may be
switched off and on.  Per-workspace caps and image bounds do not depend on the
order of events and are left out; memory is capped like cpu.  The portal's quota
page, a sum over one read of the API server, is not modelled.

### PolicyRules and Desktop

`PolicyRules` states the decisions without state: which policy governs an
identity (highest priority, then name), which catalog entry covers an image
(exact, then longest registry), tag discipline, protocols, who may override
what (`CheckOverrides`), which guacd parameters a template may set and
delegate, and what the template webhook accepts (`ValidTemplate`).

`Desktop` runs them.  The operator and its webhook read policies, catalog,
template and workspace from a cache that follows kind by kind (`DeliverPolicies`,
`DeliverCatalog`, `DeliverTemplate`, `DeliverWorkspace`; a policy queues nothing).
A reconcile pass (`pass`) reads workspace and template once (`Begin`) and goes
through `Gate`, `EnsureResolver`, `EnsurePodCopy`, `EnsureKasmConfig`,
`EnsurePullSecret` (with `RecreatePull` between the deletion and the creation of a
copy of another type) and `EnsureWorkload`; policies and catalog are listed from
the cache at every use, as in the code, and any step may be the last
(`PassFails`, which also stands for the conflict of a write over a stale
Deployment).  A list from the cache does not fail.  A container reads the objects
behind its references when it starts (`Started`), also when it restarts in place
(`ContainerRestarts`).  Administrators edit everything, within a bound, at any
moment.

`Connect` and `ConnectionInfo` are the api-server's two halves of a session.  Its
client is not cached (`api-server/internal/k8s/client.go`).  Each half reads the
template, and each of these reads may fail: `Connect` then goes on without
parameters and denies the clipboard, `ConnectionInfo` opens the tunnel with no
parameters at all.

Two histories say what the properties are about.  `lost` counts the passwords a
workspace has lost: resolver copies that went and changes of mechanism.  `may`
holds the clipboard rights the owner has had, as the operator saw it, since the
pass began, and since the passes of the Deployment and of the pod did.

### Tenancy

The namespace and its cached copy, the objects inside it by kind, one worker
of the reconciler (`rec`) and one of the janitor (`jan`).  A pass of the
reconciler is one step per object: finalizer, namespace (create, adopt or
label), bootstrap, network policy, claim, files, workload; the deletion is
finalizer, sweep, release.  The janitor checks labels and the absence of
workspaces on the cache, then lists the kinds one after the other, then
deletes by name.  The API server refuses creations in a terminating
namespace.  `late` holds the homes created after the list of claims.

### Sessions

A row is opened by `Connect` (fetch the target, then record and sign) and
ended by the callback of wwt, by `Delete` of its target or by the session
sweeper, all through the conditional UPDATE `EndRow`.  wwt resolves a token,
opens the stream, closes it, reports the end (which may be lost) and, for
Kasm, keeps connection info in a cache with a TTL.  The idle sweeper lists
workspaces, reads the activity, then updates one after the other with the
listed resource version.  Remote workspaces are a row and a Secret written in
the code's order.

### GuacTunnel and ClipboardGate

`ClipboardGate` says when an instruction passes, in terms of the sequence of
instructions only.  `GuacTunnel` is the code: an instruction travels as two
fragments, a read returns any part of what has arrived, the framer cuts at
instruction boundaries and gives up on malformed or oversized input, the filter
has its fast path and its sets of blocked indices, and refused pastes are
answered with an error ack.  Either peer may leave at any time and guacd may
corrupt the stream.  The refinement maps the gate's `seen` and `passed` to the
log of what the filter judged; `grant` and `want` are the same variables.

### Accounts

A call is one action per SQL statement, on the copy of the row it read first
(`call[c].copy`).  `WriteRow` writes the columns that `Update` writes and not
role, activation and the revocation bound, which have writers of their own;
the transaction that guards the last administrator locks the seats it counted
(`held`).  The clock counts half seconds, since tokens carry whole ones.

### EventHub and CatalogSync

A stream's channel holds kinds up to `Cap`; `Notify` skips what is full.
`CatalogSync` has one image: three syncers (ticker, administrator, consumer of
watch events) read it, wait for the semaphore with their copy, sync, patch the
status - an event of the same watch - and release.  `pending` and `wake` are
the set and the channel of capacity 1 between watcher and consumer.  The watch
breaks and is reopened with a list; the api-server restarts and forgets
`lastSource`.  `Recorded` is what `syncLocked` remembers of an attempt, before it
fetches.  A source may fail as often as it likes (`SyncFails`); `Left` are the
sources the image may have when the process starts.

## 3. The runs

All of them pass.

| Run | Properties | States |
|---|---|---|
| `schedule_rule` | `FollowsLastEvent`, `NoSilentTransition`, types | 17,303 |
| `lifecycle_schedule` | `Converges`, types | 159,920 |
| `lifecycle_kinds` | `Converges` | 333,175 |
| `reload_honoured` | `RestartsNeedNewShape`, `KnownChangeIsReloaded` | 543,772 |
| `home_volume` | `LiveHomeSafe`, `NoLossWithoutConsent`, `NoOrphanVolume`, `Progress`, types | 1,178,289 |
| `governance` | `GrantedWithinQuota`, `HomesWithinQuota`, `RefusalIsNotFinal` | 669,985 |
| `tenancy` | `OldHomesSafe`, `Reclaimed`, `Placed` | 267,514 |
| `desktop` | `PasswordAgrees`, `RightsAreRecent`, `LocksHold`, `Served` | 388,644 |
| `sessions` | `RowHasSecret`, `EndsRightly`, `PauseRespectsResume`, `OrphansAreClosed`, `EndedStopsResolving` | 211,182 |
| `tunnel` | `ImplementsGate`, `NothingLost`, `RefusalsAnswered`, `Teardown` | 1,076,904 |
| `accounts` | `FloorHeld`, `LastDecisionStands`, `RevocationStands` | 784,670 |
| `catalog` | `NoLostWakeup`, `NoLostNotification`, `EntriesConverge`, `EventPathRests` | 651,726 |

Every module with a state states its type invariant, `TypeOK` (`RuleTypeOK`,
`TenancyTypeOK`, `HubTypeOK`).  Three runs check it; of every module it is a
theorem, so the others spend their time on the rest.

**schedule_rule** takes every pair of at most one start and one stop cron of
period 2, 3 or 5 and every offset, a scan window of 6 instants and toggles at
every instant; coinciding edges and an edge at the far end of the window
occur.

**lifecycle_schedule** has stale caches, a daily schedule of which three edges
fall into the run, a pause or resume at any instant and one fault (an error
return anywhere, or a restart).  `Converges` fails if any wake-up is missing:
the watch predicate's annotation case, the requeue at the edge, the requeue
after a conflict.  **lifecycle_kinds** does the same for the kinds without a
schedule: a switch of kind, a change of verdict, an idle sweep, a pod failure.
**reload_honoured** has an edit of the template, an override, a pause or resume,
two reload requests and a fault, with stale copies of both objects, so that a
second request meets the first one at every stage of its consumption.

**home_volume** has three workspaces of two users and two names, so that a
name passes from one to another, also to another user's, while a deletion is
under way; one workspace expires; one call or one reconcile fails; one volume
is deleted through the API.  It is `Serial`.

**governance** has two workspaces, one twice as large as the other by cpu, the
other by its home, and a volume kept from before that either may adopt.  Of the
two policies, one lets one workspace run at a time, the other both, with storage
for both homes but not for both and the kept volume.  A template comes late, one
is paused, one resumes, the catalog entry flips once; deletions, retention and the
deletion of retained volumes are not bounded.  Two resumptions race past the gate
and a deletion hides a volume from the sums, so `GrantedWithinQuota` is stated up
to the first resumption and `HomesWithinQuota` where workspaces are only created,
with or without adoption; the liveness property is not restricted.  For any number
of workspaces the safety properties are proved (GovernanceProofs).

**tenancy** has two workspaces, so that one is placed while the other leaves,
and one event: a failed call, a restart, a template edit or an
administrator's takeover of the network policy.

**desktop** has two edits by administrators out of policies, groups, catalog,
template, pull source and Secrets, so that one can fall between any two steps
of a pass, or between an edit and the operator's learning of it; a failed read of
the template by the api-server and a failed pass count as edits, so that a failure
and an edit meet.  The templates switch between mechanisms, lock and delegate
clipboard parameters.  One workspace and one session; a name that is used twice is
in `desktop_claims.cfg`.

**sessions** has one session on a workspace or on a remote host, two requests
of wwt on it, a fault (a lost callback, a failed call or a crash) and one
sweep that pauses.

**tunnel** has two stream indices, two instructions of guacd, two pastes, two
toggles, and a framer that holds back one fragment at most.  A stream that is
blocked and continues after its direction was switched on (`clipboard`, toggle,
`blob`), two streams that are open at once, a paste index that is used again,
acks whose order counts and an instruction cut between two reads all occur; an
index that guacd uses again needs a third instruction, with which the run exceeds
five minutes, and is left to the proof of `ImplementsGate`.

**accounts** has two accounts and two calls at once, each any of the seven, and
one that fails half way; five half seconds, so that a token and a revocation
fall into one second or into two.

**catalog** has two sources, two edits, one stream with a channel of one, one
undelivered event and one fault; syncs fail without a bound.  `EntriesConverge`
has to exclude failures that never end, `EventPathRests` holds through them: a
source recorded only when it was fetched makes every reported failure the cause
of the next fetch (the mutant of that property).  `catalog_events_only.cfg` shows
that `EntriesConverge` needs the ticker.

These bounds are enough for the interleavings of interest: the code keeps no
memory of earlier events besides the objects in the state, which take every
value that matters within them.  Deadlock is not checked, except for
`schedule_rule`: a workspace that has settled, or has been deleted, has nothing
left to do, and the bounded events run out.

### Fairness

`Converges` and `KnownChangeIsReloaded` assume weak fairness of the informers
(`Deliver`, `DeliverTemplate`), of the operator's single worker (controller-runtime retries
errors with backoff and never drops a key), of the timed requeue, of
Kubernetes' own controllers and of the clock.  `Progress` assumes the worker
and the pvc-protection controller; `RefusalIsNotFinal` the
storage of admitted writes, the informer and the worker, which retries
refusals on a slow loop (`requeueMissing`).  `Reclaimed` and `Placed` assume
the two workers, the watch and the cluster's deletions; strong fairness of
`Begin`, since one worker serves all keys in turn.  `Served` assumes the cache,
the worker with its slow retry, the periodic resync, the Deployment controller and the
garbage collector.  `OrphansAreClosed` and `EndedStopsResolving` assume the
session sweeper's ticker, the steps of a request that is under way and the
expiry of the cache.  `Teardown` assumes only that the handler runs on and that
reads and writes on closed connections return.  `EntriesConverge` and `EventPathRests` assume the
ticker, the watch goroutine, the consumer and the sync under way, and strong
fairness of the ticker's turn on the semaphore.  Nobody is assumed to call the
API, to edit anything, to delete anything, or to read from a socket.

### Other deviations

The statements below are made by comments or documents of the repository and
do not hold of the code.  Each is refuted by
`tlc -config <configuration> <module>`; where a run's own configuration is named,
put the property in the place of its properties, and check one property at a
time.

| Configuration | Module | Property | What happens |
|---|---|---|---|
| `schedule_order` | `MCScheduleRule` | `FollowsLastEvent` | with two crons of one kind `lastOf` returns the last activation of the last cron in the list; a workspace with start crons for week days and for Saturdays can be stopped when it should run |
| `reload_stale_cache` | `MCWorkspaceLifecycle` | `ReloadIsOneShot` | a served request is read again from the cache and restarts a desktop that was edited meanwhile |
| `reload_lost` | `MCWorkspaceLifecycle` | `ReloadIsHonoured` | a second request stamped before `clearReloadRequest` is removed with the first; with `CoherentCache = FALSE` and `MaxReloads = 1` also: a request for an edit that the operator has not seen yet finds nothing to apply and is cleared |
| `lifecycle_claims` | `MCWorkspaceLifecycle` | `IdlePauseFreesCompute` | the idle sweeper's pause has no manual-state-at stamp, so a schedule overrules it |
| `lifecycle_claims` | `MCWorkspaceLifecycle` | `DenialStopsNewCompute` | a start edge scales up an existing workload of a disabled image |
| `kind_switch` | `MCWorkspaceLifecycle` | `OneDesktop` | a changed workload kind starts a second desktop on one home |
| `home_two_adopters` | `MCHomeVolume` | `LiveHomeSafe` | the retained label, which admission relies on, stays until the adopter's first reconcile; a second adopter is admitted, and deleting one of the two with its data destroys the home of the other |
| `home_volume_api` | `MCHomeVolume` | `LiveHomeSafe` | an adoption between check and deletion in `DeleteRetainedVolume` |
| `home_volume` | `MCHomeVolume` | `LossNeedsConsent` | `Delete(keepVolume=false)` that fails after the annotation was written leaves the opt-in on a live workspace; a later deletion that means to keep the data destroys it |
| `quota_race` | `MCGovernance` | `SomebodyWins` | the second check counts all sibling CRs, not the granted ones; two creates that race through admission refuse each other on every retry |
| `governance` | `MCGovernance` | `ConcurrencyCapped` | two resumes race through admission; their compute exists, so nothing checks again |
| `quota_schedule` | `MCGovernance` | `DesktopsWithinQuota` | a workspace admitted as paused gets its scaled-down workload unchecked, and its schedule wakes it next to a running one |
| `quota_schedule` with `Policies <- MCTwoStored`, `CreatePaused = {FALSE}` | `MCGovernance` | `StorageWithinQuota` | the volume of a workspace under deletion is counted nowhere (with `CreatePaused = {TRUE, FALSE}` also: paused workspaces get their homes without the second check) |
| `quota_adopted_size` | `MCGovernance` | `VolumesWithinQuota` | a volume larger than the template's homeSize is adopted; the operator's second check and the siblings' admissions weigh it by homeSize |
| `tenancy` | `MCTenancy` | `EmptyWhenDeleted` | a home created after the janitor listed the claims goes with the namespace (`docs/workspace-deletion.md`) |
| `tenancy` | `MCTenancy` | `OnlyDeleteWhenEmpty` | the namespace was deleted and created again with another policy after the janitor read it; it deletes by name |
| `tenancy` | `MCTenancy` | `QuotaInstalled` | the bootstrap runs in the pass that creates the namespace only, and a failure there is not repaired (`docs/placement.md`) |
| `desktop` | `MCDesktop` | `PauseTakesEffect` | a missing pull source ends the pass before the workload is scaled, so a pause waits for it |
| `desktop` | `MCDesktop` | `ServedAsDeployed` | the template lost kasmvnc: the ConfigMap is deleted while the Deployment, whose new shape waits for a scale-up boundary, still mounts it |
| `desktop` | `MCDesktop` | `MenuMatches` | the template is edited between `Connect` and `ConnectionInfo`; the menu shows rights the tunnel does not give |
| `desktop` with `Templates <- VncTemplates` | `MCDesktop` | `LockedAtTunnel` | a lock is added after `Connect`, and `ConnectionInfo` fails to read the template: the tunnel opens without it |
| `desktop_claims` | `MCDesktop` | `ClipboardEnforced` | the policy is read for the ConfigMap and again for the hash; an edit in between leaves the pod with the old config under the new hash, and no drift is reported (`docs/kasmvnc.md`) |
| `desktop_claims` with `MaxEvents = 1` | `MCDesktop` | `NoStalePassword` | a workspace of a reused name takes over the resolver copy of its predecessor, which is then collected and generated anew |
| `desktop_claims` | `MCDesktop` | `StricterReading` | without groups an identity may fall to a laxer policy |
| `sessions` | `MCSessions` | `NeverPausedInUse` | a session is opened between the sweeper's read of the activity and its update |
| `sessions` | `MCSessions` | `DeadSessionsClose` | nothing ends the row of a lost callback while the target lives |
| `sessions` | `MCSessions` | `NoOrphanSecret` | the Secret's deletion fails after the row's, or an update writes it again after it |
| `accounts` | `MCAccounts` | `AdminFloor` | the deletion of an account is not under the floor |
| `account_namespace` | `MCAccounts` | `OneAccountPerNamespace` | the check for a shared namespace and the insertion are two statements |
| `accounts` | `MCAccounts` | `RevocationIsFinal` | an older revocation that is written later moves the bound back |
| `catalog_claims` | `MCCatalogSync` | `Coalesces` | a channel full of another kind swallows this one |
| `catalog_events_only` | `MCCatalogSync` | `EntriesConverge` | without the ticker, a syncer that waited with an old copy has the last word |
| `catalog_claims` | `MCCatalogSync` | `Tracked` | a sync that began before a deletion records its source after it |

Not a claim of the repository, but worth knowing: a consumer of watch events that
was overtaken while it waited for the semaphore fetches the source of its copy and
records that one, so the next event makes the event path fetch again what another
path had fetched.  `EventPathRests` says that this comes to an end.

## 4. The proofs

Every invariant, action property and refinement that a run checks, and the type
invariant of every module, is proved for all values of the constants.  The
constants satisfy the assumptions stated in the component's module and nothing
else, unless a theorem has a hypothesis, which is named below with the reason
for it.  The assumptions are types, bounds that leave room for the initial state
(`MaxTime` in `Accounts`), and that a marker such as "no such image" is not at
the same time a value (`Absent` in `CatalogSync`, `DesktopNilAssumption`).  The
fairness in a specification is never used.

**WorkspaceLifecycleProofs.**  The first part is about `ScheduleRule`.
`RuleBHolds`: if the schedule has at most one cron of
each kind and these are `Regular` (they fire again after every instant, and
what they fired last lies in the scan window), `RuleSpec => []FollowsLastEvent`.
`RuleTypeOK /\ FollowsLastEvent` is
inductive as it stands; the work is in the lemmas on `nextOf` and `lastOf` for
one regular cron (`NextOfList`, `LastOfList`) and on how they change from one
instant to the next (`NextOfStep`, `LastOfStep`): the next edge of a kind stays
the next one until it fires, and the last one changes exactly when one fires.
`Regular` is what the comment on `scanHorizon`
("8 days covers weekly schedules") assumes; `MCScheduleRule` evaluates it on
the crons of the runs.  `SleepIsSafe` proves `NoSilentTransition` under the same
hypothesis: between two instants the verdict can only change at the edge that
`nextOf` reported, because the cron of that kind is the only one.
`RuleTypesHold` needs no hypothesis.

The second part is about the reconciler.  `TypesHold` proves the type invariant.
`RestartsBounded` proves `RestartsNeedNewShape` for every bound, schedule, set
of kinds, and for stale and current caches.  The property is not
inductive, since it says nothing of what a stale reconcile may still do.  The
invariant `Growth` bounds what the operator knows: the revisions known to the
reconcile in flight, or else to the next one, are at most the present ones; the
shape of a workload is at most the known one; and the restarts of a kind are at
most the sum of the revisions of the shape in place.  A restart replaces that
shape by a known one that differs from it, which is larger.

**HomeVolumeProofs.**  `NoOrphans` proves `NoOrphanVolume` for every set of
workspaces, names and owners, with and without `Serial`.  The invariant adds
that a claim in use is labelled with an existing workspace that names it and has
the finalizer (`HomeHeld`), and that a
reconcile about to release a CR has left no claim in use labelled with it
(`ReleaseClear`).  `TypesHold` reads the type invariant off the same induction.

`ConsentNeeded` proves `NoLossWithoutConsent`, also with and without `Serial`:
the annotation on a CR, a deletion the worker has decided and a deletion done
all have a caller who was told (`Consented`), as long as no call has failed
between its two writes.

`LiveHomesSafe` proves `LiveHomeSafe` from `Serial`, without which it is false
(`home_two_adopters.cfg`, `home_volume_api.cfg`).  A deletion goes by name, so
the invariant `Safe` has to tie names to data: no two live workspaces, nor one
and a volume deletion, name the same claim (`NamedOnce`); an identity is
handed out once and never again after its destruction (`Identities`); the
bound claim with a live workspace's data is the one it names, labelled with
it (`HomeNamed`); and between the ownership check of `finalizeHomeVolume` and
the deletion the label does not change hands (`Decided`), because the one
worker that deletes is also the one that labels.

The last part is about `Tenancy`.  `TenancyTypesHold` proves the types, with
what each program counter of a pass implies about its tenant (`PassFits`) and
that nothing but a home outlives a workspace (`NothingElse`).  `OldHomesStay`
proves `OldHomesSafe` for any number of tenants, passes, restarts and faults:
homes appear only in `ensureHomePVC`, which counts them as late; the count
starts again only when the janitor looks at the claims and finds none, or when
the namespace is gone (`HomesStayLate`); and the janitor gets past the claims
only then (`OnlyLateHomes`).  `EmptyWhenDeleted`, which would say the same of
all homes, is false.

**SessionsProofs.**  `SecretsStay` proves `RowHasSecret` and `EndsAreRight` the
action property `EndsRightly`, for any sets of workspaces, remote hosts,
sessions and requests and any number of failures.  The first needs that a
deletion in flight reaches the Secret only when the row is gone
(`SecretsHeld`).  The second needs what makes the order of the sweeper's two
reads matter: every session that has a row, or is about to get one, is on a
target that exists or existed (`RowsKnown`, `CallsKnown`), targets only move
forward (`Forward`), so a workspace that is absent from a list made after the
row was read is gone (`SweepKnows`).  That an ended row is never written again
comes from the condition of the UPDATE (`EndStep`).  `ResumesStay` proves the
action property `PauseRespectsResume`: whatever was resumed since the sweeper's
listing has a newer resource version (`ResumesSeen`), so its update is refused.
`ForgottenForGood` is the safety half of `EndedStopsResolving`: an ended session
that is in no cache and that no request has resolved (`Forgotten`) stays so,
because a row is never opened again, the resolution asks for an open row, and
only a request that has resolved a session caches it.  `TypesHold` adds what a
row and a cache entry tell: who ended a session, and that only sessions of
cluster workspaces are cached.

**GovernanceProofs.**  `CreatesWithinQuota` proves `GrantedWithinQuota` for every
policy and any number of workspaces.  What the operator grants it grants on its
view of the siblings, so the invariant says how that view lags: a write
admitted and not stored (`Pending`), a cache behind the API server
(`Lagging`), compute only for what was seen alive (`Provisioned`).  A sum over
a set of workspaces is bounded by the sum over a larger one with larger terms;
since the library's induction takes an operator, the lemmas on `Total` go by a
least counterexample (`NatMin`, `SubsetInduction` over sets instead of
predicates).

`CreatesWithinStorage` proves `HomesWithinQuota`, also with adoption and with
retained volumes that are deleted meanwhile.  `VolumesKnown` says what the cache
of claims may miss while workspaces are only created: a volume that is still
retained is seen as it is, and what is seen as a home is one.  So the volumes that
exist are among the homes of the siblings the gate has summed and the retained
volumes it has summed, and none is in both; one that is being adopted is left out
of one sum and stands in the other with the size its template says, which is what
the hypothesis `HomesAsTemplated` of the property is for.
`TypesHold` proves the types.

**AccountsProofs.**  `FloorStands`, `DecisionsStand` and `RevocationsStand` prove
`FloorHeld`, `LastDecisionStands` and `RevocationStands` for any number of
accounts, calls and failures.  `Typed` says what a call between two statements
holds.  The floor needs `Locks`: what two transactions have locked is disjoint,
and each leaves a seat besides the one it gives up (`SpareSeat`), which the
other cannot take away because it is locked.  The two others are about the
columns that each statement writes: a stale copy carries neither role,
activation nor the bound (`WriteRowEffect`), and the bound in the row is the
latest revocation unless an older one overtook it (`Bounds`).  `TypesHold` adds
the times and the passwords (`Fits`): no bound, token or revocation under way is
dated ahead of the clock, and locks are held only for the decision about a seat.

**CatalogSyncProofs.**  `WakeupsStay` and `NotificationsStay` prove
`NoLostWakeup` and `NoLostNotification` for any number of
sources, streams, edits, faults and restarts and any capacity of the channels.
The two are inductive together with the types (`Shape`) and the fact that
only an open stream can be behind (`ClosedIsCurrent`); the lemmas on the hub
say what a full channel drops and that it still holds the kind.  `TypesHold`
adds that one sync runs at a time and that its runner is the holder of the
semaphore (`Exclusive`), through deletions, edits and restarts under way, and
that channels and watch stay within their capacity (`HubTyped`, `WatchTyped`).

**DesktopProofs.**  `PasswordsAgree`, `RightsStayRecent` and `LocksStay` prove
`PasswordAgrees`, `RightsAreRecent` and `LocksHold` for any policies, templates,
environments, groups and bounds.  What makes the first two true is spread over a
pass of many steps, a Deployment and a pod, each made from what was there at
another time.  All rests on `Ownership` and `Views`: passes and Deployment
are of the workspace that is there, or none is there (a reused name is a new
identity), and a cached workspace that is not on its way out is the present one.

- For the password, a pass, a Deployment and a pod carry the count of losses at
  the beginning of the pass that made them, in this order (`LostOrdered`); what
  still carries the present count agrees with the resolver copy: the pass
  (`PassPassword`), the pod-side copy (`PassCopied`), the Deployment, and the pod
  with what its container read (`PasswordInv`).
- For the clipboard, pass, Deployment and pod each have a set of rights, which
  contains those of now (`Own`) and, once a pass has written it, those of the
  ConfigMap (`Written`).  The sets grow with what the operator learns; a new
  pass starts a new set, but hands it to the Deployment only after it has
  written the ConfigMap (`Mays`, `WroteStays`).  No theorem is stated about
  ConfigMap and hash agreeing, which is false.
- For the locks, a token has no right that was locked at `Connect`, whether the
  template was read or not, and `SessFits` keeps that until the template is
  edited; a tunnel whose template was read is bound by its locks (`LockBinds`).

`TypesHold` proves the types.

**GuacTunnelProofs.**  `FilterImplementsGate` proves `ImplementsGate`, the
refinement of `ClipboardGate`; `FramesComplete` and `PastesAnswered` prove
`NothingLost` and `RefusalsAnswered`.  They hold for any number of streams,
instructions, pastes and toggles, any size of the framer's buffer and any cut
of the bytes.  The invariant has these parts:

- `Framed`: what is under way from guacd starts at an instruction boundary, so
  that the complete instructions of a concatenation are those of its parts
  (`DoneConcat`), and `NothingLost` is kept by a read that moves fragments
  from the wire to the buffer and by the filter that takes a prefix of it;
- `Orderly` and `LiveIn`: guacd opens an index only when it is free and uses it
  only while it is open, which the open streams it keeps decide; `PasteAt`
  says the same of the browser, whose streams all have one index;
- `Tracked`: an index is blocked exactly when the last instruction on it was
  dropped and did not end its stream; `Upright`: a stream has the verdict of
  its opening.  Both are kept by one turn of the filter's loop (`KeptStep`),
  by all of them (an induction over the positions of the frame, again by a
  least counterexample), and by the fast path, whose condition is that nothing
  is blocked;
- `RefusalsKept`: the refusals are what was acknowledged followed by the reply
  under way.

A step of the filter is then a `Judge` of the gate, a control a `Toggle`, and
every other step leaves the mapped variables alone.  `TypesHold` adds that a
pump which waits for its next read has written out what it judged (`Emptied`).

Only model-checked: liveness (`Converges`, `KnownChangeIsReloaded`, `Progress`,
`RefusalIsNotFinal`, `Reclaimed`, `Placed`, `Served`, `OrphansAreClosed`,
`EndedStopsResolving`, `Teardown`, `EntriesConverge`, `EventPathRests`), since the prover has no
rules for `ENABLED`, which weak and strong fairness are made of; and the
counterexamples of the last table above.

## 5. Left out, and the plan

Not modelled: the frontend; HTTP routing, decoding and configuration; charts,
schemas, migrations and generated code; token formats, password hashing, the
OIDC exchange and wwt's cache of signing keys; the parser of catalog
documents; names, metadata keys and the text of config files; views of
workspaces, volumes and templates; resizing and the metadata of volumes; the
ownership check of a namespace that a template names; windows templates and
credentials that a template refers to; ports of Services; wake-on-LAN and
address checks of remote hosts; the portal's quota page; the proxy's internal
pings and the browser messages it cannot parse.  These have no state, or none that
another step reads.

The operator reads through a cache everything but Secrets and ConfigMaps.  Stale
copies are modelled where a decision depends on them: of workspaces and
templates in `WorkspaceLifecycle`, of workspaces and claims in `Governance`, of
workspaces, templates, policies and catalog in `Desktop`, of namespaces and
workspaces in `Tenancy`.  Elsewhere a write over a stale copy is a conflict, which
is one of the failures of a pass.  Claims in `HomeVolume`, and policy and catalog
in `Governance`, are as the cache shows them.

What remains open, in the order of its worth:

1. Memory, per-workspace caps and image bounds in `Governance`, for the sake of
   the portal's quota page, which computes them by code of its own.
2. The storage cap while volumes move between live, deleting and retained:
   `StorageWithinQuota` is false, and `HomesWithinQuota` says what the code
   guarantees only where workspaces are created and none is deleted.
