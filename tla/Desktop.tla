------------------------------- MODULE Desktop ------------------------------
(***************************************************************************)
(* What a desktop runs with and what the api-server believes it runs with: *)
(* the generated password and its two Secrets, the KasmVNC config with the *)
(* clipboard rules of the owner's policy, the pull secret, the Deployment  *)
(* that is stamped with a hash of all that, the pod that reads the objects *)
(* behind the references when its container starts, and the sessions the   *)
(* api-server opens on it.                                                 *)
(*                                                                         *)
(* One placed workspace of one user; the name may be used again after a    *)
(* deletion.  Administrators edit policies, catalog, template, groups and  *)
(* Secrets at any time.  Operator and webhook read all of it but Secrets   *)
(* and ConfigMaps from one informer cache, which follows kind by kind; a   *)
(* change of template, catalog, workspace or workload queues the           *)
(* workspace, one of a policy or a Secret does not.  A pass reads the      *)
(* workspace and the template once and lists policies and catalog at every *)
(* use; the api-server reads everything live.  Down-states are manual      *)
(* pauses here (schedules and reloads: WorkspaceLifecycle), the teardown   *)
(* is one step (HomeVolume, Tenancy), quotas are in Governance.            *)
(***************************************************************************)
EXTENDS PolicyRules

CONSTANTS Policies, Images, Templates,   \* what administrators may install
          Sources,                       \* contents of the pull secret: type, data
          UserGroups,                    \* values of the user's group set
          Envs,                          \* override environments, sets of names
          Direct,                        \* is a workspace created with kubectl
          UserParams,                    \* parameters asked for at connect
          MaxEvents, MaxCrs, MaxSessions \* bounds

ASSUME DesktopBoundsAssumption ==
  {MaxEvents, MaxCrs, MaxSessions} \subseteq Nat
ASSUME DesktopInputsAssumption ==
  /\ {} \in Envs /\ {} \in UserGroups /\ <<>> \in UserParams /\ None \notin Sources
  /\ Direct \subseteq BOOLEAN

Mechanisms == {"kasm", "desktop"}

\* The records kept of a workspace and of a resolver copy.
WorkspaceRecords ==
  [uid : Nat, owner : {"user", "uid"}, groups : UserGroups, role : {"user"},
   uses : {{}}, proto : {None}, env : Envs, paused : BOOLEAN, del : BOOLEAN]
ResolverRecords == [pw : Nat, uid : Nat]

\* Nil is neither a name nor an object.
ASSUME DesktopNilAssumption ==
  None \notin Mechanisms /\ None \notin WorkspaceRecords /\ None \notin ResolverRecords

VARIABLES
  pols, cat, tpl, groups, src,    \* policies, catalog, template, groups, pull secret
  seenPols, seenCat, seenTpl, seenWs,   \* the operator's cache of them
  cr,       \* the Workspace: uid, groups annotation, env override, paused, del
  res,      \* the resolver copy of each mechanism: password, owner uid
  copy,     \* the password in the pod-side copy
  cm,       \* the kasmvnc ConfigMap
  pull,     \* the copy of the pull secret in the pod's namespace
  dep,      \* the Deployment: owner uid, replicas, pod template
  pod,      \* the pod and what its container started with
  pass,     \* the reconcile pass
  queued,   \* the workspace is in the work queue
  st,       \* status: running, protocol, drift condition
  sess,     \* a session
  used,     \* bounded events so far
  lost,     \* history: how often a password was lost to the workspace
  may       \* history: the clipboard rights the owner has had, as the operator saw
            \* it, since the pass began, and since the passes of dep and pod did

admin == <<pols, cat, tpl, groups, src>>
cache == <<seenPols, seenCat, seenTpl, seenWs>>
objects == <<res, copy, cm, pull>>
vars == <<admin, cache, cr, objects, dep, pod, pass, queued, st, sess, used, lost, may>>

Idle == [pc |-> "idle", tpl |-> None, ws |-> None, pw |-> None, src |-> None,
         lost |-> 0]

NoStatus == [run |-> FALSE, proto |-> None, drift |-> FALSE]

\* The pull secret is there; which of the types it has makes no difference.
Init ==
  /\ pols = Policies /\ cat = Images /\ tpl \in Templates
  /\ groups \in UserGroups /\ src = CHOOSE s \in Sources : TRUE
  /\ seenPols = pols /\ seenCat = cat /\ seenTpl = tpl /\ seenWs = None
  /\ cr = None
  /\ res = [m \in Mechanisms |-> None] /\ copy = None /\ cm = None /\ pull = None
  /\ dep = None /\ pod = None
  /\ pass = Idle /\ queued = FALSE
  /\ st = NoStatus /\ sess = None
  /\ used = [events |-> 0, crs |-> 0, sessions |-> 0, passwords |-> 0]
  /\ lost = 0 /\ may = [pass |-> {}, dep |-> {}, pod |-> {}]

-----------------------------------------------------------------------------
(* What a workspace and its template imply.                                *)

Live == cr # None /\ ~cr.del

\* IdentityOf: the annotations, frozen at creation.
IdentityOf(ws) == [owner |-> ws.owner, username |-> "user", groups |-> ws.groups]

\* The user as the database knows them now.
CallerIdentity == [owner |-> "uid", username |-> "user", groups |-> groups]

\* resolveIdentity: the webhook believes the annotations of the api-server
\* only; anyone else is who the request says, by one name.
resolveIdentity(ws, direct) ==
  IF direct THEN [owner |-> "user", username |-> "user", groups |-> groups]
  ELSE IdentityOf(ws)

\* mergeEnv: an override replaces the template's entry of its name.
mergeEnv(ws, t) == t.env \cup ws.env

\* An environment that names a password keeps the operator from making one.
kasmPasswordGenerated(ws, t) ==
  "kasmvnc" \in ProtocolNames(t) /\ "VNC_PW" \notin mergeEnv(ws, t)

desktopPasswordGenerated(ws, t) ==
  /\ ~kasmPasswordGenerated(ws, t) /\ ProtocolNames(t) \cap {"vnc", "rdp"} # {}
  /\ "WAAS_DESKTOP_PASSWORD" \notin mergeEnv(ws, t)

\* desktopEnv: one mechanism at most.
PasswordGenerated(ws, t) ==
  CASE kasmPasswordGenerated(ws, t) -> "kasm"
    [] desktopPasswordGenerated(ws, t) -> "desktop"
    [] OTHER -> None

\* kasmClipboardGrant: the owner's policy, and nothing without one; listed
\* from the cache at every use.
kasmClipboardGrant(ws) == ClipboardOf(Resolve(seenPols, IdentityOf(ws)))

\* applyClipboardPolicy: the template's own file with the policy's clipboard
\* keys stamped over it, whatever the file says about them.
applyClipboardPolicy(t, grant) == [raw |-> t.config.raw, clip |-> grant]

\* The effective config, None for a template without kasmvnc.
KasmConfig(ws, t) ==
  IF "kasmvnc" \in ProtocolNames(t)
  THEN applyClipboardPolicy(t, kasmClipboardGrant(ws)) ELSE None

\* imagePullSecretRef.
PullRef(t) == LET img == FindImage(seenCat, t.image)
              IN IF img = None THEN None ELSE img.pull

\* buildPodTemplate, by what its fingerprint covers: names of Secrets, not
\* their contents, but the content of the config.
PodTemplate(ws, t) ==
  [image |-> t.image, env |-> mergeEnv(ws, t), mech |-> PasswordGenerated(ws, t),
   cfg |-> KasmConfig(ws, t), pull |-> PullRef(t)]

-----------------------------------------------------------------------------
(* Administrators.  Neither policies nor Secrets nor groups are watched.   *)

CountEvent == used.events < MaxEvents /\ used' = [used EXCEPT !.events = @ + 1]

EditPolicies(p) ==
  /\ CountEvent
  /\ pols' = IF p \in pols THEN pols \ {p} ELSE pols \cup {p}
  /\ UNCHANGED <<cat, tpl, groups, src>>
  /\ UNCHANGED <<cache, cr, objects, dep, pod, pass, queued, st, sess, lost, may>>

EditGroups(g) ==
  /\ CountEvent /\ g # groups
  /\ groups' = g
  /\ UNCHANGED <<pols, cat, tpl, src>>
  /\ UNCHANGED <<cache, cr, objects, dep, pod, pass, queued, st, sess, lost, may>>

EditSource(s) ==
  /\ CountEvent /\ s # src
  /\ src' = s
  /\ UNCHANGED <<pols, cat, tpl, groups>>
  /\ UNCHANGED <<cache, cr, objects, dep, pod, pass, queued, st, sess, lost, may>>

\* An image is withdrawn from the catalog or put back.
EditCatalog(i) ==
  /\ CountEvent
  /\ cat' = IF i \in cat THEN cat \ {i} ELSE cat \cup {i}
  /\ UNCHANGED <<pols, tpl, groups, src>>
  /\ UNCHANGED <<cache, cr, objects, dep, pod, pass, queued, st, sess, lost, may>>

\* The clipboard rights of a grant.
Rights(grant) == (IF grant.copy THEN {"copy"} ELSE {})
                 \cup (IF grant.paste THEN {"paste"} ELSE {})

LockedParams(entry) == IF entry = None THEN <<>> ELSE entry.params

DisableParam == [copy |-> "disable-copy", paste |-> "disable-paste"]

\* The rights a template's parameters take away on a protocol.
LockedRights(t, proto) ==
  {"copy", "paste"} \ Rights(clampClipboardGrant([copy |-> TRUE, paste |-> TRUE],
                               LockedParams(ProtocolNamed(t, proto))))

\* The webhook vets the template.  A session that waits for its tunnel
\* remembers which locks were in force all the time (history).
EditTemplate(t) ==
  /\ CountEvent /\ t # tpl /\ ValidTemplate(t)
  /\ tpl' = t
  /\ sess' = IF sess # None /\ sess.tunnel = None
             THEN [sess EXCEPT !.held = @ \cap LockedRights(t, sess.proto)] ELSE sess
  /\ UNCHANGED <<pols, cat, groups, src, cache, cr, objects, dep, pod, pass, queued, st, lost, may>>

\* Rotation: delete the resolver copy (and roll the workload).
DeleteResolver(m) ==
  /\ CountEvent /\ res[m] # None
  /\ res' = [res EXCEPT ![m] = None]
  /\ lost' = lost + 1
  /\ UNCHANGED <<admin, cache, cr, copy, cm, pull, dep, pod, pass, queued, st, sess, may>>

-----------------------------------------------------------------------------
(* The user.  Every write of a spec passes the webhook (enforce), which    *)
(* reads the operator's cache; a pause is exempt.                          *)

Admitted(ws, id) == Complies(seenPols, seenCat, ws, seenTpl, id)

\* Create through the api-server freezes the groups in an annotation; created
\* with kubectl the workspace has none and the request's groups are judged.
CreateWorkspace(direct) ==
  LET ws == [uid |-> used.crs + 1, owner |-> IF direct THEN "user" ELSE "uid",
             groups |-> IF direct THEN {} ELSE groups,
             role |-> "user", uses |-> {}, proto |-> None, env |-> {},
             paused |-> FALSE, del |-> FALSE]
  IN /\ cr = None /\ used.crs < MaxCrs
     /\ Admitted(ws, resolveIdentity(ws, direct))
     /\ cr' = ws
     /\ used' = [used EXCEPT !.crs = @ + 1]
     /\ UNCHANGED <<admin, cache, objects, dep, pod, pass, queued, st, sess, lost, may>>

\* UpdateOverrides.
UpdateOverrides(env) ==
  LET ws == [cr EXCEPT !.env = env]
  IN /\ Live /\ CountEvent /\ env # cr.env
     /\ Admitted(ws, IdentityOf(ws))
     /\ cr' = ws
     /\ UNCHANGED <<admin, cache, objects, dep, pod, pass, queued, st, sess, lost, may>>

Pause ==
  /\ Live /\ ~cr.paused /\ CountEvent
  /\ cr' = [cr EXCEPT !.paused = TRUE]
  /\ UNCHANGED <<admin, cache, objects, dep, pod, pass, queued, st, sess, lost, may>>

\* Bounded by the pauses.
Resume ==
  /\ Live /\ cr.paused
  /\ Admitted(cr, IdentityOf(cr))
  /\ cr' = [cr EXCEPT !.paused = FALSE]
  /\ UNCHANGED <<admin, cache, objects, dep, pod, pass, queued, st, sess, used, lost, may>>

DeleteWorkspace ==
  /\ Live /\ CountEvent
  /\ cr' = [cr EXCEPT !.del = TRUE]
  /\ UNCHANGED <<admin, cache, objects, dep, pod, pass, queued, st, sess, lost, may>>

-----------------------------------------------------------------------------
(* The informer cache, and what its events queue (SetupWithManager).       *)

\* A password is lost to a workspace when the operator learns of another
\* mechanism for it.
LosesPassword(newTpl, newWs) ==
  /\ seenWs # None /\ newWs # None /\ newWs.uid = seenWs.uid
  /\ PasswordGenerated(newWs, newTpl) # PasswordGenerated(seenWs, seenTpl)

\* The rights a workspace's owner has by these policies.
OwnerRights(policies, ws) == Rights(ClipboardOf(Resolve(policies, IdentityOf(ws))))

\* No policy event queues a workspace.
DeliverPolicies ==
  LET new == IF cr = None THEN {} ELSE OwnerRights(pols, cr)
  IN /\ seenPols # pols
     /\ seenPols' = pols
     /\ may' = [x \in {"pass", "dep", "pod"} |-> may[x] \cup new]
     /\ UNCHANGED <<admin, seenCat, seenTpl, seenWs, cr, objects>>
     /\ UNCHANGED <<dep, pod, pass, queued, st, sess, used, lost>>

\* mapCatalogToWorkspaces.
DeliverCatalog ==
  /\ seenCat # cat
  /\ seenCat' = cat /\ queued' = (queued \/ seenWs # None)
  /\ UNCHANGED <<admin, seenPols, seenTpl, seenWs, cr, objects>>
  /\ UNCHANGED <<dep, pod, pass, st, sess, used, lost, may>>

\* mapTemplateToWorkspaces.
DeliverTemplate ==
  /\ seenTpl # tpl
  /\ seenTpl' = tpl /\ queued' = (queued \/ seenWs # None)
  /\ lost' = lost + (IF LosesPassword(tpl, seenWs) THEN 1 ELSE 0)
  /\ UNCHANGED <<admin, seenPols, seenCat, seenWs, cr, objects>>
  /\ UNCHANGED <<dep, pod, pass, st, sess, used, may>>

DeliverWorkspace ==
  /\ seenWs # cr
  /\ seenWs' = cr /\ queued' = (queued \/ cr # None)
  /\ lost' = lost + (IF LosesPassword(seenTpl, cr) THEN 1 ELSE 0)
  /\ UNCHANGED <<admin, seenPols, seenCat, seenTpl, cr, objects>>
  /\ UNCHANGED <<dep, pod, pass, st, sess, used, may>>

-----------------------------------------------------------------------------
(* A reconcile pass, one step per object it ensures.  Deployment and pods  *)
(* are read as they are: a write over a stale copy conflicts (PassFails).  *)

At(pc) == pass.pc = pc

GoTo(pc) == pass' = [pass EXCEPT !.pc = pc]

Begin ==
  /\ At("idle") /\ queued /\ seenWs # None /\ ~seenWs.del
  /\ pass' = [Idle EXCEPT !.pc = "gate", !.tpl = seenTpl, !.ws = seenWs, !.lost = lost]
  /\ may' = [may EXCEPT !.pass = OwnerRights(seenPols, seenWs)]
  /\ queued' = FALSE
  /\ UNCHANGED <<admin, cache, cr, objects, dep, pod, st, sess, used, lost>>

\* Mutant of Refuse: no further try.
RefuseForGood ==
  /\ st' = [st EXCEPT !.run = FALSE]
  /\ pass' = Idle /\ UNCHANGED queued

\* A status is written over the cached workspace: a stale one conflicts and
\* the pass is tried again.
StatusWritten(new) == st' = IF seenWs = cr THEN new ELSE st

\* A refusal: phase Failed and another try on the slow loop.
Refuse ==
  /\ StatusWritten([st EXCEPT !.run = FALSE])
  /\ pass' = Idle /\ queued' = TRUE

\* evaluateGovernance, before new compute only; a cluster without policies
\* and catalog is not governed.
Granted(ws, t) ==
  \/ ws.paused \/ dep # None
  \/ seenPols = {} /\ seenCat = {}
  \/ Complies(seenPols, seenCat, ws, t, IdentityOf(ws))

Gate ==
  /\ At("gate")
  /\ \/ /\ Granted(pass.ws, pass.tpl)
        /\ GoTo("resolver") /\ UNCHANGED <<queued, st>>
     \/ ~Granted(pass.ws, pass.tpl) /\ Refuse
  /\ UNCHANGED <<admin, cache, cr, objects, dep, pod, sess, used, lost, may>>

\* The resolver copy a pass creates.
NewResolver(ws) == [pw |-> used.passwords + 1, uid |-> ws.uid]

\* ensureKasmCredentials, ensureDesktopCredentials, first half: the resolver
\* copy is created once and never changed.
EnsureResolver ==
  LET m == PasswordGenerated(pass.ws, pass.tpl)
  IN /\ At("resolver")
     /\ \/ m = None /\ GoTo("config") /\ UNCHANGED <<res, used>>
        \/ /\ m # None /\ res[m] = None
           /\ res' = [res EXCEPT ![m] = NewResolver(pass.ws)]
           /\ used' = [used EXCEPT !.passwords = @ + 1]
           /\ pass' = [pass EXCEPT !.pc = "copy", !.pw = NewResolver(pass.ws).pw]
        \/ /\ m # None /\ res[m] # None
           /\ pass' = [pass EXCEPT !.pc = "copy", !.pw = res[m].pw]
           /\ UNCHANGED <<res, used>>
     /\ UNCHANGED <<admin, cache, cr, copy, cm, pull, dep, pod, queued, st, sess, lost, may>>

\* Mutant of Synced: a copy that exists is left alone.
SyncedOnce(old, pw) == IF old = None THEN pw ELSE old

\* The pod-side copy once it is ensured: the resolver copy wins.
Synced(old, pw) == pw

\* The second half: the pod-side copy converges on the resolver copy.
EnsurePodCopy ==
  /\ At("copy")
  /\ copy' = Synced(copy, pass.pw)
  /\ GoTo("config")
  /\ UNCHANGED <<admin, cache, cr, res, cm, pull, dep, pod, queued, st, sess, used, lost, may>>

\* Mutant of KasmConfigKept: a ConfigMap that exists is left alone.
KasmConfigOnce(old, new) == IF old # None /\ new # None THEN old ELSE new

\* What the ConfigMap holds afterwards.
KasmConfigKept(old, new) == new

\* ensureKasmConfig: deleted for a template without kasmvnc.
EnsureKasmConfig ==
  /\ At("config")
  /\ cm' = KasmConfigKept(cm, KasmConfig(pass.ws, pass.tpl))
  /\ GoTo("pull")
  /\ UNCHANGED <<admin, cache, cr, res, copy, pull, dep, pod, queued, st, sess, used, lost, may>>

\* ensurePullSecret: a missing source refuses; a copy of another type is
\* deleted and created again.
EnsurePullSecret ==
  LET ref == PullRef(pass.tpl)
  IN /\ At("pull")
     /\ \/ ref = None /\ GoTo("work") /\ UNCHANGED <<pull, queued, st>>
        \/ ref # None /\ src = None /\ Refuse /\ UNCHANGED pull
        \/ /\ ref # None /\ src # None
           /\ pull # None /\ pull.type # src.type
           /\ pull' = None
           /\ pass' = [pass EXCEPT !.pc = "repull", !.src = src]
           /\ UNCHANGED <<queued, st>>
        \/ /\ ref # None /\ src # None
           /\ pull # None => pull.type = src.type
           /\ pull' = src
           /\ GoTo("work") /\ UNCHANGED <<queued, st>>
     /\ UNCHANGED <<admin, cache, cr, res, copy, cm, dep, pod, sess, used, lost, may>>

RecreatePull ==
  /\ At("repull")
  /\ pull' = pass.src
  /\ GoTo("work")
  /\ UNCHANGED <<admin, cache, cr, res, copy, cm, dep, pod, queued, st, sess, used, lost, may>>

\* Scaled to 0, or about to be: the new shape is applied.
Boundary(up) == dep = None \/ ~dep.up \/ ~up

\* ensureDeployment: what is stored after a pass that wants the shape.
Deployed(want, up) ==
  [uid |-> pass.ws.uid, up |-> up,
   shape |-> IF Boundary(up) THEN want ELSE dep.shape,
   lost |-> IF Boundary(up) THEN pass.lost ELSE dep.lost]

\* ensureWorkload and the status of the pass.
EnsureWorkload ==
  LET ws == pass.ws
      want == PodTemplate(ws, pass.tpl)
      new == Deployed(want, ~ws.paused)
  IN /\ At("work")
     /\ dep' = new
     /\ StatusWritten([run |-> ~ws.paused /\ dep # None /\ pod # None,
                       proto |-> IF ws.paused THEN None ELSE effectiveProtocol(ws, pass.tpl),
                       drift |-> new.shape # want])
     /\ queued' = (queued \/ seenWs # cr \/ dep = None
                  \/ new.up # dep.up \/ new.shape # dep.shape)
     /\ pass' = Idle
     /\ may' = [may EXCEPT !.dep = IF Boundary(~ws.paused) THEN may.pass ELSE @]
     /\ UNCHANGED <<admin, cache, cr, objects, pod, sess, used, lost>>

\* Any call of a pass may fail, the operator may stop: the pass is retried.
PassFails ==
  /\ ~At("idle") /\ CountEvent
  /\ pass' = Idle /\ queued' = TRUE
  /\ UNCHANGED <<admin, cache, cr, objects, dep, pod, st, sess, lost, may>>

\* The finalizer sweeps the placed objects, then the workspace goes.
Finalize ==
  /\ At("idle") /\ cr # None /\ cr.del /\ seenWs = cr
  /\ cr' = None /\ copy' = None /\ cm' = None /\ dep' = None
  /\ queued' = FALSE /\ st' = NoStatus
  /\ UNCHANGED <<admin, cache, res, pull, pod, pass, sess, used, lost, may>>

-----------------------------------------------------------------------------
(* The cluster.                                                            *)

\* A resolver copy whose owner is gone is collected, some time later.
GarbageCollect(m) ==
  /\ res[m] # None
  /\ cr # None => cr.uid # res[m].uid
  /\ res' = [res EXCEPT ![m] = None]
  /\ lost' = lost + 1
  /\ UNCHANGED <<admin, cache, cr, copy, cm, pull, dep, pod, pass, queued, st, sess, used, may>>

\* What a container of this shape starts with; it does not start while a
\* referenced object is missing.
Startable(shape) ==
  /\ shape.mech # None => copy # None
  /\ shape.cfg # None => cm # None
  /\ shape.pull # None => pull # None

Started(shape) ==
  [pw |-> IF shape.mech = None THEN None ELSE copy,
   cfg |-> IF shape.cfg = None THEN None ELSE cm]

PodStarts ==
  /\ dep # None /\ dep.up /\ pod = None /\ Startable(dep.shape)
  /\ pod' = [uid |-> dep.uid, shape |-> dep.shape, lost |-> dep.lost, has |-> Started(dep.shape)]
  /\ may' = [may EXCEPT !.pod = may.dep]
  /\ queued' = (queued \/ cr # None)
  /\ UNCHANGED <<admin, cache, cr, objects, dep, pass, st, sess, used, lost>>

\* The pod is the one the Deployment asks for.
Current == dep # None /\ dep.up /\ dep.uid = pod.uid /\ dep.shape = pod.shape

\* A rollout, a scale-down or the deletion ends the pod.
PodStops ==
  /\ pod # None /\ ~Current
  /\ pod' = None
  /\ queued' = (queued \/ cr # None)
  /\ UNCHANGED <<admin, cache, cr, objects, dep, pass, st, sess, used, lost, may>>

\* The container restarts by itself, or the pod is evicted and replaced.
ContainerRestarts ==
  /\ pod # None /\ Current /\ Startable(dep.shape) /\ CountEvent
  /\ pod' = [pod EXCEPT !.has = Started(dep.shape)]
  /\ queued' = (queued \/ cr # None)
  /\ UNCHANGED <<admin, cache, cr, objects, dep, pass, st, sess, lost, may>>

\* The informers' periodic resync replays the workload's events.
Resync ==
  /\ dep # None /\ Live /\ ~queued /\ At("idle")
  /\ queued' = TRUE
  /\ UNCHANGED <<admin, cache, cr, objects, dep, pod, pass, st, sess, used, lost, may>>

-----------------------------------------------------------------------------
(* Sessions.                                                               *)

\* The Secret ConnectionInfo reads for a protocol.
MechanismOf(proto) == IF proto = "kasmvnc" THEN "kasm" ELSE "desktop"

SecretOf(proto) == res[MechanismOf(proto)]

\* Whose template it is, by the name of the account; which policy applies,
\* None when nothing does.
actorIsTemplateOwner == tpl.owner # None /\ tpl.owner = CallerIdentity.username

actorPolicy == Resolve(pols, CallerIdentity)

\* Parameters are vetted by registry, template and policy.
MayTune(entry, params) ==
  LET pol == actorPolicy
  IN \/ params = <<>>
     \/ /\ entry # None
        /\ ValidateUserOverrides(entry.name, params,
             ResolveUserParamNames(entry.name, entry.userParams), FALSE)
        /\ actorIsTemplateOwner \/ FieldOverridable(tpl, "protocolParams")
        /\ pol # None /\ pol.fields # None => "protocolParams" \in pol.fields

\* Mutant of ClipboardGrant: the policy's grant when the template is unknown.
ClipboardGrantOpen(found, grant, params) ==
  IF found THEN clampClipboardGrant(grant, params) ELSE grant

\* What the token carries: the caller's rights, clamped; nothing when the
\* template failed to resolve.
ClipboardGrant(found, grant, params) ==
  IF found THEN clampClipboardGrant(grant, params) ELSE NoClipboard

\* A read of the template from the API server, which may fail.
TemplateFound(found) == ~found => used.events < MaxEvents

\* Connect.  Parameters need the template, a plain connect goes on without.
Connect(params, found) ==
  LET entry == IF found THEN ProtocolNamed(tpl, st.proto) ELSE None
      grant == ClipboardOf(Resolve(pols, CallerIdentity))
  IN /\ Live /\ st.run /\ sess = None /\ used.sessions < MaxSessions
     /\ TemplateFound(found) /\ MayTune(entry, params)
     /\ sess' = [uid |-> cr.uid, proto |-> st.proto, params |-> params, grant |-> grant,
                 token |-> ClipboardGrant(found, grant,
                             mergeParams(LockedParams(entry), params)),
                 deleg |-> IF entry = None THEN {}
                           ELSE ResolveUserParamNames(entry.name, entry.userParams),
                 tunnel |-> None, held |-> LockedRights(tpl, st.proto), locked |-> {},
                 read |-> FALSE]
     /\ used' = [used EXCEPT !.sessions = @ + 1,
                             !.events = IF found THEN @ ELSE @ + 1]
     /\ UNCHANGED <<admin, cache, cr, objects, dep, pod, pass, queued, st, lost, may>>

\* ConnectionInfo, when the proxy redeems the token: the template is read
\* again, and without it the tunnel opens with no parameters at all.
ConnectionInfo(found) ==
  LET entry == ProtocolNamed(tpl, sess.proto)
  IN /\ sess # None /\ sess.tunnel = None
     /\ cr # None /\ cr.uid = sess.uid /\ st.run
     /\ SecretOf(sess.proto) # None /\ TemplateFound(found)
     /\ sess' = [sess EXCEPT
                   !.tunnel = IF found THEN mergeParams(LockedParams(entry), sess.params)
                              ELSE <<>>,
                   !.locked = LockedRights(tpl, sess.proto), !.read = found]
     /\ used' = [used EXCEPT !.events = IF found THEN @ ELSE @ + 1]
     /\ UNCHANGED <<admin, cache, cr, objects, dep, pod, pass, queued, st, lost, may>>

-----------------------------------------------------------------------------
PassStep == Begin \/ Gate \/ EnsureResolver \/ EnsurePodCopy \/ EnsureKasmConfig
            \/ EnsurePullSecret \/ RecreatePull \/ EnsureWorkload \/ Finalize

Deliver == DeliverPolicies \/ DeliverCatalog \/ DeliverTemplate \/ DeliverWorkspace

Next ==
  \/ \E p \in Policies : EditPolicies(p)
  \/ \E g \in UserGroups : EditGroups(g)
  \/ \E s \in Sources \cup {None} : EditSource(s)
  \/ \E i \in Images : EditCatalog(i)
  \/ \E t \in Templates : EditTemplate(t)
  \/ \E m \in Mechanisms : DeleteResolver(m) \/ GarbageCollect(m)
  \/ \E e \in Envs : UpdateOverrides(e)
  \/ \E d \in Direct : CreateWorkspace(d)
  \/ Pause \/ Resume \/ DeleteWorkspace
  \/ PassStep \/ PassFails
  \/ PodStarts \/ PodStops \/ ContainerRestarts \/ Resync
  \/ Deliver
  \/ \E q \in UserParams, found \in BOOLEAN : Connect(q, found)
  \/ \E found \in BOOLEAN : ConnectionInfo(found)

Spec == Init /\ [][Next]_vars

\* The cache, the work queue, the workload controllers, the collector and the
\* resync run without end; nobody has to edit or to connect.
FairSpec ==
  /\ Spec
  /\ WF_vars(DeliverPolicies) /\ WF_vars(DeliverCatalog)
  /\ WF_vars(DeliverTemplate) /\ WF_vars(DeliverWorkspace)
  /\ WF_vars(PassStep) /\ WF_vars(PodStarts) /\ WF_vars(PodStops)
  /\ WF_vars(Resync) /\ WF_vars(\E m \in Mechanisms : GarbageCollect(m))

-----------------------------------------------------------------------------
(* Properties.                                                             *)

\* Type correctness of the objects and of the pass.
TypeOK ==
  /\ pols \subseteq Policies /\ cat \subseteq Images /\ tpl \in Templates
  /\ cr = None \/ (cr.uid \in 1..MaxCrs /\ cr.env \in Envs /\ cr.groups \in UserGroups)
  /\ \A m \in Mechanisms : res[m] = None \/ res[m].pw \in 1..used.passwords
  /\ copy = None \/ copy \in 1..used.passwords
  /\ pass.pc \in {"idle", "gate", "resolver", "copy", "config", "pull", "repull", "work"}
  /\ dep # None => cr # None /\ cr.uid = dep.uid
  /\ queued \in BOOLEAN /\ st.run \in BOOLEAN /\ st.drift \in BOOLEAN

\* The password a connection is opened with is the one the pod runs with,
\* as long as no resolver copy was lost, and the mechanism did not change,
\* since the pass that made the pod start began (ensureDesktopCredentials: "what
\* connect uses must be what the pod got").
PasswordAgrees ==
  LET secret == SecretOf(st.proto)
  IN /\ Live /\ st.run /\ pod # None /\ pod.uid = cr.uid
     /\ pod.lost = lost /\ pod.shape.mech = MechanismOf(st.proto) /\ secret # None
     => secret.pw = pod.has.pw

\* A clipboard right a kasmvnc container runs with was the owner's, as the
\* operator saw it, at some time since the pass began that shaped the
\* Deployment it was started from: a right denied before that pass, and ever
\* since, is never there again, though the ConfigMap may be of a failed pass,
\* the policies are listed twice and the container reads the ConfigMap when it
\* starts (ensureKasmConfig: "keeps the per-workspace ConfigMap converged").
RightsAreRecent ==
  pod # None /\ pod.has.cfg # None => Rights(pod.has.cfg.clip) \subseteq may.pod

\* What a tunnel lets through against a lock that nobody delegated.
Leaks(locks) ==
  LET right == Rights(clampClipboardGrant(sess.token, sess.tunnel))
  IN {r \in right \cap locks : DisableParam[r] \notin sess.deleg}

\* A tunnel copies nothing the caller's policy denied at connect, and keeps
\* every lock of the template that was in force from Connect to
\* ConnectionInfo, whichever of their two reads failed, or that ConnectionInfo
\* has read (Connect: "locked parameters stay locked", "fails closed").
LocksHold ==
  sess # None /\ sess.tunnel # None =>
    /\ Rights(clampClipboardGrant(sess.token, sess.tunnel)) \subseteq Rights(sess.grant)
    /\ Leaks(sess.held \cup (IF sess.read THEN sess.locked ELSE {})) = {}

\* Not so: whatever lock is in force when the tunnel opens binds it.
LockedAtTunnel == sess # None /\ sess.tunnel # None => Leaks(sess.locked) = {}

\* What keeps a desktop from running is for the user or for an administrator
\* to lift; the pull source included, which the slow retry picks up.
Runnable ==
  /\ Live /\ ~cr.paused /\ Granted(cr, tpl)
  /\ PullRef(tpl) # None => src # None

\* The Deployment mounts no config that the present template has no use for.
ConfigKept == dep # None /\ dep.shape.cfg # None => "kasmvnc" \in ProtocolNames(tpl)

\* A workspace that stays runnable is served in the end, whatever failed or
\* was missing before (ensurePullSecret: "the secret may arrive via GitOps"),
\* unless its template lost kasmvnc under a Deployment that mounts the config;
\* and its ConfigMap follows the owner's policy, though policies are not
\* watched: the resync finds the difference (ensureKasmConfig).
Served ==
  <>[](Runnable /\ ConfigKept) =>
    <>[](pod # None /\ st.run /\ Live /\ seenPols = pols /\ cm = KasmConfig(cr, tpl))

\* Not so: it is served whatever became of the template, which is applied at
\* scale-up boundaries only.
ServedAsDeployed == <>[]Runnable => <>[](pod # None /\ st.run)

\* Not so: a paused workspace is scaled down in the end.
PauseTakesEffect == <>[](Live /\ cr.paused) => <>[](dep = None \/ ~dep.up)

\* Not so: when nothing is queued and the status reports no drift, the
\* desktop enforces the clipboard rules the ConfigMap holds.
ClipboardEnforced ==
  Live /\ At("idle") /\ ~queued /\ st.run /\ ~st.drift /\ pod # None
  /\ pod.shape = dep.shape /\ cm # None /\ dep.shape = PodTemplate(cr, tpl)
  => pod.has.cfg = cm

\* Not so: the operator never replaces a pod's password behind it where all
\* that happened before is that workspaces of this name were deleted.
NoStalePassword ==
  Live /\ used.events = cr.uid - 1
  /\ At("idle") /\ ~queued /\ st.run /\ ~st.drift /\ pod # None
  /\ pod.shape.mech = MechanismOf(st.proto) /\ SecretOf(st.proto) # None
  => SecretOf(st.proto).pw = pod.has.pw

\* Not so: without groups an identity is judged more strictly.
StricterReading ==
  Live /\ cr.groups = {} =>
    LET here == ClipboardOf(Resolve(pols, IdentityOf(cr)))
        there == ClipboardOf(Resolve(pols, CallerIdentity))
    IN (here.copy => there.copy) /\ (here.paste => there.paste)

\* Not so: the session menu and the tunnel see the same effective values.
MenuMatches ==
  sess # None /\ sess.tunnel # None =>
    clampClipboardGrant(sess.grant, sess.tunnel) = sess.token
=============================================================================
