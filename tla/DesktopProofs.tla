--------------------------- MODULE DesktopProofs ----------------------------
(***************************************************************************)
(* Proofs about Desktop, for any policies, images, templates, users'       *)
(* groups, environments and parameters, and for every bound: the locks of  *)
(* a session, the clipboard rights and the password of a pod, and the      *)
(* types.                                                                  *)
(*                                                                         *)
(* Two histories carry the argument about the workload.  How often a       *)
(* password was lost to the workspace: a pass, a Deployment and a pod      *)
(* remember what it was when the pass that made them began, so the pod's   *)
(* is at most the Deployment's, which is at most the pass's, and what      *)
(* still carries the present number was made of what is there at present.  *)
(* And which clipboard rights the owner has had since those passes began:  *)
(* whatever a pass writes is among the rights of its own set, and sets     *)
(* only grow until a later pass starts a new one.                          *)
(***************************************************************************)
EXTENDS Desktop, TLAPS

-----------------------------------------------------------------------------
(* The locks of a session.                                                 *)

\* A session is a record of these fields.
SessFields == {"uid", "proto", "params", "grant", "token", "tunnel", "deleg", "held",
               "locked", "read"}

\* Of these rights, the locked ones were delegated.
Bound(rights, locks, deleg) == \A r \in rights \cap locks : DisableParam[r] \in deleg

\* A session as Connect makes it and ConnectionInfo completes it: the token
\* carries no right the caller did not have and none that was locked at
\* connect, the parameters asked for are among the delegated ones, and a
\* tunnel made from a template that could be read keeps that one's locks.
SessFits ==
  sess # None =>
    /\ DOMAIN sess = SessFields
    /\ Rights(sess.token) \subseteq Rights(sess.grant)
    /\ Bound(Rights(sess.token), sess.held, sess.deleg)
    /\ sess.params = <<>> \/ DOMAIN sess.params \subseteq sess.deleg
    /\ sess.tunnel # None /\ sess.read =>
         Bound(Rights(clampClipboardGrant(sess.token, sess.tunnel)), sess.locked, sess.deleg)

\* Parameters restrict a grant, they never widen it.
LEMMA ClampRestricts ==
  ASSUME NEW g, NEW params
  PROVE  Rights(clampClipboardGrant(g, params)) \subseteq Rights(g)
  BY DEF clampClipboardGrant, Rights

\* The rights parameters take away.
Taken(params) ==
  {"copy", "paste"} \ Rights(clampClipboardGrant([copy |-> TRUE, paste |-> TRUE], params))

\* A locked parameter that is not overridden restricts as before.
LEMMA LockBinds ==
  ASSUME NEW base, NEW over, NEW g,
         NEW deleg, over = <<>> \/ DOMAIN over \subseteq deleg
  PROVE  Bound(Rights(clampClipboardGrant(g, mergeParams(base, over))), Taken(base), deleg)
<1>1. \A n \in {"disable-copy", "disable-paste"} : n \notin deleg => n \notin DOMAIN over
  OBVIOUS
<1>2. mergeParams(base, over) = [n \in DOMAIN over \cup DOMAIN base |->
                                   IF n \in DOMAIN over THEN over[n] ELSE base[n]]
  BY DEF mergeParams
<1>3. \A n \in {"disable-copy", "disable-paste"} : n \notin deleg =>
        /\ n \in DOMAIN mergeParams(base, over) <=> n \in DOMAIN base
        /\ n \in DOMAIN base => mergeParams(base, over)[n] = base[n]
  <2> SUFFICES ASSUME NEW n \in {"disable-copy", "disable-paste"}, n \notin deleg
               PROVE  /\ n \in DOMAIN mergeParams(base, over) <=> n \in DOMAIN base
                      /\ n \in DOMAIN base => mergeParams(base, over)[n] = base[n]
    OBVIOUS
  <2>1. n \notin DOMAIN over
    BY <1>1
  <2> QED
    BY <1>2, <2>1
<1> DEFINE right == clampClipboardGrant(g, mergeParams(base, over))
           lock == clampClipboardGrant([copy |-> TRUE, paste |-> TRUE], base)
<1>4. /\ right.copy => lock.copy \/ "disable-copy" \in deleg
      /\ right.paste => lock.paste \/ "disable-paste" \in deleg
  BY <1>3 DEF clampClipboardGrant
<1> HIDE DEF right, lock
<1>5. Bound(Rights(right), {"copy", "paste"} \ Rights(lock), deleg)
  BY <1>4 DEF Bound, Rights, DisableParam
<1> QED
  BY <1>5 DEF right, lock, Taken

\* A session that fits keeps the locks.
LEMMA FitsHold == SessFits => LocksHold
<1> SUFFICES ASSUME SessFits, sess # None, sess.tunnel # None PROVE LocksHold
  BY DEF LocksHold
<1> DEFINE right == Rights(clampClipboardGrant(sess.token, sess.tunnel))
<1>1. right \subseteq Rights(sess.token)
  BY ClampRestricts
<1> HIDE DEF right
<1>2. right \subseteq Rights(sess.grant)
  BY <1>1 DEF SessFits
<1>3. Bound(right, sess.held, sess.deleg)
  BY <1>1 DEF SessFits, Bound
<1>4. sess.read => Bound(right, sess.locked, sess.deleg)
  BY DEF SessFits, right
<1>5. {r \in right \cap (sess.held \cup (IF sess.read THEN sess.locked ELSE {})) :
         DisableParam[r] \notin sess.deleg} = {}
  BY <1>3, <1>4 DEF Bound
<1> QED
  BY <1>2, <1>5 DEF LocksHold, Leaks, right

\* What a vetted set of parameters may name.
LEMMA TunedWithinDelegation ==
  ASSUME NEW entry, NEW params, MayTune(entry, params), params # <<>>
  PROVE  /\ entry # None
         /\ DOMAIN params \subseteq ResolveUserParamNames(entry.name, entry.userParams)
  BY DEF MayTune, ValidateUserOverrides

\* A connection is judged by the caller's own policy; without the template
\* it gets nothing.
LEMMA ConnectFits ==
  ASSUME NEW params, NEW found \in BOOLEAN, Connect(params, found) PROVE SessFits'
<1> DEFINE entry == IF found THEN ProtocolNamed(tpl, st.proto) ELSE None
           grant == ClipboardOf(Resolve(pols, CallerIdentity))
           deleg == IF entry = None THEN {}
                    ELSE ResolveUserParamNames(entry.name, entry.userParams)
           merged == mergeParams(LockedParams(entry), params)
           token == ClipboardGrant(found, grant, merged)
           held == LockedRights(tpl, st.proto)
<1>1. sess' = [uid |-> cr.uid, proto |-> st.proto, params |-> params, grant |-> grant,
               token |-> token, deleg |-> deleg, tunnel |-> None, held |-> held,
               locked |-> {}, read |-> FALSE]
  BY DEF Connect
<1>2. params = <<>> \/ DOMAIN params \subseteq deleg
  BY TunedWithinDelegation DEF Connect
<1>3. Rights(token) \subseteq Rights(grant)
  <2>1. CASE found
    BY <2>1, ClampRestricts DEF ClipboardGrant
  <2>2. CASE ~found
    BY <2>2 DEF ClipboardGrant, NoClipboard, Rights
  <2> QED
    BY <2>1, <2>2
<1>4. Bound(Rights(token), held, deleg)
  <2>1. CASE found
    <3> HIDE DEF deleg
    <3>1. held = Taken(LockedParams(entry))
      BY <2>1 DEF LockedRights, Taken
    <3>2. token = clampClipboardGrant(grant, mergeParams(LockedParams(entry), params))
      BY <2>1 DEF ClipboardGrant
    <3> QED
      BY <1>2, <3>1, <3>2, LockBinds
  <2>2. CASE ~found
    BY <2>2 DEF ClipboardGrant, NoClipboard, Rights, Bound
  <2> QED
    BY <2>1, <2>2
<1> HIDE DEF entry, grant, deleg, token, held
<1>5. /\ DOMAIN sess' = SessFields /\ sess'.token = token /\ sess'.grant = grant
      /\ sess'.held = held /\ sess'.deleg = deleg /\ sess'.params = params
      /\ sess'.tunnel = None
  BY <1>1 DEF SessFields
<1> QED
  BY <1>2, <1>3, <1>4, <1>5 DEF SessFits

\* The proxy's redemption.
LEMMA InfoFits ==
  ASSUME SessFits, NEW found \in BOOLEAN, ConnectionInfo(found) PROVE SessFits'
<1> DEFINE base == LockedParams(ProtocolNamed(tpl, sess.proto))
           tunnel == IF found THEN mergeParams(base, sess.params) ELSE <<>>
           locks == LockedRights(tpl, sess.proto)
<1>1. /\ sess # None
      /\ sess' = [sess EXCEPT !.tunnel = tunnel, !.locked = locks, !.read = found]
  BY DEF ConnectionInfo
<1>2. locks = Taken(base)
  BY DEF LockedRights, Taken
<1> HIDE DEF base, tunnel, locks
<1>3. DOMAIN sess = SessFields
  BY <1>1 DEF SessFits
<1>4. /\ DOMAIN sess' = SessFields
      /\ sess'.token = sess.token /\ sess'.grant = sess.grant /\ sess'.held = sess.held
      /\ sess'.params = sess.params /\ sess'.deleg = sess.deleg
      /\ sess'.tunnel = tunnel /\ sess'.locked = locks /\ sess'.read = found
  BY <1>1, <1>3 DEF SessFields
<1>5. sess.params = <<>> \/ DOMAIN sess.params \subseteq sess.deleg
  BY <1>1 DEF SessFits
<1>6. found => Bound(Rights(clampClipboardGrant(sess.token, tunnel)), locks, sess.deleg)
  <2> SUFFICES ASSUME found
               PROVE  Bound(Rights(clampClipboardGrant(sess.token, tunnel)), locks, sess.deleg)
    OBVIOUS
  <2>1. tunnel = mergeParams(base, sess.params)
    BY DEF tunnel
  <2> QED
    BY <1>2, <1>5, <2>1, LockBinds
<1>7. /\ Rights(sess.token) \subseteq Rights(sess.grant)
      /\ Bound(Rights(sess.token), sess.held, sess.deleg)
  BY <1>1 DEF SessFits
<1> QED
  BY <1>4, <1>5, <1>6, <1>7 DEF SessFits

\* An edited template may lift a lock, the session then forgets it was held.
LEMMA EditFits ==
  ASSUME SessFits, NEW t, EditTemplate(t) PROVE SessFits'
<1>1. CASE sess # None /\ sess.tunnel = None
  <2> DEFINE held == sess.held \cap LockedRights(t, sess.proto)
  <2>1. sess' = [sess EXCEPT !.held = held]
    BY <1>1 DEF EditTemplate
  <2>2. held \subseteq sess.held
    OBVIOUS
  <2> HIDE DEF held
  <2>3. DOMAIN sess = SessFields
    BY <1>1 DEF SessFits
  <2>4. /\ DOMAIN sess' = SessFields
        /\ sess'.token = sess.token /\ sess'.grant = sess.grant /\ sess'.held = held
        /\ sess'.params = sess.params /\ sess'.deleg = sess.deleg
        /\ sess'.tunnel = sess.tunnel
    BY <2>1, <2>3 DEF SessFields
  <2>5. Bound(Rights(sess.token), held, sess.deleg)
    BY <1>1, <2>2 DEF SessFits, Bound
  <2> QED
    BY <1>1, <2>4, <2>5 DEF SessFits
<1>2. CASE ~(sess # None /\ sess.tunnel = None)
  <2>1. UNCHANGED sess
    BY <1>2 DEF EditTemplate
  <2> QED
    BY <2>1 DEF SessFits
<1> QED
  BY <1>1, <1>2

\* No other step touches a session.
LEMMA SessKept == Next => \/ UNCHANGED sess
                          \/ \E q \in UserParams, found \in BOOLEAN : Connect(q, found)
                          \/ \E found \in BOOLEAN : ConnectionInfo(found)
                          \/ \E t \in Templates : EditTemplate(t)
  BY DEF Next, PassStep, EditPolicies, EditGroups, EditSource, EditCatalog,
         DeleteResolver, GarbageCollect, UpdateOverrides, CreateWorkspace, Pause, Resume,
         DeleteWorkspace, Begin, Gate, EnsureResolver, EnsurePodCopy, EnsureKasmConfig,
         EnsurePullSecret, RecreatePull, EnsureWorkload, Finalize, PassFails, PodStarts,
         PodStops, ContainerRestarts, Resync, Deliver, DeliverPolicies, DeliverCatalog,
         DeliverTemplate, DeliverWorkspace

\* A tunnel copies nothing the caller's policy denied at connect and keeps
\* every lock that was in force from Connect to ConnectionInfo or that
\* ConnectionInfo has read, whichever of their reads failed.
THEOREM LocksStay == Spec => []LocksHold
<1>1. Init => SessFits
  BY DEF Init, SessFits
<1>2. ASSUME SessFits, [Next]_vars PROVE SessFits'
  <2>1. CASE UNCHANGED sess
    BY <1>2, <2>1 DEF SessFits
  <2>2. CASE \E q \in UserParams, found \in BOOLEAN : Connect(q, found)
    BY <2>2, ConnectFits
  <2>3. CASE \E found \in BOOLEAN : ConnectionInfo(found)
    BY <1>2, <2>3, InfoFits
  <2>4. CASE \E t \in Templates : EditTemplate(t)
    BY <1>2, <2>4, EditFits
  <2> QED
    BY <1>2, <2>1, <2>2, <2>3, <2>4, SessKept DEF vars
<1> QED
  BY <1>1, <1>2, FitsHold, PTL DEF Spec
-----------------------------------------------------------------------------
(* What holds of pass, Deployment and pod whatever they are made of.       *)

\* The types the argument needs, object by object.
CrTyped == cr = None \/ cr \in WorkspaceRecords
Counters ==
  /\ used \in [events : Nat, crs : 0..MaxCrs, sessions : Nat, passwords : Nat]
  /\ lost \in Nat
  /\ groups \in UserGroups
ResTyped == res \in [Mechanisms -> ResolverRecords \cup {None}]

Working == pass.pc # "idle"

PassFields == {"pc", "tpl", "ws", "pw", "src", "lost"}
PassTyped ==
  /\ DOMAIN pass = PassFields
  /\ pass.lost \in Nat
  /\ Working => pass.ws \in WorkspaceRecords

DepTyped == dep # None => dep.lost \in Nat

PodFields == {"uid", "shape", "lost", "has"}
PodTyped == pod # None => DOMAIN pod = PodFields /\ pod.lost \in Nat

\* A pass works for the workspace that is there: only its overrides, its
\* pause and its deletion may have changed.
SameWorkspace ==
  Working => cr # None /\ IdentityOf(pass.ws) = IdentityOf(cr) /\ pass.ws.uid = cr.uid

\* The cached workspace is the one that is there, or one on its way out; for
\* a pass and for a Deployment there is one.
SeenTyped == seenWs = None \/ seenWs \in WorkspaceRecords
SeenSame ==
  seenWs # None /\ ~seenWs.del =>
    cr # None /\ IdentityOf(seenWs) = IdentityOf(cr) /\ seenWs.uid = cr.uid
SeenPresent ==
  Working \/ dep # None => seenWs # None /\ cr # None /\ seenWs.uid = cr.uid

\* A Deployment has its workspace.
DepOwned == dep # None => cr # None /\ dep.uid = cr.uid

\* The losses that pass, Deployment and pod remember were read in this order:
\* the pod's before the Deployment's, which is before the pass's.
LostOrdered ==
  /\ Working => pass.lost <= lost
  /\ dep # None => dep.lost <= lost
  /\ pod # None => pod.lost <= lost
  /\ Working /\ dep # None => dep.lost <= pass.lost
  /\ Working /\ pod # None => pod.lost <= pass.lost
  /\ dep # None /\ pod # None => pod.lost <= dep.lost

ObjectsTyped == CrTyped /\ Counters /\ ResTyped
WorkTyped == PassTyped /\ DepTyped /\ PodTyped
Ownership == SameWorkspace /\ DepOwned
Orders == LostOrdered
Views == SeenTyped /\ SeenSame /\ SeenPresent
Base == ObjectsTyped /\ WorkTyped /\ Ownership /\ Orders /\ Views

-----------------------------------------------------------------------------
(* What the steps have in common.                                          *)

\* What the argument about the workloads reads.
loads == <<dep, pod, pass>>

\* A write to the workspace that is there.
Rewrites == (\E e \in Envs : UpdateOverrides(e)) \/ Pause \/ Resume \/ DeleteWorkspace

\* It leaves the identity alone.
Rewritten ==
  /\ cr # None /\ cr' # None /\ cr' \in WorkspaceRecords
  /\ cr'.uid = cr.uid /\ cr'.owner = cr.owner /\ cr'.groups = cr.groups

\* A user's write keeps uid, owner and groups of the workspace.
LEMMA RewritesKeep ==
  ASSUME CrTyped, Rewrites PROVE Rewritten
<1>1. cr # None /\ cr \in WorkspaceRecords
  BY DEF CrTyped, Rewrites, UpdateOverrides, Pause, Resume, DeleteWorkspace, Live
<1>2. \/ \E e \in Envs : cr' = [cr EXCEPT !.env = e]
      \/ \E b \in BOOLEAN : cr' = [cr EXCEPT !.paused = b]
      \/ cr' = [cr EXCEPT !.del = TRUE]
  BY DEF Rewrites, UpdateOverrides, Pause, Resume, DeleteWorkspace
<1>3. CASE \E e \in Envs : cr' = [cr EXCEPT !.env = e]
  <2>1. PICK e \in Envs : cr' = [cr EXCEPT !.env = e]
    BY <1>3
  <2>2. cr' \in WorkspaceRecords
    BY <1>1, <2>1 DEF WorkspaceRecords
  <2> QED
    BY <1>1, <2>1, <2>2, DesktopNilAssumption DEF Rewritten, WorkspaceRecords
<1>4. CASE \E b \in BOOLEAN : cr' = [cr EXCEPT !.paused = b]
  <2>1. PICK b \in BOOLEAN : cr' = [cr EXCEPT !.paused = b]
    BY <1>4
  <2>2. cr' \in WorkspaceRecords
    BY <1>1, <2>1 DEF WorkspaceRecords
  <2> QED
    BY <1>1, <2>1, <2>2, DesktopNilAssumption DEF Rewritten, WorkspaceRecords
<1>5. CASE cr' = [cr EXCEPT !.del = TRUE]
  <2>2. cr' \in WorkspaceRecords
    BY <1>1, <1>5 DEF WorkspaceRecords
  <2> QED
    BY <1>1, <1>5, <2>2, DesktopNilAssumption DEF Rewritten, WorkspaceRecords
<1> QED
  BY <1>2, <1>3, <1>4, <1>5

\* A pass goes on: what it has read stays with it.
GoesOn ==
  /\ Working /\ Working' /\ DOMAIN pass' = PassFields
  /\ pass'.ws = pass.ws /\ pass'.tpl = pass.tpl
  /\ pass'.lost = pass.lost

\* The steps inside a pass.
Advances == \/ Gate
            \/ EnsureResolver
            \/ EnsurePodCopy
            \/ EnsureKasmConfig
            \/ EnsurePullSecret
            \/ RecreatePull

MovesTo(pc) ==
  /\ DOMAIN pass' = PassFields /\ pass'.pc = pc
  /\ pass'.ws = pass.ws /\ pass'.tpl = pass.tpl
  /\ pass'.lost = pass.lost

\* What an update of the pass keeps.
LEMMA PassUpdates ==
  ASSUME PassTyped, NEW pc
  PROVE  /\ pass' = [pass EXCEPT !.pc = pc] => MovesTo(pc) /\ pass'.pw = pass.pw
         /\ \A pw : pass' = [pass EXCEPT !.pc = pc, !.pw = pw] => MovesTo(pc) /\ pass'.pw = pw
         /\ \A s : pass' = [pass EXCEPT !.pc = pc, !.src = s] => MovesTo(pc) /\ pass'.pw = pass.pw
<1>1. DOMAIN pass = PassFields
  BY DEF PassTyped
<1>2. pass' = [pass EXCEPT !.pc = pc] => MovesTo(pc) /\ pass'.pw = pass.pw
  BY <1>1 DEF MovesTo, PassFields
<1>3. ASSUME NEW pw, pass' = [pass EXCEPT !.pc = pc, !.pw = pw]
      PROVE  MovesTo(pc) /\ pass'.pw = pw
  BY <1>1, <1>3 DEF MovesTo, PassFields
<1>4. ASSUME NEW s, pass' = [pass EXCEPT !.pc = pc, !.src = s]
      PROVE  MovesTo(pc) /\ pass'.pw = pass.pw
  BY <1>1, <1>4 DEF MovesTo, PassFields
<1> QED
  BY <1>2, <1>3, <1>4

\* A step inside a pass goes on with what was read, or ends the pass.
LEMMA AdvancesGoOn ==
  ASSUME PassTyped, Advances PROVE GoesOn \/ pass' = Idle
<1>1. Working
  BY DEF Advances, Gate, EnsureResolver, EnsurePodCopy, EnsureKasmConfig, EnsurePullSecret,
         RecreatePull, At, Working
<1>2. \/ pass' = Idle
      \/ \E pc \in {"resolver", "copy", "config", "pull", "repull", "work"} :
           \/ pass' = [pass EXCEPT !.pc = pc]
           \/ \E pw : pass' = [pass EXCEPT !.pc = pc, !.pw = pw]
           \/ \E s : pass' = [pass EXCEPT !.pc = pc, !.src = s]
  <2>1. CASE Gate
    BY <2>1 DEF Gate, GoTo, Refuse
  <2>2. CASE EnsureResolver
    BY <2>2 DEF EnsureResolver, GoTo
  <2>3. CASE EnsurePodCopy
    BY <2>3 DEF EnsurePodCopy, GoTo
  <2>4. CASE EnsureKasmConfig
    BY <2>4 DEF EnsureKasmConfig, GoTo
  <2>5. CASE EnsurePullSecret
    BY <2>5 DEF EnsurePullSecret, GoTo, Refuse
  <2>6. CASE RecreatePull
    BY <2>6 DEF RecreatePull, GoTo
  <2> QED
    BY <2>1, <2>2, <2>3, <2>4, <2>5, <2>6 DEF Advances
<1>3. ASSUME NEW pc \in {"resolver", "copy", "config", "pull", "repull", "work"},
             \/ pass' = [pass EXCEPT !.pc = pc]
             \/ \E pw : pass' = [pass EXCEPT !.pc = pc, !.pw = pw]
             \/ \E s : pass' = [pass EXCEPT !.pc = pc, !.src = s]
      PROVE  GoesOn
  <2>1. MovesTo(pc)
    BY <1>3, PassUpdates
  <2> QED
    BY <1>1, <2>1 DEF GoesOn, Working, MovesTo
<1> QED
  BY <1>2, <1>3

\* The steps of pass and workloads.
LoadSteps == \/ Begin
             \/ Advances
             \/ EnsureWorkload
             \/ PassFails
             \/ Finalize
             \/ PodStarts
             \/ PodStops
             \/ ContainerRestarts

\* Every other step leaves pass and workloads alone, and these leave the
\* history alone.
LEMMA Steps ==
  ASSUME Next
  PROVE  /\ UNCHANGED loads \/ LoadSteps
         /\ LoadSteps => UNCHANGED lost
         /\ \/ UNCHANGED cr
            \/ UNCHANGED loads /\ Rewrites
            \/ UNCHANGED loads /\ (\E d \in Direct : CreateWorkspace(d))
            \/ Finalize
<1>1. LoadSteps => UNCHANGED lost
  BY DEF LoadSteps, Advances, Gate, EnsureResolver, EnsurePodCopy, EnsureKasmConfig,
         EnsurePullSecret, RecreatePull, Begin, EnsureWorkload, PassFails, Finalize, PodStarts,
         PodStops, ContainerRestarts
<1>2. UNCHANGED loads \/ LoadSteps
  BY DEF loads, LoadSteps, Advances, Next, PassStep, EditPolicies, EditGroups, EditSource,
         EditCatalog, EditTemplate, DeleteResolver, GarbageCollect, UpdateOverrides,
         CreateWorkspace, Pause, Resume, DeleteWorkspace, Resync, Connect, ConnectionInfo,
         Deliver, DeliverPolicies, DeliverCatalog, DeliverTemplate, DeliverWorkspace
<1>3. \/ UNCHANGED cr
      \/ UNCHANGED loads /\ Rewrites
      \/ UNCHANGED loads /\ (\E d \in Direct : CreateWorkspace(d))
      \/ Finalize
  <2>1. CASE Rewrites
    BY <2>1 DEF Rewrites, UpdateOverrides, Pause, Resume, DeleteWorkspace, loads
  <2>2. CASE \E d \in Direct : CreateWorkspace(d)
    BY <2>2 DEF CreateWorkspace, loads
  <2>3. CASE ~Rewrites /\ ~Finalize /\ ~(\E d \in Direct : CreateWorkspace(d))
    BY <2>3 DEF Rewrites, Gate, EnsureResolver, EnsurePodCopy, EnsureKasmConfig,
         EnsurePullSecret, RecreatePull, Begin, EnsureWorkload, PassFails, PodStarts,
         PodStops, ContainerRestarts, Next, PassStep, EditPolicies, EditGroups, EditSource,
         EditCatalog, EditTemplate, DeleteResolver, GarbageCollect, Resync, Connect,
         ConnectionInfo, Deliver, DeliverPolicies, DeliverCatalog, DeliverTemplate,
         DeliverWorkspace
  <2> QED
    BY <2>1, <2>2, <2>3
<1> QED
  BY <1>1, <1>2, <1>3

\* Losses are only added.
LossesGrow == lost' \in Nat /\ lost <= lost'

\* Every step counts a loss or does not.
LEMMA HistoryGrows ==
  ASSUME Counters, Next PROVE LossesGrow
<1>1. lost \in Nat
  BY DEF Counters
<1>2. \/ UNCHANGED lost
      \/ lost' = lost + 1
      \/ lost' = lost + 0
  <2>1. CASE DeliverTemplate
    <3>1. CASE LosesPassword(tpl, seenWs)
      BY <2>1, <3>1 DEF DeliverTemplate
    <3>2. CASE ~LosesPassword(tpl, seenWs)
      BY <2>1, <3>2 DEF DeliverTemplate
    <3> QED
      BY <3>1, <3>2
  <2>2. CASE DeliverWorkspace
    <3>1. CASE LosesPassword(seenTpl, cr)
      BY <2>2, <3>1 DEF DeliverWorkspace
    <3>2. CASE ~LosesPassword(seenTpl, cr)
      BY <2>2, <3>2 DEF DeliverWorkspace
    <3> QED
      BY <3>1, <3>2
  <2>3. CASE \E m \in Mechanisms : DeleteResolver(m) \/ GarbageCollect(m)
    BY <2>3 DEF DeleteResolver, GarbageCollect
  <2>4. CASE /\ ~DeliverTemplate /\ ~DeliverWorkspace
             /\ ~(\E m \in Mechanisms : DeleteResolver(m) \/ GarbageCollect(m))
    BY <2>4 DEF Next, PassStep, Deliver, DeliverPolicies, DeliverCatalog, Gate, EnsureResolver,
       EnsurePodCopy, EnsureKasmConfig, EnsurePullSecret, RecreatePull, Begin, EnsureWorkload,
       PassFails, Finalize, PodStarts, PodStops, ContainerRestarts, EditPolicies, EditTemplate,
       EditGroups, EditSource, EditCatalog, CreateWorkspace, UpdateOverrides,
       Pause, Resume, DeleteWorkspace, Resync, Connect, ConnectionInfo
  <2> QED
    BY <2>1, <2>2, <2>3, <2>4
<1> QED
  BY <1>1, <1>2 DEF LossesGrow

\* What a step counts.
UsedStep ==
  \/ UNCHANGED used
  \/ used' = [used EXCEPT !.events = @ + 1]
  \/ used' = [used EXCEPT !.passwords = @ + 1]
  \/ used' = [used EXCEPT !.sessions = @ + 1]
  \/ used' = [used EXCEPT !.sessions = @ + 1, !.events = @ + 1]
  \/ used.crs < MaxCrs /\ used' = [used EXCEPT !.crs = @ + 1]

UsedTyped == used \in [events : Nat, crs : 0..MaxCrs, sessions : Nat, passwords : Nat]

\* A step counts no more than that.
LEMMA UsedSteps ==
  ASSUME UsedTyped, Next PROVE UsedStep
<1>1. CASE \E q \in UserParams, found \in BOOLEAN : Connect(q, found)
  <2>1. PICK q \in UserParams, found \in BOOLEAN : Connect(q, found)
    BY <1>1
  <2>2. CASE found
    <3>1. used' = [used EXCEPT !.sessions = @ + 1, !.events = @]
      BY <2>1, <2>2 DEF Connect
    <3>2. used' = [used EXCEPT !.sessions = @ + 1]
      BY <3>1 DEF UsedTyped
    <3> QED
      BY <3>2 DEF UsedStep
  <2>3. CASE ~found
    <3>1. used' = [used EXCEPT !.sessions = @ + 1, !.events = @ + 1]
      BY <2>1, <2>3 DEF Connect
    <3> QED
      BY <3>1 DEF UsedStep
  <2> QED
    BY <2>2, <2>3
<1>2. CASE \E found \in BOOLEAN : ConnectionInfo(found)
  <2>1. PICK found \in BOOLEAN : ConnectionInfo(found)
    BY <1>2
  <2>2. CASE found
    <3>1. used' = [used EXCEPT !.events = @]
      BY <2>1, <2>2 DEF ConnectionInfo
    <3>2. UNCHANGED used
      BY <3>1 DEF UsedTyped
    <3> QED
      BY <3>2 DEF UsedStep
  <2>3. CASE ~found
    <3>1. used' = [used EXCEPT !.events = @ + 1]
      BY <2>1, <2>3 DEF ConnectionInfo
    <3> QED
      BY <3>1 DEF UsedStep
  <2> QED
    BY <2>2, <2>3
<1>3. CASE /\ ~(\E q \in UserParams, found \in BOOLEAN : Connect(q, found))
           /\ ~(\E found \in BOOLEAN : ConnectionInfo(found))
  <2>1. \/ UNCHANGED used
        \/ used' = [used EXCEPT !.events = @ + 1]
        \/ used' = [used EXCEPT !.passwords = @ + 1]
        \/ used.crs < MaxCrs /\ used' = [used EXCEPT !.crs = @ + 1]
    BY <1>3 DEF Next, PassStep, Deliver, DeliverPolicies, DeliverCatalog, DeliverTemplate,
       DeliverWorkspace, CountEvent, Gate, EnsureResolver, EnsurePodCopy, EnsureKasmConfig,
       EnsurePullSecret, RecreatePull, Begin, EnsureWorkload, PassFails, Finalize, PodStarts,
       PodStops, ContainerRestarts, EditPolicies, EditTemplate, DeleteResolver, GarbageCollect,
       UpdateOverrides, EditGroups, EditSource, EditCatalog, CreateWorkspace,
       Pause, Resume, DeleteWorkspace, Resync
  <2> QED
    BY <2>1 DEF UsedStep
<1> QED
  BY <1>1, <1>2, <1>3

\* The bounded events: the workspaces and the passwords are only ever more.
LEMMA UsedCounts ==
  ASSUME UsedTyped, Next
  PROVE  UsedTyped' /\ used.crs <= used'.crs /\ used.passwords <= used'.passwords
<1>1. UsedTyped /\ MaxCrs \in Nat
  BY DesktopBoundsAssumption
<1>2. UsedStep
  BY UsedSteps
<1>3. CASE UNCHANGED used
  BY <1>1, <1>3 DEF UsedTyped
<1>4. CASE used' = [used EXCEPT !.events = @ + 1]
  BY <1>1, <1>4 DEF UsedTyped
<1>5. CASE used' = [used EXCEPT !.passwords = @ + 1]
  BY <1>1, <1>5 DEF UsedTyped
<1>6. CASE used' = [used EXCEPT !.sessions = @ + 1]
  BY <1>1, <1>6 DEF UsedTyped
<1>7. CASE used' = [used EXCEPT !.sessions = @ + 1, !.events = @ + 1]
  <2>1. used' = [events |-> used.events + 1, crs |-> used.crs,
                 sessions |-> used.sessions + 1, passwords |-> used.passwords]
    BY <1>1, <1>7 DEF UsedTyped
  <2> QED
    BY <1>1, <2>1 DEF UsedTyped
<1>8. CASE used.crs < MaxCrs /\ used' = [used EXCEPT !.crs = @ + 1]
  BY <1>1, <1>8 DEF UsedTyped
<1> QED
  BY <1>2, <1>3, <1>4, <1>5, <1>6, <1>7, <1>8 DEF UsedStep

\* What Counters says of them.
LEMMA EventsTyped ==
  ASSUME Counters, Next
  PROVE  used' \in [events : Nat, crs : 0..MaxCrs, sessions : Nat, passwords : Nat]
  BY UsedCounts DEF Counters, UsedTyped

\* The user's groups are one of their values.
LEMMA GroupsTyped ==
  ASSUME Counters, Next PROVE groups' \in UserGroups
  BY DEF Counters, Next, PassStep, Deliver, DeliverPolicies, DeliverCatalog,
       DeliverTemplate, DeliverWorkspace, Gate, EnsureResolver, EnsurePodCopy, EnsureKasmConfig,
       EnsurePullSecret, RecreatePull, Begin, EnsureWorkload, PassFails, Finalize, PodStarts,
       PodStops, ContainerRestarts, EditPolicies, EditTemplate, DeleteResolver, GarbageCollect,
       UpdateOverrides, EditGroups, EditSource, EditCatalog, CreateWorkspace,
       Pause, Resume, DeleteWorkspace, Resync, Connect, ConnectionInfo, admin

\* A resolver copy is created for the workspace of the pass, or goes.
ResStep ==
  \/ UNCHANGED res
  \/ \E m \in Mechanisms : res' = [res EXCEPT ![m] = None]
  \/ /\ EnsureResolver
     /\ \E m \in Mechanisms : res[m] = None /\ res' = [res EXCEPT ![m] = NewResolver(pass.ws)]

\* One mechanism at most.
LEMMA MechanismsKnown ==
  ASSUME NEW ws, NEW t PROVE PasswordGenerated(ws, t) \in Mechanisms \cup {None}
<1>1. CASE kasmPasswordGenerated(ws, t)
  BY <1>1 DEF PasswordGenerated, desktopPasswordGenerated, Mechanisms
<1>2. CASE ~kasmPasswordGenerated(ws, t)
  BY <1>2 DEF PasswordGenerated, Mechanisms
<1> QED
  BY <1>1, <1>2

\* There is no other step of a resolver copy.
LEMMA ResSteps ==
  ASSUME Next PROVE ResStep
<1>1. CASE EnsureResolver
  BY <1>1, MechanismsKnown DEF EnsureResolver, ResStep
<1>2. CASE \E m \in Mechanisms : DeleteResolver(m) \/ GarbageCollect(m)
  BY <1>2 DEF DeleteResolver, GarbageCollect, ResStep
<1>3. CASE ~EnsureResolver /\ ~(\E m \in Mechanisms : DeleteResolver(m) \/ GarbageCollect(m))
  <2>1. UNCHANGED res
    BY <1>3 DEF Next, PassStep, Deliver, DeliverPolicies, DeliverCatalog, DeliverTemplate,
       DeliverWorkspace, Gate, EnsurePodCopy, EnsureKasmConfig, objects,
       EnsurePullSecret, RecreatePull, Begin, EnsureWorkload, PassFails, Finalize, PodStarts,
       PodStops, ContainerRestarts, EditPolicies, EditTemplate,
       UpdateOverrides, EditGroups, EditSource, EditCatalog, CreateWorkspace,
       Pause, Resume, DeleteWorkspace, Resync, Connect, ConnectionInfo
  <2> QED
    BY <2>1 DEF ResStep
<1> QED
  BY <1>1, <1>2, <1>3

\* Resolver copies stay records or nil.
LEMMA ResolversTyped ==
  ASSUME Counters, ResTyped, PassTyped, Next PROVE ResTyped'
<1>1. CASE UNCHANGED res
  BY <1>1 DEF ResTyped
<1>2. CASE \E m \in Mechanisms : res' = [res EXCEPT ![m] = None]
  BY <1>2 DEF ResTyped
<1>3. CASE /\ EnsureResolver
           /\ \E m \in Mechanisms : res' = [res EXCEPT ![m] = NewResolver(pass.ws)]
  <2>1. pass.ws \in WorkspaceRecords
    BY <1>3 DEF PassTyped, EnsureResolver, At, Working
  <2>2. NewResolver(pass.ws) \in ResolverRecords
    BY <2>1 DEF NewResolver, ResolverRecords, WorkspaceRecords, Counters
  <2> QED
    BY <1>3, <2>2 DEF ResTyped
<1> QED
  BY <1>1, <1>2, <1>3, ResSteps DEF ResStep

\* The workspace stays a record or nil.
LEMMA WorkspaceTyped ==
  ASSUME CrTyped, Counters, Next PROVE CrTyped'
<1>1. CASE UNCHANGED cr
  BY <1>1 DEF CrTyped
<1>2. CASE Rewrites
  BY <1>2, RewritesKeep DEF CrTyped, Rewritten
<1>3. CASE \E d \in Direct : CreateWorkspace(d)
  BY <1>3, DesktopInputsAssumption DEF CreateWorkspace, CrTyped, Counters, WorkspaceRecords
<1>4. CASE Finalize
  BY <1>4 DEF Finalize, CrTyped
<1> QED
  BY <1>1, <1>2, <1>3, <1>4, Steps

-----------------------------------------------------------------------------
(* Pass, Deployment and pod: their types, their owner and the order of the *)
(* histories they carry.                                                   *)

Carried == WorkTyped /\ Ownership /\ Orders

\* Steps of everything else.
LEMMA CarriedAside ==
  ASSUME Base, UNCHANGED loads, LossesGrow,
         \/ UNCHANGED cr
         \/ Rewrites
         \/ \E d \in Direct : CreateWorkspace(d)
  PROVE  Carried'
<1>1. WorkTyped'
  BY DEF Base, WorkTyped, PassTyped, DepTyped, PodTyped, Working, loads
<1>2. Orders'
  BY DEF Base, ObjectsTyped, Counters, WorkTyped, PassTyped, DepTyped, PodTyped, Orders,
         LostOrdered, Working, loads, LossesGrow
<1>3. CASE UNCHANGED cr
  BY <1>1, <1>2, <1>3 DEF Carried, Base, Ownership, SameWorkspace, DepOwned, Working, loads,
     IdentityOf
<1>4. CASE Rewrites
  <2>1. Rewritten
    BY <1>4, RewritesKeep DEF Base, ObjectsTyped
  <2> QED
    BY <1>1, <1>2, <2>1 DEF Carried, Base, Ownership, SameWorkspace, DepOwned, Working, loads,
       Rewritten, IdentityOf
<1>5. CASE \E d \in Direct : CreateWorkspace(d)
  <2>1. cr = None
    BY <1>5 DEF CreateWorkspace
  <2>2. ~Working /\ dep = None
    BY <2>1 DEF Base, Ownership, SameWorkspace, DepOwned
  <2> QED
    BY <1>1, <1>2, <2>2 DEF Carried, Ownership, SameWorkspace, DepOwned, Working, loads
<1> QED
  BY <1>3, <1>4, <1>5

\* A pass begins.
LEMMA CarriedBegin ==
  ASSUME Base, Begin PROVE Carried'
<1>1. /\ DOMAIN pass' = PassFields /\ pass'.pc = "gate" /\ pass'.ws = seenWs /\ pass'.tpl = seenTpl
      /\ pass'.lost = lost
  BY DEF Begin, Idle, PassFields
<1>2. /\ cr # None /\ seenWs \in WorkspaceRecords
      /\ IdentityOf(seenWs) = IdentityOf(cr) /\ seenWs.uid = cr.uid
  BY DEF Begin, Base, Views, SeenTyped, SeenSame
<1>3. UNCHANGED <<cr, dep, pod, lost>>
  BY DEF Begin
<1>4. WorkTyped'
  BY <1>1, <1>2, <1>3 DEF Base, ObjectsTyped, Counters, WorkTyped, PassTyped, DepTyped,
     PodTyped, Working
<1>5. Orders'
  BY <1>1, <1>3 DEF Base, ObjectsTyped, Counters, Orders, LostOrdered, Working
<1>6. Ownership'
  BY <1>1, <1>2, <1>3 DEF Base, Ownership, SameWorkspace, DepOwned, Working
<1> QED
  BY <1>4, <1>5, <1>6 DEF Carried

\* A pass ends.
LEMMA CarriedEnd ==
  ASSUME Base, pass' = Idle, UNCHANGED <<cr, dep, pod, lost>> PROVE Carried'
<1>1. /\ DOMAIN pass' = PassFields /\ pass'.pc = "idle"
      /\ pass'.lost = 0
  BY DEF Idle, PassFields
<1>2. WorkTyped'
  BY <1>1 DEF Base, WorkTyped, PassTyped, DepTyped, PodTyped, Working
<1>3. Orders'
  BY <1>1 DEF Base, Orders, LostOrdered, Working
<1>4. Ownership'
  BY <1>1 DEF Base, Ownership, SameWorkspace, DepOwned, Working
<1> QED
  BY <1>2, <1>3, <1>4 DEF Carried

\* A pass goes on.
LEMMA CarriedOn ==
  ASSUME Base, GoesOn, UNCHANGED <<cr, dep, pod, lost>> PROVE Carried'
<1>1. WorkTyped'
  BY DEF GoesOn, Base, WorkTyped, PassTyped, DepTyped, PodTyped, Working
<1>2. Orders'
  BY DEF GoesOn, Base, Orders, LostOrdered, Working
<1>3. Ownership'
  BY DEF GoesOn, Base, Ownership, SameWorkspace, DepOwned, Working
<1> QED
  BY <1>1, <1>2, <1>3 DEF Carried

\* The Deployment takes over the pass's history or keeps its own.
LEMMA CarriedWorkload ==
  ASSUME Base, EnsureWorkload PROVE Carried'
<1>1. Working /\ pass' = Idle /\ UNCHANGED <<cr, pod, lost>>
  BY DEF EnsureWorkload, At, Working
<1>2. /\ pass'.pc = "idle" /\ DOMAIN pass' = PassFields
      /\ pass'.lost = 0
  BY <1>1 DEF Idle, PassFields
<1>3. /\ dep'.uid = pass.ws.uid
      /\ \/ dep'.lost = pass.lost
         \/ dep # None /\ dep'.lost = dep.lost
  BY DEF EnsureWorkload, Deployed, Boundary
<1>4. WorkTyped'
  BY <1>1, <1>2, <1>3 DEF Base, WorkTyped, PassTyped, DepTyped, PodTyped, Working
<1>5. Orders'
  BY <1>1, <1>2, <1>3 DEF Base, Orders, LostOrdered, Working
<1>6. Ownership'
  BY <1>1, <1>2, <1>3 DEF Base, Ownership, SameWorkspace, DepOwned, Working
<1> QED
  BY <1>4, <1>5, <1>6 DEF Carried

\* The workspace and its Deployment go; the pod stays a while.
LEMMA CarriedFinalize ==
  ASSUME Base, Finalize PROVE Carried'
<1>1. ~Working /\ ~Working' /\ dep' = None /\ UNCHANGED <<pod, pass, lost>>
  BY DEF Finalize, At, Working
<1>2. WorkTyped'
  BY <1>1 DEF Base, WorkTyped, PassTyped, DepTyped, PodTyped, Working
<1>3. Orders'
  BY <1>1 DEF Base, Orders, LostOrdered
<1>4. Ownership'
  BY <1>1 DEF Base, Ownership, SameWorkspace, DepOwned
<1> QED
  BY <1>2, <1>3, <1>4 DEF Carried

\* A pod carries what its Deployment did.
LEMMA CarriedPods ==
  ASSUME Base, PodStarts \/ PodStops \/ ContainerRestarts PROVE Carried'
<1>1. UNCHANGED <<cr, dep, pass, lost>>
  BY DEF PodStarts, PodStops, ContainerRestarts
<1>2. Ownership'
  BY <1>1 DEF Base, Ownership, SameWorkspace, DepOwned, Working
<1>3. CASE PodStarts
  <2>1. /\ dep # None /\ DOMAIN pod' = PodFields
        /\ pod'.lost = dep.lost
    BY <1>3 DEF PodStarts, PodFields
  <2>2. WorkTyped'
    BY <1>1, <2>1 DEF Base, WorkTyped, PassTyped, DepTyped, PodTyped, Working
  <2>3. Orders'
    BY <1>1, <2>1 DEF Base, WorkTyped, DepTyped, Orders, LostOrdered, Working
  <2> QED
    BY <1>2, <2>2, <2>3 DEF Carried
<1>4. CASE PodStops
  <2>1. pod' = None
    BY <1>4 DEF PodStops
  <2>2. WorkTyped'
    BY <1>1, <2>1 DEF Base, WorkTyped, PassTyped, DepTyped, PodTyped, Working
  <2>3. Orders'
    BY <1>1, <2>1 DEF Base, Orders, LostOrdered, Working
  <2> QED
    BY <1>2, <2>2, <2>3 DEF Carried
<1>5. CASE ContainerRestarts
  <2>1. pod # None /\ DOMAIN pod = PodFields
    BY <1>5 DEF ContainerRestarts, Base, WorkTyped, PodTyped
  <2>2. /\ DOMAIN pod' = PodFields
        /\ pod'.lost = pod.lost
    BY <1>5, <2>1 DEF ContainerRestarts, PodFields
  <2>3. WorkTyped'
    BY <1>1, <2>1, <2>2 DEF Base, WorkTyped, PassTyped, DepTyped, PodTyped, Working
  <2>4. Orders'
    BY <1>1, <2>1, <2>2 DEF Base, Orders, LostOrdered, Working
  <2> QED
    BY <1>2, <2>3, <2>4 DEF Carried
<1> QED
  BY <1>3, <1>4, <1>5

\* Types, owners and orders survive every step.
LEMMA CarriedStays ==
  ASSUME Base, Next PROVE Carried'
<1>1. LossesGrow
  BY HistoryGrows DEF Base, ObjectsTyped
<1>2. CASE UNCHANGED loads /\ ~Finalize
  BY <1>1, <1>2, Steps, CarriedAside
<1>3. CASE Finalize
  BY <1>3, CarriedFinalize
<1>4. CASE Begin
  BY <1>4, CarriedBegin
<1>5. CASE Advances
  <2>1. UNCHANGED <<cr, dep, pod, lost>>
    BY <1>5 DEF Advances, Gate, EnsureResolver, EnsurePodCopy, EnsureKasmConfig,
       EnsurePullSecret, RecreatePull
  <2>2. GoesOn \/ pass' = Idle
    BY <1>5, AdvancesGoOn DEF Base, WorkTyped
  <2> QED
    BY <2>1, <2>2, CarriedOn, CarriedEnd
<1>6. CASE EnsureWorkload
  BY <1>6, CarriedWorkload
<1>7. CASE PassFails
  BY <1>7, CarriedEnd DEF PassFails
<1>8. CASE PodStarts \/ PodStops \/ ContainerRestarts
  BY <1>8, CarriedPods
<1> QED
  BY <1>2, <1>3, <1>4, <1>5, <1>6, <1>7, <1>8, Steps DEF LoadSteps

\* The identity of a workspace that was rewritten, or not.
LEMMA IdentityKept ==
  ASSUME UNCHANGED cr \/ Rewritten PROVE IdentityOf(cr)' = IdentityOf(cr)
  BY DEF Rewritten, IdentityOf

\* Who works is at work before, or begins.
LEMMA PresenceKept ==
  ASSUME Base, Next, ~Finalize
  PROVE  Working' \/ dep' # None => \/ Working \/ dep # None
                                    \/ Begin
<1>1. CASE UNCHANGED loads
  BY <1>1 DEF loads, Working
<1>2. CASE LoadSteps /\ ~Begin
  <2>1. CASE Advances
    BY <2>1, AdvancesGoOn DEF Base, WorkTyped, GoesOn, Advances, Gate, EnsureResolver,
       EnsurePodCopy, EnsureKasmConfig, EnsurePullSecret, RecreatePull, At, Working
  <2>2. CASE EnsureWorkload \/ PassFails
    BY <2>2 DEF EnsureWorkload, PassFails, At, Working
  <2>3. CASE PodStarts \/ PodStops \/ ContainerRestarts
    BY <2>3 DEF PodStarts, PodStops, ContainerRestarts, Working
  <2> QED
    BY <1>2, <2>1, <2>2, <2>3 DEF LoadSteps
<1> QED
  BY <1>1, <1>2, Steps DEF LoadSteps

\* What the operator sees of the workspace.
LEMMA ViewsStay ==
  ASSUME Base, Next, CrTyped', Ownership' PROVE Views'
<1>1. CASE DeliverWorkspace
  <2>1. seenWs' = cr /\ UNCHANGED <<cr, dep, pass>>
    BY <1>1 DEF DeliverWorkspace
  <2>2. SeenTyped'
    BY <2>1 DEF SeenTyped, Base, ObjectsTyped, CrTyped
  <2>3. SeenSame'
    BY <2>1 DEF SeenSame, IdentityOf
  <2>4. SeenPresent'
    BY <2>1 DEF SeenPresent, Working, Base, Ownership, SameWorkspace, DepOwned
  <2> QED
    BY <2>2, <2>3, <2>4 DEF Views
<1>2. CASE ~DeliverWorkspace
  <2>1. UNCHANGED seenWs
    BY <1>2 DEF Next, PassStep, Deliver, DeliverPolicies, DeliverCatalog, DeliverTemplate,
       Gate, EnsureResolver, EnsurePodCopy, EnsureKasmConfig, EnsurePullSecret, RecreatePull,
       Begin, EnsureWorkload, PassFails, Finalize, PodStarts, PodStops, ContainerRestarts,
       EditPolicies, EditTemplate, EditGroups, EditSource, EditCatalog, CreateWorkspace,
       UpdateOverrides, Pause, Resume, DeleteWorkspace, Resync, Connect, ConnectionInfo,
       DeleteResolver, GarbageCollect, cache
  <2>2. SeenTyped'
    BY <2>1 DEF SeenTyped, Base, Views
  <2>3. CASE Finalize
    <3>1. ~Working /\ cr' = None /\ dep' = None /\ seenWs = cr /\ cr.del /\ UNCHANGED pass
      BY <2>3 DEF Finalize, At, Working
    <3>2. SeenSame' /\ SeenPresent'
      BY <2>1, <3>1 DEF SeenSame, SeenPresent, Working
    <3> QED
      BY <2>2, <3>2 DEF Views
  <2>4. CASE \E d \in Direct : CreateWorkspace(d)
    <3>1. cr = None /\ UNCHANGED <<dep, pass>>
      BY <2>4 DEF CreateWorkspace
    <3>2. SeenSame' /\ SeenPresent'
      BY <2>1, <3>1 DEF SeenSame, SeenPresent, Working, Base, Views, Ownership, SameWorkspace,
         DepOwned
    <3> QED
      BY <2>2, <3>2 DEF Views
  <2>5. CASE ~Finalize /\ (UNCHANGED cr \/ Rewritten)
    <3>1. IdentityOf(cr)' = IdentityOf(cr) /\ (cr # None => cr' # None /\ cr'.uid = cr.uid)
      BY <2>5, IdentityKept DEF Rewritten
    <3>2. IdentityOf(seenWs)' = IdentityOf(seenWs)
      BY <2>1 DEF IdentityOf
    <3>3. SeenSame'
      BY <2>1, <3>1, <3>2 DEF SeenSame, Base, Views
    <3>4. Begin => seenWs # None /\ ~seenWs.del
      BY DEF Begin
    <3>5. SeenPresent'
      BY <2>1, <2>5, <3>1, <3>4, PresenceKept DEF SeenPresent, SeenSame, Base, Views
    <3> QED
      BY <2>2, <3>3, <3>5 DEF Views
  <2> QED
    BY <2>3, <2>4, <2>5, Steps, RewritesKeep DEF Base, ObjectsTyped
<1> QED
  BY <1>1, <1>2

\* So does all that the arguments below start from.
LEMMA BaseStays ==
  ASSUME Base, [Next]_vars PROVE Base'
<1>1. CASE Next
  <2>1. CrTyped'
    BY <1>1, WorkspaceTyped DEF Base, ObjectsTyped
  <2>2. Counters'
    BY <1>1, HistoryGrows, EventsTyped, GroupsTyped DEF Base, ObjectsTyped, Counters, LossesGrow
  <2>3. ResTyped'
    BY <1>1, ResolversTyped DEF Base, ObjectsTyped, WorkTyped
  <2>4. Views'
    BY <1>1, <2>1, CarriedStays, ViewsStay DEF Carried
  <2> QED
    BY <1>1, <2>1, <2>2, <2>3, <2>4, CarriedStays DEF Carried, Base, ObjectsTyped
<1>2. CASE UNCHANGED vars
  <2>1. ObjectsTyped'
    BY <1>2 DEF vars, admin, objects, Base, ObjectsTyped, CrTyped, Counters, ResTyped
  <2>2. Carried'
    BY <1>2 DEF vars, admin, objects, Base, Carried, WorkTyped, PassTyped, DepTyped, PodTyped,
       Ownership, SameWorkspace, DepOwned, Orders, LostOrdered, Working,
       IdentityOf
  <2>3. Views'
    BY <1>2 DEF vars, cache, Base, Views, SeenTyped, SeenSame, SeenPresent, IdentityOf, Working
  <2> QED
    BY <2>1, <2>2, <2>3 DEF Base, Carried
<1> QED
  BY <1>1, <1>2

\* It holds of an empty cluster.
LEMMA BaseStarts == Init => Base
<1> SUFFICES ASSUME Init PROVE Base
  OBVIOUS
<1>1. ObjectsTyped
  BY DesktopBoundsAssumption DEF Init, ObjectsTyped, CrTyped, Counters, ResTyped
<1>2. DOMAIN pass = PassFields /\ pass.pc = "idle" /\ pass.lost = 0
  BY DEF Init, Idle, PassFields
<1>3. dep = None /\ pod = None /\ seenWs = None
  BY DEF Init
<1> QED
  BY <1>1, <1>2, <1>3 DEF Base, WorkTyped, PassTyped, DepTyped, PodTyped, Ownership,
     SameWorkspace, DepOwned, Orders, LostOrdered, Views, SeenTyped, SeenSame, SeenPresent,
     Working

-----------------------------------------------------------------------------
(* Uids.                                                                   *)

UidsBounded == cr # None => cr.uid \in 1..used.crs
PodUidBounded == pod # None => pod.uid \in 1..used.crs

\* The counters of uids and of passwords only grow.
LEMMA UsedGrows ==
  ASSUME Counters, Next
  PROVE  used.crs <= used'.crs /\ used.passwords <= used'.passwords
  BY UsedCounts DEF Counters, UsedTyped

\* A workspace has a uid that was given out.
LEMMA UidsStay ==
  ASSUME CrTyped, Counters, UidsBounded, Next PROVE UidsBounded'
<1>1. used.crs <= used'.crs /\ used.crs \in Nat /\ used'.crs \in Nat
  BY UsedGrows, EventsTyped, DesktopBoundsAssumption DEF Counters
<1>2. CASE UNCHANGED cr
  BY <1>1, <1>2 DEF UidsBounded
<1>3. CASE Rewrites
  BY <1>1, <1>3, RewritesKeep DEF UidsBounded, Rewritten
<1>4. CASE \E d \in Direct : CreateWorkspace(d)
  <2>1. cr'.uid = used.crs + 1 /\ used' = [used EXCEPT !.crs = @ + 1]
    BY <1>4 DEF CreateWorkspace
  <2>2. used'.crs = used.crs + 1
    BY <2>1 DEF Counters
  <2> QED
    BY <1>1, <2>1, <2>2 DEF UidsBounded
<1>5. CASE Finalize
  BY <1>5 DEF Finalize, UidsBounded
<1> QED
  BY <1>2, <1>3, <1>4, <1>5, Steps

\* So has a pod.
LEMMA PodUidStays ==
  ASSUME Base, UidsBounded, PodUidBounded, Next PROVE PodUidBounded'
<1>1. used.crs <= used'.crs /\ used.crs \in Nat /\ used'.crs \in Nat
  BY UsedGrows, EventsTyped, DesktopBoundsAssumption DEF Base, ObjectsTyped, Counters
<1>2. CASE PodStarts
  <2>1. dep # None /\ pod'.uid = dep.uid
    BY <1>2 DEF PodStarts
  <2>2. dep.uid \in 1..used.crs
    BY <2>1 DEF Base, Ownership, DepOwned, UidsBounded
  <2> QED
    BY <1>1, <2>1, <2>2 DEF PodUidBounded
<1>3. CASE PodStops
  BY <1>3 DEF PodStops, PodUidBounded
<1>4. CASE ContainerRestarts
  <2>1. pod # None /\ DOMAIN pod = PodFields
    BY <1>4 DEF ContainerRestarts, Base, WorkTyped, PodTyped
  <2>2. pod'.uid = pod.uid
    BY <1>4, <2>1 DEF ContainerRestarts, PodFields
  <2> QED
    BY <1>1, <2>1, <2>2 DEF PodUidBounded
<1>5. CASE UNCHANGED pod
  BY <1>1, <1>5 DEF PodUidBounded
<1>6. \/ UNCHANGED pod
      \/ PodStarts \/ PodStops \/ ContainerRestarts
  <2>1. CASE UNCHANGED loads
    BY <2>1 DEF loads
  <2>2. CASE LoadSteps
    BY <2>2 DEF LoadSteps, Advances, Gate, EnsureResolver, EnsurePodCopy, EnsureKasmConfig,
       EnsurePullSecret, RecreatePull, Begin, EnsureWorkload, PassFails, Finalize
  <2> QED
    BY <2>1, <2>2, Steps
<1> QED
  BY <1>2, <1>3, <1>4, <1>5, <1>6

-----------------------------------------------------------------------------
(* A right a container runs with is one the owner has had.                 *)

\* The rights of the owner as the operator sees it, and those that the
\* ConfigMap gives.
Own == OwnerRights(seenPols, cr)
Written == IF cm = None THEN {} ELSE Rights(cm.clip)

\* The history of a pass, of a Deployment and of a pod of this workspace names
\* the rights of now and those of the ConfigMap, once the pass has written it.
Wrote == pass.pc \in {"pull", "repull", "work"}
PassMay == Working => Own \subseteq may.pass /\ (Wrote => Written \subseteq may.pass)
DepMay == dep # None => Own \subseteq may.dep /\ Written \subseteq may.dep
PodMay == pod # None /\ cr # None /\ pod.uid = cr.uid =>
            Own \subseteq may.pod /\ Written \subseteq may.pod
MayTyped == DOMAIN may = {"pass", "dep", "pod"}
Mays == MayTyped /\ PassMay /\ DepMay /\ PodMay
RightsInv == Mays /\ UidsBounded /\ PodUidBounded /\ RightsAreRecent

\* The rights depend on the identity.
LEMMA RightsOfIdentity ==
  ASSUME NEW a, NEW b, NEW p, IdentityOf(a) = IdentityOf(b)
  PROVE  OwnerRights(p, a) = OwnerRights(p, b)
  BY DEF OwnerRights

\* The same, for a workspace that was rewritten or not.
LEMMA OwnKept ==
  ASSUME UNCHANGED seenPols, UNCHANGED cr \/ Rewritten PROVE Own' = Own
<1>1. IdentityOf(cr)' = IdentityOf(cr)
  BY IdentityKept
<1> QED
  BY <1>1 DEF Own, OwnerRights

\* What a pass writes into the ConfigMap gives no more.
LEMMA ConfigRights ==
  ASSUME NEW ws, NEW t, KasmConfig(ws, t) # None
  PROVE  Rights(KasmConfig(ws, t).clip) = OwnerRights(seenPols, ws)
<1>1. KasmConfig(ws, t) = applyClipboardPolicy(t, kasmClipboardGrant(ws))
  BY DEF KasmConfig
<1> QED
  BY <1>1 DEF applyClipboardPolicy, kasmClipboardGrant, OwnerRights

\* The operator learns of other policies.
LEMMA MayLearns ==
  ASSUME Base, Mays, DeliverPolicies PROVE Mays'
<1> DEFINE new == IF cr = None THEN {} ELSE OwnerRights(pols, cr)
<1>1. /\ seenPols' = pols /\ UNCHANGED <<cr, cm, dep, pod, pass>>
      /\ may' = [x \in {"pass", "dep", "pod"} |-> may[x] \cup new]
  BY DEF DeliverPolicies, objects
<1>2. cr # None => Own' = new
  BY <1>1 DEF Own, OwnerRights, IdentityOf
<1>3. Working \/ dep # None => cr # None
  BY DEF Base, Ownership, SameWorkspace, DepOwned
<1> HIDE DEF new
<1>4. Written' = Written
  BY <1>1 DEF Written
<1>5. /\ may'.pass = may.pass \cup new /\ may'.dep = may.dep \cup new
      /\ may'.pod = may.pod \cup new /\ DOMAIN may' = {"pass", "dep", "pod"}
  BY <1>1
<1>6. PassMay'
  BY <1>1, <1>2, <1>3, <1>4, <1>5 DEF Mays, PassMay, Working, Wrote
<1>7. DepMay'
  BY <1>1, <1>2, <1>3, <1>4, <1>5 DEF Mays, DepMay
<1>8. PodMay'
  BY <1>1, <1>2, <1>4, <1>5 DEF Mays, PodMay
<1> QED
  BY <1>5, <1>6, <1>7, <1>8 DEF Mays, MayTyped

\* A pass begins with the rights of now.
LEMMA MayBegin ==
  ASSUME Base, Mays, Begin PROVE Mays'
<1>1. /\ pass'.pc = "gate" /\ UNCHANGED <<seenPols, cr, cm, dep, pod>>
      /\ may' = [may EXCEPT !.pass = OwnerRights(seenPols, seenWs)]
  BY DEF Begin, Idle, cache, objects
<1>2. OwnerRights(seenPols, seenWs) = Own
  BY RightsOfIdentity DEF Begin, Base, Views, SeenSame, Own
<1>3. Own' = Own /\ Written' = Written
  BY <1>1, OwnKept DEF Written
<1>4. /\ may'.pass = Own /\ may'.dep = may.dep /\ may'.pod = may.pod
      /\ DOMAIN may' = {"pass", "dep", "pod"}
  BY <1>1, <1>2 DEF Mays, MayTyped
<1> QED
  BY <1>1, <1>3, <1>4 DEF Mays, MayTyped, PassMay, DepMay, PodMay, Working, Wrote

\* The pass writes the ConfigMap.
LEMMA MayWrites ==
  ASSUME Base, Mays, EnsureKasmConfig PROVE Mays'
<1>1. /\ cm' = KasmConfig(pass.ws, pass.tpl) /\ UNCHANGED <<seenPols, cr, dep, pod, may>>
      /\ Working
  BY DEF EnsureKasmConfig, KasmConfigKept, cache, At, Working
<1>2. OwnerRights(seenPols, pass.ws) = Own
  BY <1>1, RightsOfIdentity DEF Base, Ownership, SameWorkspace, Own
<1>3. Written' \subseteq Own
  BY <1>1, <1>2, ConfigRights DEF Written
<1>4. Own' = Own
  BY <1>1, OwnKept
<1>5. Own \subseteq may.pass
  BY <1>1 DEF Mays, PassMay
<1> QED
  BY <1>1, <1>3, <1>4, <1>5 DEF Mays, MayTyped, PassMay, DepMay, PodMay

\* The Deployment takes over what the pass has seen, or keeps its own.
LEMMA MayWorkload ==
  ASSUME Base, Mays, EnsureWorkload PROVE Mays'
<1>1. /\ pass.pc = "work" /\ pass' = Idle /\ UNCHANGED <<seenPols, cr, cm, pod>>
      /\ \/ may' = [may EXCEPT !.dep = may.pass]
         \/ dep # None /\ may' = [may EXCEPT !.dep = @]
  BY DEF EnsureWorkload, Boundary, cache, objects, At
<1>2. Own' = Own /\ Written' = Written
  BY <1>1, OwnKept DEF Written
<1>3. /\ may'.dep = may.pass \/ (dep # None /\ may'.dep = may.dep)
      /\ may'.pod = may.pod /\ DOMAIN may' = {"pass", "dep", "pod"}
  BY <1>1 DEF Mays, MayTyped
<1>4. pass'.pc = "idle"
  BY <1>1 DEF Idle
<1> QED
  BY <1>1, <1>2, <1>3, <1>4 DEF Mays, MayTyped, PassMay, DepMay, PodMay, Working, Wrote

\* A container reads the ConfigMap when it starts.
LEMMA RightsPods ==
  ASSUME Base, RightsInv, PodStarts \/ PodStops \/ ContainerRestarts
  PROVE  Mays' /\ RightsAreRecent'
<1>1. UNCHANGED <<seenPols, cr, cm, dep, pass>>
  BY DEF PodStarts, PodStops, ContainerRestarts, cache, objects
<1>2. Own' = Own /\ Written' = Written
  BY <1>1, OwnKept DEF Written
<1>3. may'.pass = may.pass /\ may'.dep = may.dep => PassMay' /\ DepMay'
  BY <1>1, <1>2 DEF RightsInv, Mays, PassMay, DepMay, Working, Wrote
<1>4. ASSUME NEW shape, Started(shape).cfg # None PROVE Rights(Started(shape).cfg.clip) = Written
  BY <1>4 DEF Started, Written
<1>5. CASE PodStarts
  <2>1. /\ dep # None /\ pod'.uid = dep.uid /\ pod'.has = Started(dep.shape)
        /\ may' = [may EXCEPT !.pod = may.dep]
    BY <1>5 DEF PodStarts
  <2>2. /\ may'.pass = may.pass /\ may'.dep = may.dep /\ may'.pod = may.dep
        /\ DOMAIN may' = {"pass", "dep", "pod"}
    BY <2>1 DEF RightsInv, Mays, MayTyped
  <2>3. Own \subseteq may.dep /\ Written \subseteq may.dep
    BY <2>1 DEF RightsInv, Mays, DepMay
  <2>4. PodMay' /\ RightsAreRecent'
    BY <1>2, <1>4, <2>1, <2>2, <2>3 DEF PodMay, RightsAreRecent
  <2> QED
    BY <1>3, <2>2, <2>4 DEF Mays, MayTyped
<1>6. CASE PodStops
  <2>1. pod' = None /\ UNCHANGED may
    BY <1>6 DEF PodStops
  <2> QED
    BY <1>3, <2>1 DEF RightsInv, Mays, MayTyped, PodMay, RightsAreRecent
<1>7. CASE ContainerRestarts
  <2>1. /\ pod # None /\ dep # None /\ dep.uid = pod.uid /\ UNCHANGED may
        /\ pod' = [pod EXCEPT !.has = Started(dep.shape)]
    BY <1>7 DEF ContainerRestarts, Current
  <2>2. DOMAIN pod = PodFields
    BY <2>1 DEF Base, WorkTyped, PodTyped
  <2>3. pod'.uid = pod.uid /\ pod'.has = Started(dep.shape)
    BY <2>1, <2>2 DEF PodFields
  <2>4. cr # None /\ pod.uid = cr.uid
    BY <2>1 DEF Base, Ownership, DepOwned
  <2>5. Own \subseteq may.pod /\ Written \subseteq may.pod
    BY <2>1, <2>4 DEF RightsInv, Mays, PodMay
  <2>6. PodMay' /\ RightsAreRecent'
    BY <1>2, <1>4, <2>1, <2>3, <2>5 DEF PodMay, RightsAreRecent
  <2> QED
    BY <1>3, <2>1, <2>6 DEF RightsInv, Mays, MayTyped
<1> QED
  BY <1>5, <1>6, <1>7

\* A step that leaves the ConfigMap and the histories alone.
LEMMA MayAside ==
  ASSUME Base, Mays, UNCHANGED <<seenPols, cm, dep, pod, may>>, UNCHANGED cr \/ Rewritten,
         Working' => Working, Working' /\ Wrote' => Wrote
  PROVE  Mays'
<1>1. Own' = Own /\ Written' = Written
  BY OwnKept DEF Written
<1>2. cr' # None => cr # None /\ cr'.uid = cr.uid
  BY DEF Rewritten
<1> QED
  BY <1>1, <1>2 DEF Mays, MayTyped, PassMay, DepMay, PodMay

\* The other steps inside a pass do not reach the steps after the ConfigMap.
LEMMA WroteStays ==
  ASSUME Base, Advances, ~EnsureKasmConfig PROVE Wrote' => Wrote
<1>1. CASE Gate
  <2>1. pass' = [pass EXCEPT !.pc = "resolver"] \/ pass' = Idle
    BY <1>1 DEF Gate, GoTo, Refuse
  <2>2. CASE pass' = [pass EXCEPT !.pc = "resolver"]
    BY <2>2, PassUpdates DEF Base, WorkTyped, MovesTo, Wrote
  <2>3. CASE pass' = Idle
    BY <2>3 DEF Idle, Wrote
  <2> QED
    BY <2>1, <2>2, <2>3
<1>2. CASE EnsureResolver
  <2>1. \/ pass' = [pass EXCEPT !.pc = "config"]
        \/ \E pw : pass' = [pass EXCEPT !.pc = "copy", !.pw = pw]
    BY <1>2 DEF EnsureResolver, GoTo
  <2>2. CASE pass' = [pass EXCEPT !.pc = "config"]
    BY <2>2, PassUpdates DEF Base, WorkTyped, MovesTo, Wrote
  <2>3. CASE \E pw : pass' = [pass EXCEPT !.pc = "copy", !.pw = pw]
    <3>1. PICK pw : pass' = [pass EXCEPT !.pc = "copy", !.pw = pw]
      BY <2>3
    <3>2. MovesTo("copy")
      BY <3>1, PassUpdates DEF Base, WorkTyped
    <3> QED
      BY <3>2 DEF MovesTo, Wrote
  <2> QED
    BY <2>1, <2>2, <2>3
<1>3. CASE EnsurePodCopy
  <2>1. pass' = [pass EXCEPT !.pc = "config"]
    BY <1>3 DEF EnsurePodCopy, GoTo
  <2> QED
    BY <2>1, PassUpdates DEF Base, WorkTyped, MovesTo, Wrote
<1>4. CASE EnsurePullSecret \/ RecreatePull
  BY <1>4 DEF EnsurePullSecret, RecreatePull, At, Wrote
<1> QED
  BY <1>1, <1>2, <1>3, <1>4 DEF Advances

\* The invariant survives every step.
LEMMA MaysStay ==
  ASSUME Base, RightsInv, Next, ~PodStarts, ~PodStops, ~ContainerRestarts PROVE Mays'
<1>1. CASE DeliverPolicies
  BY <1>1, MayLearns DEF RightsInv
<1>2. CASE Begin
  BY <1>2, MayBegin DEF RightsInv
<1>3. CASE EnsureKasmConfig
  BY <1>3, MayWrites DEF RightsInv
<1>4. CASE EnsureWorkload
  BY <1>4, MayWorkload DEF RightsInv
<1>5. CASE Advances /\ ~EnsureKasmConfig
  <2>1. UNCHANGED <<seenPols, cm, cr, dep, pod, may>> /\ Working
    BY <1>5 DEF Advances, Gate, EnsureResolver, EnsurePodCopy, EnsurePullSecret, RecreatePull,
       cache, objects, At, Working
  <2> QED
    BY <1>5, <2>1, WroteStays, MayAside DEF RightsInv
<1>6. CASE PassFails
  <2>1. UNCHANGED <<seenPols, cm, cr, dep, pod, may>> /\ ~Working'
    BY <1>6 DEF PassFails, cache, objects, Working, Idle
  <2> QED
    BY <2>1, MayAside DEF RightsInv
<1>7. CASE Finalize
  <2>1. ~Working /\ cr' = None /\ dep' = None /\ UNCHANGED <<pass, may>>
    BY <1>7 DEF Finalize, At, Working
  <2> QED
    BY <2>1 DEF RightsInv, Mays, MayTyped, PassMay, DepMay, PodMay, Working
<1>8. CASE \E d \in Direct : CreateWorkspace(d)
  <2>1. /\ cr = None /\ cr'.uid = used.crs + 1 /\ UNCHANGED <<dep, pod, pass, may>>
    BY <1>8 DEF CreateWorkspace
  <2>2. ~Working /\ dep = None
    BY <2>1 DEF Base, Ownership, SameWorkspace, DepOwned
  <2>3. pod # None => pod.uid # cr'.uid
    BY <2>1, DesktopBoundsAssumption DEF RightsInv, PodUidBounded, Base, ObjectsTyped, Counters
  <2> QED
    BY <2>1, <2>2, <2>3 DEF RightsInv, Mays, MayTyped, PassMay, DepMay, PodMay, Working
<1>9. CASE /\ ~DeliverPolicies /\ ~LoadSteps /\ ~(\E d \in Direct : CreateWorkspace(d))
  <2>1. UNCHANGED <<seenPols, cm, may>>
    BY <1>9 DEF Next, PassStep, LoadSteps, Advances, Deliver, DeliverCatalog, DeliverTemplate,
       DeliverWorkspace, EditPolicies, EditGroups, EditSource, EditCatalog, EditTemplate,
       DeleteResolver, GarbageCollect, UpdateOverrides, Pause, Resume, DeleteWorkspace, Resync,
       Connect, ConnectionInfo, cache, objects
  <2>2. UNCHANGED loads /\ (UNCHANGED cr \/ Rewritten)
    BY <1>9, Steps, RewritesKeep DEF LoadSteps, Base, ObjectsTyped
  <2> QED
    BY <2>1, <2>2, MayAside DEF RightsInv, loads, Working, Wrote
<1> QED
  BY <1>1, <1>2, <1>3, <1>4, <1>5, <1>6, <1>7, <1>8, <1>9 DEF LoadSteps

\* A pod that neither starts nor restarts keeps what it has.
LEMMA RecentStays ==
  ASSUME Base, RightsInv, Next, ~PodStarts, ~PodStops, ~ContainerRestarts
  PROVE  RightsAreRecent'
<1>1. UNCHANGED pod
  <2>1. CASE UNCHANGED loads
    BY <2>1 DEF loads
  <2>2. CASE LoadSteps
    BY <2>2 DEF LoadSteps, Advances, Gate, EnsureResolver, EnsurePodCopy, EnsureKasmConfig,
       EnsurePullSecret, RecreatePull, Begin, EnsureWorkload, PassFails, Finalize
  <2> QED
    BY <2>1, <2>2, Steps
<1>2. may.pod \subseteq may'.pod
  <2>1. CASE DeliverPolicies
    BY <2>1 DEF DeliverPolicies
  <2>2. CASE Begin
    BY <2>2 DEF Begin, RightsInv, Mays, MayTyped
  <2>3. CASE EnsureWorkload
    BY <2>3 DEF EnsureWorkload, RightsInv, Mays, MayTyped
  <2>4. CASE ~DeliverPolicies /\ ~Begin /\ ~EnsureWorkload
    <3>1. UNCHANGED may
      BY <2>4 DEF Next, PassStep, Gate, EnsureResolver, EnsurePodCopy, EnsureKasmConfig,
         EnsurePullSecret, RecreatePull, PassFails, Finalize, Deliver, DeliverCatalog,
         DeliverTemplate, DeliverWorkspace, EditPolicies, EditGroups, EditSource, EditCatalog,
         EditTemplate, DeleteResolver, GarbageCollect, UpdateOverrides, CreateWorkspace, Pause,
         Resume, DeleteWorkspace, Resync, Connect, ConnectionInfo
    <3> QED
      BY <3>1
  <2> QED
    BY <2>1, <2>2, <2>3, <2>4
<1> QED
  BY <1>1, <1>2 DEF RightsInv, RightsAreRecent

\* A right denied since before a pass is not in the containers of its shape.
THEOREM RightsStayRecent == Spec => []RightsAreRecent
<1>1. Init => Base /\ RightsInv
  <2>1. Init => RightsInv
    BY DEF Init, Idle, RightsInv, Mays, MayTyped, PassMay, DepMay, PodMay, UidsBounded,
       PodUidBounded, RightsAreRecent, Working
  <2> QED
    BY <2>1, BaseStarts
<1>2. Base /\ RightsInv /\ [Next]_vars => (Base /\ RightsInv)'
  <2> SUFFICES ASSUME Base, RightsInv, [Next]_vars PROVE Base' /\ RightsInv'
    OBVIOUS
  <2>1. CASE UNCHANGED vars
    <3>1. UNCHANGED <<seenPols, cm, dep, pod, may, cr, pass, used>>
      BY <2>1 DEF vars, cache, objects
    <3>2. Mays'
      BY <3>1, MayAside DEF RightsInv, Working, Wrote
    <3> QED
      BY <2>1, <3>1, <3>2, BaseStays DEF RightsInv, UidsBounded, PodUidBounded, RightsAreRecent
  <2>2. CASE Next
    <3>1. UidsBounded' /\ PodUidBounded'
      BY <2>2, UidsStay, PodUidStays DEF RightsInv, Base, ObjectsTyped
    <3>2. Mays' /\ RightsAreRecent'
      BY <2>2, RightsPods, MaysStay, RecentStays
    <3> QED
      BY <2>2, <3>1, <3>2, BaseStays DEF RightsInv
  <2> QED
    BY <2>1, <2>2
<1>3. RightsInv => RightsAreRecent
  BY DEF RightsInv
<1> QED
  BY <1>1, <1>2, <1>3, PTL DEF Spec

-----------------------------------------------------------------------------
(* The password a connection is opened with is the one the pod got.        *)

\* The mechanism the pass works for, and the one the operator knows of today.
Wanted == PasswordGenerated(pass.ws, pass.tpl)
Present == PasswordGenerated(seenWs, seenTpl)

\* While no password is lost to the workspace, the pass works for the present
\* mechanism; it holds the password of the resolver copy, then the pod-side
\* copy does; so it does for a Deployment that names the mechanism; and a pod
\* has what the resolver copy holds.
PassMechanism == Working /\ pass.lost = lost => Wanted = Present
PassPassword ==
  pass.pc = "copy" =>
    /\ Wanted # None
    /\ pass.lost = lost => res[Wanted] # None /\ res[Wanted].pw = pass.pw
PassCopied ==
  /\ pass.pc \in {"config", "pull", "repull", "work"}
  /\ pass.lost = lost /\ Wanted # None
  => res[Wanted] # None /\ copy = res[Wanted].pw
DepPassword ==
  dep # None /\ dep.lost = lost /\ dep.shape.mech # None =>
    /\ dep.shape.mech = Present
    /\ res[Present] # None /\ copy = res[Present].pw
PodPassword ==
  pod # None /\ pod.lost = lost /\ pod.shape.mech # None =>
    /\ pod.shape.mech \in Mechanisms
    /\ res[pod.shape.mech] # None /\ pod.has.pw = res[pod.shape.mech].pw
PassKnows == PassMechanism /\ PassPassword /\ PassCopied
LoadsKnow == DepPassword /\ PodPassword
PasswordInv == PassKnows /\ LoadsKnow

\* It implies the property.
LEMMA PasswordInvAgrees == PasswordInv => PasswordAgrees
<1> SUFFICES ASSUME PasswordInv, pod # None, pod.lost = lost,
                    pod.shape.mech = MechanismOf(st.proto), SecretOf(st.proto) # None
             PROVE  SecretOf(st.proto).pw = pod.has.pw
  BY DEF PasswordAgrees
<1>1. MechanismOf(st.proto) \in Mechanisms
  BY DEF MechanismOf, Mechanisms
<1>2. pod.shape.mech # None
  BY <1>1, DesktopNilAssumption
<1> QED
  BY <1>2 DEF PasswordInv, LoadsKnow, PodPassword, SecretOf

\* A loss makes every history older.
LEMMA PasswordAfterLoss ==
  ASSUME Base, PasswordInv, UNCHANGED loads, lost' = lost + 1
  PROVE  PasswordInv'
<1>1. lost \in Nat
  BY DEF Base, ObjectsTyped, Counters
<1>2. /\ Working => pass.lost # lost'
      /\ dep # None => dep.lost # lost'
      /\ pod # None => pod.lost # lost'
  BY <1>1 DEF Base, Orders, LostOrdered, WorkTyped, PassTyped, DepTyped, PodTyped
<1>3. PassMechanism' /\ PassCopied'
  BY <1>2 DEF PassMechanism, PassCopied, loads, Working
<1>4. Wanted' = Wanted
  BY DEF Wanted, loads, PasswordGenerated, kasmPasswordGenerated, desktopPasswordGenerated,
     mergeEnv
<1>5. PassPassword'
  BY <1>2, <1>4 DEF PasswordInv, PassKnows, PassPassword, loads, Working
<1>6. LoadsKnow'
  BY <1>2 DEF LoadsKnow, DepPassword, PodPassword, loads
<1> QED
  BY <1>3, <1>5, <1>6 DEF PasswordInv, PassKnows

\* Where only what is known of workspace and template may change, and not the
\* mechanism.
LEMMA PasswordAside ==
  ASSUME Base, PasswordInv, UNCHANGED loads, UNCHANGED <<res, copy>>, lost' = lost,
         Working \/ dep # None => Present' = Present
  PROVE  PasswordInv'
<1>1. Wanted' = Wanted
  BY DEF Wanted, loads, PasswordGenerated, kasmPasswordGenerated, desktopPasswordGenerated,
     mergeEnv
<1>3. PassMechanism'
  BY <1>1 DEF PasswordInv, PassKnows, PassMechanism, Working, loads
<1>4. PassPassword' /\ PassCopied'
  BY <1>1 DEF PasswordInv, PassKnows, PassPassword, PassCopied, loads
<1>5. DepPassword'
  BY DEF PasswordInv, LoadsKnow, DepPassword, loads
<1>6. PodPassword'
  BY DEF PasswordInv, LoadsKnow, PodPassword, loads
<1> QED
  BY <1>3, <1>4, <1>5, <1>6 DEF PasswordInv, PassKnows, LoadsKnow

\* The mechanism of today stays when what is known of both does.
LEMMA PresentStays == UNCHANGED <<seenWs, seenTpl>> => Present' = Present
  BY DEF Present, PasswordGenerated, kasmPasswordGenerated, desktopPasswordGenerated, mergeEnv

\* The workloads where neither they nor the Secrets change.
LEMMA LoadsStillKnow ==
  ASSUME LoadsKnow, UNCHANGED <<seenTpl, seenWs, res, copy, dep, pod, lost>> PROVE LoadsKnow'
  BY PresentStays DEF LoadsKnow, DepPassword, PodPassword

\* The beginning and the end of a pass.
LEMMA PasswordAround ==
  ASSUME PasswordInv, UNCHANGED <<seenTpl, seenWs, res, copy, dep, pod, lost>>,
         \/ pass' = Idle
         \/ Begin
  PROVE  PasswordInv'
<1>1. pass'.pc = "idle" \/ (pass'.pc = "gate" /\ pass'.tpl = seenTpl /\ pass'.ws = seenWs)
  <2>1. CASE pass' = Idle
    BY <2>1 DEF Idle
  <2>2. CASE Begin
    <3>1. pass'.pc = "gate" /\ pass'.tpl = seenTpl /\ pass'.ws = seenWs
      BY <2>2 DEF Begin, Idle
    <3> QED
      BY <3>1
  <2> QED
    BY <2>1, <2>2
<1>2. PassPassword' /\ PassCopied'
  BY <1>1 DEF PassPassword, PassCopied
<1>3. PassMechanism'
  <2>1. CASE pass'.pc = "idle"
    BY <2>1 DEF PassMechanism, Working
  <2>2. CASE pass'.tpl = seenTpl /\ pass'.ws = seenWs
    <3>1. Wanted' = Present'
      BY <2>2 DEF Wanted, Present, PasswordGenerated, kasmPasswordGenerated,
         desktopPasswordGenerated, mergeEnv
    <3> QED
      BY <3>1 DEF PassMechanism
  <2> QED
    BY <1>1, <2>1, <2>2
<1> QED
  BY <1>2, <1>3, LoadsStillKnow DEF PasswordInv, PassKnows

\* What the pass wants stays with it.
LEMMA WantedStays == GoesOn => Wanted' = Wanted
  BY DEF GoesOn, Wanted, PasswordGenerated, kasmPasswordGenerated, desktopPasswordGenerated,
     mergeEnv

\* The pass still works for the present mechanism.
LEMMA MechanismStays ==
  ASSUME PassMechanism, GoesOn, UNCHANGED <<seenWs, seenTpl, lost>> PROVE PassMechanism'
  BY WantedStays, PresentStays DEF PassMechanism, GoesOn

\* A pass goes on, past the Secrets or before them.
LEMMA PasswordOn ==
  ASSUME PasswordInv, GoesOn, UNCHANGED <<seenTpl, seenWs, res, copy, dep, pod, lost>>,
         pass'.pc # "copy",
         pass'.pc \in {"config", "pull", "repull", "work"} =>
           \/ pass.pc \in {"config", "pull", "repull", "work"}
           \/ Wanted = None
  PROVE  PasswordInv'
<1>1. PassMechanism'
  BY MechanismStays DEF PasswordInv, PassKnows
<1>2. PassPassword'
  BY DEF PassPassword
<1>3. PassCopied'
  BY WantedStays DEF PasswordInv, PassKnows, PassCopied, GoesOn
<1> QED
  BY <1>1, <1>2, <1>3, LoadsStillKnow DEF PasswordInv, PassKnows

\* A resolver copy is created: no Deployment and no pod as young as the last
\* loss knew this mechanism, for it would have one.
LEMMA PasswordCreated ==
  ASSUME Base, PasswordInv, GoesOn, UNCHANGED <<seenTpl, seenWs, copy, dep, pod, lost>>,
         Wanted # None, res[Wanted] = None,
         res' = [res EXCEPT ![Wanted] = NewResolver(pass.ws)],
         pass'.pc = "copy", pass'.pw = NewResolver(pass.ws).pw
  PROVE  PasswordInv'
<1>1. Wanted \in Mechanisms
  BY MechanismsKnown DEF Wanted
<1>2. NewResolver(pass.ws) \in ResolverRecords
  BY DEF NewResolver, ResolverRecords, WorkspaceRecords, GoesOn, Base, WorkTyped, PassTyped,
     ObjectsTyped, Counters
<1>3. /\ res'[Wanted] = NewResolver(pass.ws)
      /\ \A m \in Mechanisms \ {Wanted} : res'[m] = res[m]
  BY <1>1 DEF Base, ObjectsTyped, ResTyped
<1>4. PassMechanism'
  BY MechanismStays DEF PasswordInv, PassKnows
<1>5. res'[Wanted] # None /\ res'[Wanted].pw = pass'.pw
  BY <1>2, <1>3, DesktopNilAssumption
<1>6. PassPassword' /\ PassCopied'
  BY <1>5, WantedStays DEF PassPassword, PassCopied
<1>7. DepPassword'
  <2>1. dep # None /\ dep.lost = lost => pass.lost = lost
    BY DEF GoesOn, Base, Orders, LostOrdered, ObjectsTyped, Counters, WorkTyped, PassTyped,
       DepTyped
  <2>2. ~(dep # None /\ dep.lost = lost /\ dep.shape.mech # None)
    BY <2>1 DEF GoesOn, PasswordInv, PassKnows, PassMechanism, LoadsKnow, DepPassword
  <2> QED
    BY <2>2 DEF DepPassword
<1>8. PodPassword'
  BY <1>1, <1>3 DEF PasswordInv, LoadsKnow, PodPassword
<1> QED
  BY <1>4, <1>6, <1>7, <1>8 DEF PasswordInv, PassKnows, LoadsKnow

\* A resolver copy that exists is never changed.
LEMMA PasswordRead ==
  ASSUME PasswordInv, GoesOn, UNCHANGED <<seenTpl, seenWs, res, copy, dep, pod, lost>>,
         Wanted # None, res[Wanted] # None, pass'.pc = "copy", pass'.pw = res[Wanted].pw
  PROVE  PasswordInv'
<1>1. PassMechanism'
  BY MechanismStays DEF PasswordInv, PassKnows
<1>2. PassPassword' /\ PassCopied'
  BY WantedStays DEF PassPassword, PassCopied
<1> QED
  BY <1>1, <1>2, LoadsStillKnow DEF PasswordInv, PassKnows

\* EnsureResolver creates, reads or has nothing to do.
LEMMA PasswordResolver ==
  ASSUME Base, PasswordInv, EnsureResolver PROVE PasswordInv'
<1>1. PassTyped /\ UNCHANGED <<seenTpl, seenWs, copy, dep, pod, lost>> /\ pass.pc = "resolver"
  BY DEF EnsureResolver, Base, WorkTyped, cache, At
<1>2. \/ Wanted = None /\ pass' = [pass EXCEPT !.pc = "config"] /\ UNCHANGED res
      \/ /\ Wanted # None /\ res[Wanted] = None
         /\ res' = [res EXCEPT ![Wanted] = NewResolver(pass.ws)]
         /\ pass' = [pass EXCEPT !.pc = "copy", !.pw = NewResolver(pass.ws).pw]
      \/ /\ Wanted # None /\ res[Wanted] # None /\ UNCHANGED res
         /\ pass' = [pass EXCEPT !.pc = "copy", !.pw = res[Wanted].pw]
  BY DEF EnsureResolver, GoTo, Wanted
<1>3. CASE Wanted = None /\ pass' = [pass EXCEPT !.pc = "config"] /\ UNCHANGED res
  <2>1. MovesTo("config")
    BY <1>1, <1>3, PassUpdates
  <2>2. GoesOn /\ pass'.pc = "config"
    BY <1>1, <2>1 DEF GoesOn, MovesTo, Working
  <2> QED
    BY <1>1, <1>3, <2>2, PasswordOn
<1>4. CASE /\ Wanted # None /\ res[Wanted] = None
           /\ res' = [res EXCEPT ![Wanted] = NewResolver(pass.ws)]
           /\ pass' = [pass EXCEPT !.pc = "copy", !.pw = NewResolver(pass.ws).pw]
  <2>1. MovesTo("copy") /\ pass'.pw = NewResolver(pass.ws).pw
    BY <1>1, <1>4, PassUpdates
  <2>2. GoesOn /\ pass'.pc = "copy"
    BY <1>1, <2>1 DEF GoesOn, MovesTo, Working
  <2> QED
    BY <1>1, <1>4, <2>1, <2>2, PasswordCreated
<1>5. CASE /\ Wanted # None /\ res[Wanted] # None /\ UNCHANGED res
           /\ pass' = [pass EXCEPT !.pc = "copy", !.pw = res[Wanted].pw]
  <2>1. MovesTo("copy") /\ pass'.pw = res[Wanted].pw
    BY <1>1, <1>5, PassUpdates
  <2>2. GoesOn /\ pass'.pc = "copy"
    BY <1>1, <2>1 DEF GoesOn, MovesTo, Working
  <2> QED
    BY <1>1, <1>5, <2>1, <2>2, PasswordRead
<1> QED
  BY <1>2, <1>3, <1>4, <1>5

\* The pod-side copy converges on the resolver copy.
LEMMA PasswordCopy ==
  ASSUME Base, PasswordInv, EnsurePodCopy PROVE PasswordInv'
<1>1. /\ PassTyped /\ UNCHANGED <<seenTpl, seenWs, res, dep, pod, lost>> /\ pass.pc = "copy"
      /\ copy' = pass.pw /\ pass' = [pass EXCEPT !.pc = "config"]
  BY DEF EnsurePodCopy, Base, WorkTyped, cache, At, GoTo, Synced
<1>2. MovesTo("config")
  BY <1>1, PassUpdates
<1>3. GoesOn /\ pass'.pc = "config" /\ Working
  BY <1>1, <1>2 DEF GoesOn, MovesTo, Working
<1>4. PassMechanism' /\ PassPassword'
  BY <1>1, <1>3, MechanismStays DEF PasswordInv, PassKnows, PassPassword
<1>5. /\ Wanted # None
      /\ pass.lost = lost => res[Wanted] # None /\ copy' = res[Wanted].pw
  BY <1>1 DEF PasswordInv, PassKnows, PassPassword
<1>6. PassCopied'
  BY <1>1, <1>3, <1>5, WantedStays DEF PassCopied, GoesOn
<1>7. dep # None /\ dep.lost = lost => pass.lost = lost /\ Wanted = Present
  BY <1>3 DEF PasswordInv, PassKnows, PassMechanism, Base, Orders, LostOrdered, ObjectsTyped,
     Counters, WorkTyped, PassTyped, DepTyped
<1>8. DepPassword'
  BY <1>1, <1>5, <1>7, PresentStays DEF PasswordInv, LoadsKnow, DepPassword
<1>9. PodPassword'
  BY <1>1 DEF PasswordInv, LoadsKnow, PodPassword
<1> QED
  BY <1>4, <1>6, <1>8, <1>9 DEF PasswordInv, PassKnows, LoadsKnow

\* The other steps inside a pass.
LEMMA PasswordAdvances ==
  ASSUME Base, PasswordInv, Advances, ~EnsureResolver, ~EnsurePodCopy PROVE PasswordInv'
<1>1. GoesOn \/ pass' = Idle
  BY AdvancesGoOn DEF Base, WorkTyped
<1>2. UNCHANGED <<seenTpl, seenWs, res, copy, dep, pod, lost>>
  BY DEF Advances, Gate, EnsureKasmConfig, EnsurePullSecret, RecreatePull, cache, objects
<1>3. CASE pass' = Idle
  BY <1>2, <1>3, PasswordAround
<1>4. CASE GoesOn
  <2>1. \/ pass.pc \in {"config", "pull", "repull", "work"}
        \/ pass' = [pass EXCEPT !.pc = "resolver"]
        \/ pass' = Idle
    BY DEF Advances, Gate, GoTo, Refuse, EnsureKasmConfig, EnsurePullSecret, RecreatePull, At
  <2>2. \/ pass' = Idle
        \/ \E pc \in {"resolver", "pull", "repull", "work"} :
             \/ pass' = [pass EXCEPT !.pc = pc]
             \/ \E s : pass' = [pass EXCEPT !.pc = pc, !.src = s]
    BY DEF Advances, Gate, GoTo, Refuse, EnsureKasmConfig, EnsurePullSecret, RecreatePull
  <2>3. pass'.pc # "copy"
    <3>1. CASE pass' = Idle
      BY <3>1 DEF Idle
    <3>2. CASE \E pc \in {"resolver", "pull", "repull", "work"} :
                 \/ pass' = [pass EXCEPT !.pc = pc]
                 \/ \E s : pass' = [pass EXCEPT !.pc = pc, !.src = s]
      <4>1. PICK pc \in {"resolver", "pull", "repull", "work"} :
                   \/ pass' = [pass EXCEPT !.pc = pc]
                   \/ \E s : pass' = [pass EXCEPT !.pc = pc, !.src = s]
        BY <3>2
      <4>2. MovesTo(pc)
        BY <4>1, PassUpdates DEF Base, WorkTyped
      <4> QED
        BY <4>2 DEF MovesTo
    <3> QED
      BY <2>2, <3>1, <3>2
  <2>4. pass'.pc \in {"config", "pull", "repull", "work"} =>
          pass.pc \in {"config", "pull", "repull", "work"}
    <3>1. CASE pass' = [pass EXCEPT !.pc = "resolver"]
      <4>1. MovesTo("resolver")
        BY <3>1, PassUpdates DEF Base, WorkTyped
      <4> QED
        BY <4>1 DEF MovesTo
    <3>2. CASE pass' = Idle
      BY <3>2 DEF Idle
    <3> QED
      BY <2>1, <3>1, <3>2
  <2> QED
    BY <1>2, <1>4, <2>3, <2>4, PasswordOn
<1> QED
  BY <1>1, <1>3, <1>4

\* The Deployment that takes the pass's shape names its mechanism.
LEMMA PasswordWorkload ==
  ASSUME Base, PasswordInv, EnsureWorkload PROVE PasswordInv'
<1>1. /\ pass.pc = "work" /\ Working /\ pass' = Idle
      /\ UNCHANGED <<seenTpl, seenWs, res, copy, pod, lost>>
  BY DEF EnsureWorkload, At, Working, cache, objects
<1>2. \/ dep'.shape = PodTemplate(pass.ws, pass.tpl) /\ dep'.lost = pass.lost
      \/ dep # None /\ dep'.shape = dep.shape /\ dep'.lost = dep.lost
  BY DEF EnsureWorkload, Deployed, Boundary
<1>3. PodTemplate(pass.ws, pass.tpl).mech = Wanted
  BY DEF PodTemplate, Wanted
<1>4. DepPassword'
  BY <1>1, <1>2, <1>3, PresentStays DEF PasswordInv, PassKnows, LoadsKnow, PassMechanism,
     PassCopied, DepPassword
<1>5. PodPassword'
  BY <1>1 DEF PasswordInv, LoadsKnow, PodPassword
<1>6. PassKnows'
  BY <1>1 DEF PassKnows, PassMechanism, PassPassword, PassCopied, Working, Idle
<1> QED
  BY <1>4, <1>5, <1>6 DEF PasswordInv, LoadsKnow

\* A container reads the pod-side copy when it starts.
LEMMA PasswordPods ==
  ASSUME Base, PasswordInv, PodStarts \/ PodStops \/ ContainerRestarts PROVE PasswordInv'
<1>1. UNCHANGED <<seenTpl, seenWs, res, copy, dep, pass, lost>>
  BY DEF PodStarts, PodStops, ContainerRestarts, cache, objects
<1>2. Wanted' = Wanted
  BY <1>1 DEF Wanted, PasswordGenerated, kasmPasswordGenerated, desktopPasswordGenerated,
     mergeEnv
<1>3. PassKnows' /\ DepPassword'
  BY <1>1, <1>2, PresentStays DEF PasswordInv, PassKnows, PassMechanism, PassPassword,
     PassCopied, LoadsKnow, DepPassword, Working
<1>4. dep # None /\ dep.lost = lost /\ dep.shape.mech # None =>
        /\ dep.shape.mech \in Mechanisms
        /\ res[dep.shape.mech] # None /\ Started(dep.shape).pw = res[dep.shape.mech].pw
  BY MechanismsKnown DEF PasswordInv, LoadsKnow, DepPassword, Present, Started
<1>5. CASE PodStarts
  <2>1. /\ dep # None
        /\ pod'.shape = dep.shape /\ pod'.lost = dep.lost /\ pod'.has = Started(dep.shape)
    BY <1>5 DEF PodStarts
  <2>2. PodPassword'
    BY <1>1, <1>4, <2>1 DEF PodPassword
  <2> QED
    BY <1>3, <2>2 DEF PasswordInv, LoadsKnow
<1>6. CASE PodStops
  <2>1. PodPassword'
    BY <1>6 DEF PodStops, PodPassword
  <2> QED
    BY <1>3, <2>1 DEF PasswordInv, LoadsKnow
<1>7. CASE ContainerRestarts
  <2>1. /\ pod # None /\ dep # None /\ dep.shape = pod.shape
        /\ pod' = [pod EXCEPT !.has = Started(dep.shape)]
    BY <1>7 DEF ContainerRestarts, Current
  <2>2. DOMAIN pod = PodFields
    BY <2>1 DEF Base, WorkTyped, PodTyped
  <2>3. pod'.shape = dep.shape /\ pod'.lost = pod.lost /\ pod'.has = Started(dep.shape)
    BY <2>1, <2>2 DEF PodFields
  <2>4. pod.lost = lost => dep.lost = lost
    BY <2>1 DEF Base, Orders, LostOrdered, ObjectsTyped, Counters, WorkTyped, DepTyped, PodTyped
  <2>5. PodPassword'
    BY <1>1, <1>4, <2>1, <2>3, <2>4 DEF PodPassword
  <2> QED
    BY <1>3, <2>5 DEF PasswordInv, LoadsKnow
<1> QED
  BY <1>5, <1>6, <1>7

\* Outside passes and workloads, a Secret goes, or another mechanism becomes
\* known, with a loss that is counted; otherwise both stay.
LEMMA Losses ==
  ASSUME Base, Next, ~LoadSteps
  PROVE  \/ lost' = lost + 1
         \/ /\ lost' = lost /\ UNCHANGED <<res, copy>>
            /\ Working \/ dep # None => Present' = Present
<1>1. lost \in Nat
  BY DEF Base, ObjectsTyped, Counters
<1>2. Working \/ dep # None => seenWs # None /\ cr # None /\ cr.uid = seenWs.uid
  BY DEF Base, Views, SeenPresent
<1>3. CASE DeliverTemplate
  <2>1. /\ seenTpl' = tpl /\ UNCHANGED <<seenWs, res, copy>>
        /\ lost' = lost + (IF LosesPassword(tpl, seenWs) THEN 1 ELSE 0)
    BY <1>3 DEF DeliverTemplate, objects
  <2>2. Present' = PasswordGenerated(seenWs, tpl)
    BY <2>1 DEF Present, PasswordGenerated, kasmPasswordGenerated, desktopPasswordGenerated,
       mergeEnv
  <2>3. CASE LosesPassword(tpl, seenWs)
    BY <2>1, <2>3
  <2>4. CASE ~LosesPassword(tpl, seenWs)
    <3>1. Working \/ dep # None => Present' = Present
      BY <1>2, <2>2, <2>4 DEF LosesPassword, Present
    <3> QED
      BY <1>1, <2>1, <2>4, <3>1
  <2> QED
    BY <2>3, <2>4
<1>4. CASE DeliverWorkspace
  <2>1. /\ seenWs' = cr /\ UNCHANGED <<seenTpl, res, copy>>
        /\ lost' = lost + (IF LosesPassword(seenTpl, cr) THEN 1 ELSE 0)
    BY <1>4 DEF DeliverWorkspace, objects
  <2>2. Present' = PasswordGenerated(cr, seenTpl)
    BY <2>1 DEF Present, PasswordGenerated, kasmPasswordGenerated, desktopPasswordGenerated,
       mergeEnv
  <2>3. CASE LosesPassword(seenTpl, cr)
    BY <2>1, <2>3
  <2>4. CASE ~LosesPassword(seenTpl, cr)
    <3>1. Working \/ dep # None => Present' = Present
      BY <1>2, <2>2, <2>4 DEF LosesPassword, Present
    <3> QED
      BY <1>1, <2>1, <2>4, <3>1
  <2> QED
    BY <2>3, <2>4
<1>5. CASE \E m \in Mechanisms : DeleteResolver(m) \/ GarbageCollect(m)
  BY <1>5 DEF DeleteResolver, GarbageCollect
<1>6. CASE /\ ~DeliverTemplate /\ ~DeliverWorkspace
           /\ ~(\E m \in Mechanisms : DeleteResolver(m) \/ GarbageCollect(m))
  <2>1. lost' = lost /\ UNCHANGED <<res, copy, seenWs, seenTpl>>
    BY <1>6 DEF Next, LoadSteps, Advances, PassStep, Deliver, DeliverPolicies, DeliverCatalog,
       EditPolicies, EditGroups, EditSource, EditCatalog, EditTemplate, UpdateOverrides,
       CreateWorkspace, Pause, Resume, DeleteWorkspace, Resync, Connect, ConnectionInfo,
       cache, objects
  <2> QED
    BY <2>1, PresentStays
<1> QED
  BY <1>3, <1>4, <1>5, <1>6

\* The password invariant survives every step.
LEMMA PasswordStays ==
  ASSUME Base, PasswordInv, Next PROVE PasswordInv'
<1>1. CASE ~LoadSteps
  BY <1>1, Losses, Steps, PasswordAfterLoss, PasswordAside
<1>2. CASE Begin
  BY <1>2, PasswordAround DEF Begin, cache, objects
<1>3. CASE EnsureResolver
  BY <1>3, PasswordResolver
<1>4. CASE EnsurePodCopy
  BY <1>4, PasswordCopy
<1>5. CASE Advances /\ ~EnsureResolver /\ ~EnsurePodCopy
  BY <1>5, PasswordAdvances
<1>6. CASE EnsureWorkload
  BY <1>6, PasswordWorkload
<1>7. CASE PassFails
  BY <1>7, PasswordAround DEF PassFails, cache, objects
<1>8. CASE Finalize
  <2>1. ~Working /\ dep' = None /\ UNCHANGED <<res, pod, pass, lost>>
    BY <1>8 DEF Finalize, At, Working
  <2>2. PassKnows'
    BY <2>1 DEF PassKnows, PassMechanism, PassPassword, PassCopied, Working
  <2>3. LoadsKnow'
    BY <2>1 DEF PasswordInv, LoadsKnow, DepPassword, PodPassword
  <2> QED
    BY <2>2, <2>3 DEF PasswordInv
<1>9. CASE PodStarts \/ PodStops \/ ContainerRestarts
  BY <1>9, PasswordPods
<1> QED
  BY <1>1, <1>2, <1>3, <1>4, <1>5, <1>6, <1>7, <1>8, <1>9 DEF LoadSteps

\* What connect uses is what the pod got.
THEOREM PasswordsAgree == Spec => []PasswordAgrees
<1>1. Init => Base /\ PasswordInv
  <2>1. Init => PasswordInv
    BY DEF Init, Idle, PasswordInv, PassKnows, PassMechanism, PassPassword, PassCopied,
       LoadsKnow, DepPassword, PodPassword, Working
  <2> QED
    BY <2>1, BaseStarts
<1>2. Base /\ PasswordInv /\ [Next]_vars => (Base /\ PasswordInv)'
  <2> SUFFICES ASSUME Base, PasswordInv, [Next]_vars PROVE Base' /\ PasswordInv'
    OBVIOUS
  <2>1. CASE UNCHANGED vars
    <3>1. UNCHANGED loads /\ UNCHANGED <<res, copy, seenWs, seenTpl>> /\ lost' = lost
      BY <2>1 DEF vars, loads, objects, cache
    <3> QED
      BY <3>1, BaseStays, PasswordAside, PresentStays
  <2> QED
    BY <2>1, BaseStays, PasswordStays
<1> QED
  BY <1>1, <1>2, PasswordInvAgrees, PTL DEF Spec

-----------------------------------------------------------------------------
(* Types.                                                                  *)

PassPcs == {"idle", "gate", "resolver", "copy", "config", "pull", "repull", "work"}

InputsTyped == pols \subseteq Policies /\ cat \subseteq Images /\ tpl \in Templates
PasswordsBounded ==
  /\ \A m \in Mechanisms : res[m] = None \/ res[m].pw \in 1..used.passwords
  /\ copy = None \/ copy \in 1..used.passwords
  /\ pass.pc = "copy" => pass.pw \in 1..used.passwords
StatusTyped ==
  /\ queued \in BOOLEAN
  /\ DOMAIN st = {"run", "proto", "drift"} /\ st.run \in BOOLEAN /\ st.drift \in BOOLEAN

TypeInv == InputsTyped /\ UidsBounded /\ PasswordsBounded /\ pass.pc \in PassPcs /\ StatusTyped

\* The invariant is strong enough for the types.
LEMMA TypeInvTypes == Base /\ TypeInv => TypeOK
<1> SUFFICES ASSUME Base, TypeInv PROVE TypeOK
  OBVIOUS
<1>1. pols \subseteq Policies /\ cat \subseteq Images /\ tpl \in Templates
  BY DEF TypeInv, InputsTyped
<1>2. cr = None \/ (cr.uid \in 1..MaxCrs /\ cr.env \in Envs /\ cr.groups \in UserGroups)
  <2>1. used.crs \in 0..MaxCrs
    BY DEF Base, ObjectsTyped, Counters
  <2>2. cr # None => cr \in WorkspaceRecords /\ cr.uid \in 1..used.crs
    BY DEF Base, ObjectsTyped, CrTyped, TypeInv, UidsBounded
  <2> QED
    BY <2>1, <2>2, DesktopBoundsAssumption DEF WorkspaceRecords
<1>3. /\ \A m \in Mechanisms : res[m] = None \/ res[m].pw \in 1..used.passwords
      /\ copy = None \/ copy \in 1..used.passwords
  BY DEF TypeInv, PasswordsBounded
<1>4. dep # None => cr # None /\ cr.uid = dep.uid
  BY DEF Base, Ownership, DepOwned
<1>5. queued \in BOOLEAN /\ st.run \in BOOLEAN /\ st.drift \in BOOLEAN
  BY DEF TypeInv, StatusTyped
<1> QED
  BY <1>1, <1>2, <1>3, <1>4, <1>5 DEF TypeOK, TypeInv, PassPcs

\* Administrators install what there is to install.
LEMMA InputsStay ==
  ASSUME InputsTyped, Next PROVE InputsTyped'
<1>1. CASE \E p \in Policies : EditPolicies(p)
  BY <1>1 DEF EditPolicies, InputsTyped
<1>2. CASE \E i \in Images : EditCatalog(i)
  BY <1>2 DEF EditCatalog, InputsTyped
<1>3. CASE \E t \in Templates : EditTemplate(t)
  BY <1>3 DEF EditTemplate, InputsTyped
<1>4. CASE /\ ~(\E p \in Policies : EditPolicies(p)) /\ ~(\E i \in Images : EditCatalog(i))
           /\ ~(\E t \in Templates : EditTemplate(t))
  <2>1. UNCHANGED <<pols, cat, tpl>>
    BY <1>4 DEF Next, PassStep, Deliver, DeliverPolicies, DeliverCatalog, DeliverTemplate,
       DeliverWorkspace, Gate, EnsureResolver, EnsurePodCopy, EnsureKasmConfig, admin,
     EnsurePullSecret, RecreatePull, Begin, EnsureWorkload, PassFails, Finalize, PodStarts,
     PodStops, ContainerRestarts, EditGroups, EditSource, CreateWorkspace, UpdateOverrides,
     DeleteResolver, GarbageCollect, Pause, Resume, DeleteWorkspace, Resync, Connect,
     ConnectionInfo
  <2> QED
    BY <2>1 DEF InputsTyped
<1> QED
  BY <1>1, <1>2, <1>3, <1>4

\* A larger bound.
LEMMA PasswordsKeep ==
  ASSUME Counters, PasswordsBounded, Next, UNCHANGED res,
         copy' \in {None, copy},
         pass'.pc = "copy" => pass.pc = "copy" /\ pass'.pw = pass.pw
  PROVE  PasswordsBounded'
<1>1. /\ used.passwords <= used'.passwords
      /\ used.passwords \in Nat /\ used'.passwords \in Nat
  BY UsedGrows, EventsTyped DEF Counters
<1> QED
  BY <1>1 DEF PasswordsBounded

\* Only passwords that were made are held anywhere.
LEMMA PasswordsStay ==
  ASSUME Base, PasswordsBounded, Next PROVE PasswordsBounded'
<1>1. /\ used.passwords <= used'.passwords
      /\ used.passwords \in Nat /\ used'.passwords \in Nat
  BY UsedGrows, EventsTyped DEF Base, ObjectsTyped, Counters
<1>2. CASE EnsureResolver
  <2>1. /\ PassTyped /\ ResTyped /\ UNCHANGED copy
        /\ used \in [events : Nat, crs : 0..MaxCrs, sessions : Nat, passwords : Nat]
    BY <1>2 DEF EnsureResolver, Base, WorkTyped, ObjectsTyped, Counters
  <2>2. \/ pass' = [pass EXCEPT !.pc = "config"] /\ UNCHANGED <<res, used>>
        \/ \E m \in Mechanisms :
             /\ res' = [res EXCEPT ![m] = NewResolver(pass.ws)]
             /\ used' = [used EXCEPT !.passwords = @ + 1]
             /\ pass' = [pass EXCEPT !.pc = "copy", !.pw = NewResolver(pass.ws).pw]
        \/ \E m \in Mechanisms :
             /\ res[m] # None /\ UNCHANGED <<res, used>>
             /\ pass' = [pass EXCEPT !.pc = "copy", !.pw = res[m].pw]
    BY <1>2, MechanismsKnown DEF EnsureResolver, GoTo
  <2>3. CASE pass' = [pass EXCEPT !.pc = "config"] /\ UNCHANGED <<res, used>>
    <3>1. pass'.pc = "config"
      BY <2>1, <2>3, PassUpdates DEF MovesTo
    <3> QED
      BY <2>1, <2>3, <3>1 DEF PasswordsBounded
  <2>4. CASE \E m \in Mechanisms :
               /\ res' = [res EXCEPT ![m] = NewResolver(pass.ws)]
               /\ used' = [used EXCEPT !.passwords = @ + 1]
               /\ pass' = [pass EXCEPT !.pc = "copy", !.pw = NewResolver(pass.ws).pw]
    <3>1. PICK m \in Mechanisms :
               /\ res' = [res EXCEPT ![m] = NewResolver(pass.ws)]
               /\ used' = [used EXCEPT !.passwords = @ + 1]
               /\ pass' = [pass EXCEPT !.pc = "copy", !.pw = NewResolver(pass.ws).pw]
      BY <2>4
    <3>2. pass'.pw = used.passwords + 1
      BY <2>1, <3>1, PassUpdates DEF NewResolver
    <3>3. res'[m].pw = used.passwords + 1 /\ \A k \in Mechanisms \ {m} : res'[k] = res[k]
      BY <2>1, <3>1 DEF NewResolver, ResTyped
    <3>4. used'.passwords = used.passwords + 1
      BY <2>1, <3>1
    <3> QED
      BY <1>1, <2>1, <3>2, <3>3, <3>4 DEF PasswordsBounded
  <2>5. CASE \E m \in Mechanisms :
               /\ res[m] # None /\ UNCHANGED <<res, used>>
               /\ pass' = [pass EXCEPT !.pc = "copy", !.pw = res[m].pw]
    <3>1. PICK m \in Mechanisms :
               /\ res[m] # None /\ UNCHANGED <<res, used>>
               /\ pass' = [pass EXCEPT !.pc = "copy", !.pw = res[m].pw]
      BY <2>5
    <3>2. pass'.pw = res[m].pw
      BY <2>1, <3>1, PassUpdates
    <3> QED
      BY <2>1, <3>1, <3>2 DEF PasswordsBounded
  <2> QED
    BY <2>2, <2>3, <2>4, <2>5
<1>3. CASE EnsurePodCopy
  <2>1. /\ PassTyped /\ UNCHANGED res /\ pass.pc = "copy" /\ copy' = pass.pw
        /\ pass' = [pass EXCEPT !.pc = "config"]
    BY <1>3 DEF EnsurePodCopy, Base, WorkTyped, At, Synced, GoTo
  <2>2. pass'.pc = "config"
    BY <2>1, PassUpdates DEF MovesTo
  <2> QED
    BY <1>1, <2>1, <2>2 DEF PasswordsBounded
<1>4. CASE \E m \in Mechanisms : DeleteResolver(m) \/ GarbageCollect(m)
  <2>1. PICK m \in Mechanisms : res' = [res EXCEPT ![m] = None]
    BY <1>4 DEF DeleteResolver, GarbageCollect
  <2>2. UNCHANGED <<copy, pass>>
    BY <1>4 DEF DeleteResolver, GarbageCollect
  <2>3. \A k \in Mechanisms : res'[k] \in {None, res[k]}
    BY <2>1 DEF Base, ObjectsTyped, ResTyped
  <2> QED
    BY <1>1, <2>2, <2>3 DEF PasswordsBounded
<1>5. CASE /\ ~EnsureResolver /\ ~EnsurePodCopy
           /\ ~(\E m \in Mechanisms : DeleteResolver(m) \/ GarbageCollect(m))
  <2>1. UNCHANGED res /\ copy' \in {None, copy}
    BY <1>5 DEF Next, PassStep, Deliver, DeliverPolicies, DeliverCatalog, DeliverTemplate,
       DeliverWorkspace, Gate, EnsureKasmConfig, EnsurePullSecret, RecreatePull, Begin,
       EnsureWorkload, PassFails, Finalize, PodStarts, PodStops, ContainerRestarts,
       EditPolicies, EditGroups, EditSource, EditCatalog, EditTemplate, CreateWorkspace,
       UpdateOverrides, Pause, Resume, DeleteWorkspace, Resync, Connect, ConnectionInfo, objects
  <2>2. \/ UNCHANGED pass
        \/ pass' = Idle
        \/ Begin
        \/ Gate /\ pass' = [pass EXCEPT !.pc = "resolver"]
        \/ EnsureKasmConfig
        \/ EnsurePullSecret
        \/ RecreatePull
    BY <1>5 DEF Next, PassStep, Deliver, DeliverPolicies, DeliverCatalog, DeliverTemplate,
       DeliverWorkspace, Gate, GoTo, Refuse,
       EnsureWorkload, PassFails, Finalize, PodStarts, PodStops, ContainerRestarts,
       EditPolicies, EditGroups, EditSource, EditCatalog, EditTemplate, CreateWorkspace,
       UpdateOverrides, Pause, Resume, DeleteWorkspace, Resync, Connect, ConnectionInfo
  <2>3. pass'.pc # "copy" \/ UNCHANGED pass
    <3>1. CASE pass' = Idle
      BY <3>1 DEF Idle
    <3>2. CASE Begin
      <4>1. pass'.pc = "gate"
        BY <3>2 DEF Begin, Idle
      <4> QED
        BY <4>1
    <3>3. CASE Gate /\ pass' = [pass EXCEPT !.pc = "resolver"]
      BY <3>3, PassUpdates DEF Base, WorkTyped, MovesTo
    <3>4. CASE EnsureKasmConfig
      <4>1. pass' = [pass EXCEPT !.pc = "pull"]
        BY <3>4 DEF EnsureKasmConfig, GoTo
      <4> QED
        BY <4>1, PassUpdates DEF Base, WorkTyped, MovesTo
    <3>5. CASE EnsurePullSecret
      <4>1. \/ pass' = Idle
            \/ pass' = [pass EXCEPT !.pc = "work"]
            \/ \E s : pass' = [pass EXCEPT !.pc = "repull", !.src = s]
        BY <3>5 DEF EnsurePullSecret, GoTo, Refuse
      <4>2. CASE pass' = [pass EXCEPT !.pc = "work"]
        BY <4>2, PassUpdates DEF Base, WorkTyped, MovesTo
      <4>3. CASE \E s : pass' = [pass EXCEPT !.pc = "repull", !.src = s]
        <5>1. PICK s : pass' = [pass EXCEPT !.pc = "repull", !.src = s]
          BY <4>3
        <5>2. MovesTo("repull")
          BY <5>1, PassUpdates DEF Base, WorkTyped
        <5> QED
          BY <5>2 DEF MovesTo
      <4> QED
        BY <3>1, <4>1, <4>2, <4>3
    <3>6. CASE RecreatePull
      <4>1. pass' = [pass EXCEPT !.pc = "work"]
        BY <3>6 DEF RecreatePull, GoTo
      <4> QED
        BY <4>1, PassUpdates DEF Base, WorkTyped, MovesTo
    <3> QED
      BY <2>2, <3>1, <3>2, <3>3, <3>4, <3>5, <3>6
  <2>4. pass'.pc = "copy" => pass.pc = "copy" /\ pass'.pw = pass.pw
    BY <2>3
  <2> QED
    BY <2>1, <2>4, PasswordsKeep DEF Base, ObjectsTyped
<1> QED
  BY <1>2, <1>3, <1>4, <1>5

\* A pass is at one of its steps.
LEMMA PcStays ==
  ASSUME Base, pass.pc \in PassPcs, Next PROVE pass'.pc \in PassPcs
<1>1. CASE UNCHANGED pass
  BY <1>1
<1>2. CASE pass' = Idle
  BY <1>2 DEF Idle, PassPcs
<1>3. CASE Begin
  <2>1. pass'.pc = "gate"
    BY <1>3 DEF Begin, Idle
  <2> QED
    BY <2>1 DEF PassPcs
<1>4. CASE Advances /\ pass' # Idle
  <2>1. PICK pc \in PassPcs :
               \/ pass' = [pass EXCEPT !.pc = pc]
               \/ \E pw : pass' = [pass EXCEPT !.pc = pc, !.pw = pw]
               \/ \E s : pass' = [pass EXCEPT !.pc = pc, !.src = s]
    BY <1>4 DEF Advances, PassPcs, Gate, EnsureResolver, EnsurePodCopy, EnsureKasmConfig,
       EnsurePullSecret, RecreatePull, GoTo, Refuse
  <2>2. MovesTo(pc)
    BY <2>1, PassUpdates DEF Base, WorkTyped
  <2> QED
    BY <2>2 DEF MovesTo
<1>5. \/ UNCHANGED pass
      \/ pass' = Idle
      \/ Begin
      \/ Advances /\ pass' # Idle
  BY Steps DEF loads, LoadSteps, EnsureWorkload, PassFails, Finalize, PodStarts, PodStops,
     ContainerRestarts
<1> QED
  BY <1>1, <1>2, <1>3, <1>4, <1>5

\* Queue and status.
LEMMA StatusStays ==
  ASSUME StatusTyped, Next PROVE StatusTyped'
<1>1. queued' \in BOOLEAN
  <2>1. queued \in BOOLEAN
    BY DEF StatusTyped
  <2>2. \/ UNCHANGED queued
        \/ queued' = TRUE
        \/ queued' = FALSE
        \/ queued' = (queued \/ cr # None)
        \/ queued' = (queued \/ seenWs # None)
        \/ queued' = (queued \/ seenWs # cr \/ dep = None
                      \/ dep'.up # dep.up \/ dep'.shape # dep.shape)
    BY DEF Next, PassStep, Deliver, DeliverPolicies, DeliverCatalog, DeliverTemplate,
       DeliverWorkspace, Gate, EnsureResolver, EnsurePodCopy, EnsureKasmConfig, Refuse,
       EnsurePullSecret, RecreatePull, Begin, EnsureWorkload, PassFails, Finalize, PodStarts,
       PodStops, ContainerRestarts, EditPolicies, EditTemplate, DeleteResolver, GarbageCollect,
       UpdateOverrides, EditGroups, EditSource, EditCatalog, CreateWorkspace,
       Pause, Resume, DeleteWorkspace, Resync, Connect, ConnectionInfo
  <2> QED
    BY <2>1, <2>2
<1>2. /\ DOMAIN st' = {"run", "proto", "drift"}
      /\ st'.run \in BOOLEAN /\ st'.drift \in BOOLEAN
  <2>1. \/ UNCHANGED st
        \/ st' = [st EXCEPT !.run = FALSE]
        \/ st' = NoStatus
        \/ EnsureWorkload
    BY DEF Next, PassStep, Deliver, DeliverPolicies, DeliverCatalog, DeliverTemplate,
       DeliverWorkspace, Gate, EnsureResolver, EnsurePodCopy, EnsureKasmConfig, Refuse,
       StatusWritten, EnsurePullSecret, RecreatePull, Begin, PassFails, Finalize, PodStarts,
       PodStops, ContainerRestarts, EditPolicies, EditTemplate, DeleteResolver, GarbageCollect,
       UpdateOverrides, EditGroups, EditSource, EditCatalog, CreateWorkspace,
       Pause, Resume, DeleteWorkspace, Resync, Connect, ConnectionInfo
  <2>2. CASE UNCHANGED st
    BY <2>2 DEF StatusTyped
  <2>3. CASE st' = [st EXCEPT !.run = FALSE]
    BY <2>3 DEF StatusTyped
  <2>4. CASE st' = NoStatus
    BY <2>4 DEF NoStatus
  <2>5. CASE EnsureWorkload
    <3> DEFINE run == ~pass.ws.paused /\ dep # None /\ pod # None
               proto == IF pass.ws.paused THEN None ELSE effectiveProtocol(pass.ws, pass.tpl)
               drift == dep'.shape # PodTemplate(pass.ws, pass.tpl)
    <3>1. UNCHANGED st \/ st' = [run |-> run, proto |-> proto, drift |-> drift]
      BY <2>5 DEF EnsureWorkload, StatusWritten
    <3>2. run \in BOOLEAN /\ drift \in BOOLEAN
      OBVIOUS
    <3> HIDE DEF run, proto, drift
    <3> QED
      BY <2>2, <3>1, <3>2
  <2> QED
    BY <2>1, <2>2, <2>3, <2>4, <2>5
<1> QED
  BY <1>1, <1>2 DEF StatusTyped

\* Type correctness of the objects and of the pass.
THEOREM TypesHold == Spec => []TypeOK
<1>1. Init => Base /\ TypeInv
  <2> SUFFICES ASSUME Init PROVE TypeInv
    BY BaseStarts
  <2>1. InputsTyped
    BY DEF Init, InputsTyped
  <2>2. UidsBounded /\ PasswordsBounded /\ pass.pc \in PassPcs
    BY DEF Init, Idle, UidsBounded, PasswordsBounded, PassPcs, Mechanisms
  <2>3. StatusTyped
    BY DEF Init, NoStatus, StatusTyped
  <2> QED
    BY <2>1, <2>2, <2>3 DEF TypeInv
<1>2. Base /\ TypeInv /\ [Next]_vars => (Base /\ TypeInv)'
  <2> SUFFICES ASSUME Base, TypeInv, [Next]_vars PROVE Base' /\ TypeInv'
    OBVIOUS
  <2>1. CASE UNCHANGED vars
    BY <2>1, BaseStays DEF vars, objects, admin, TypeInv, InputsTyped, UidsBounded,
       PasswordsBounded, StatusTyped
  <2>2. CASE Next
    BY <2>2, BaseStays, InputsStay, UidsStay, PasswordsStay, PcStays, StatusStays
    DEF TypeInv, Base, ObjectsTyped
  <2> QED
    BY <2>1, <2>2
<1> QED
  BY <1>1, <1>2, TypeInvTypes, PTL DEF Spec
=============================================================================
