----------------------------- MODULE PolicyRules ----------------------------
(***************************************************************************)
(* The decisions of pkg/policy, pkg/params and of the template webhook, as *)
(* operators on records.  Names, groups and registry paths are values, an  *)
(* image reference is its path, its tag and whether it carries a digest;   *)
(* the quantities of CheckLimits are in Governance.                        *)
(*                                                                         *)
(*   policy     name, prio, subjects, clip, images, fields                 *)
(*   catalog    name, exact, registry, enabled, groups, tags, protos, pull *)
(*   template   image, protos (a sequence of protocol entries), env,       *)
(*              owner, fields, config                                      *)
(*   workspace  role, uses, proto, env, id                                 *)
(***************************************************************************)
EXTENDS Integers, Sequences, SequencesExt, FiniteSets

CONSTANTS Registry,    \* the guacd parameters: name, protos, tier, cat, values
          None         \* a nil pointer, an empty string

-----------------------------------------------------------------------------
(* Which policy governs an identity.                                       *)

\* MatchedVia, subjectsMatch: no subject at all matches everyone.
Matches(p, id) ==
  \/ p.subjects = {}
  \/ \E s \in p.subjects :
       \/ s.kind = "User" /\ s.name \in {id.owner, id.username}
       \/ s.kind = "Group" /\ s.name \in id.groups

\* Resolve: the highest priority wins as a whole, ties go to the first name.
Resolve(policies, id) ==
  LET matching == {p \in policies : Matches(p, id)}
  IN IF matching = {} THEN None
     ELSE CHOOSE p \in matching : \A q \in matching \ {p} :
            q.prio < p.prio \/ (q.prio = p.prio /\ p.name < q.name)

NoClipboard == [copy |-> FALSE, paste |-> FALSE]

\* ClipboardOf: an absent block or an absent field allows, no policy denies.
ClipboardOf(pol) ==
  IF pol = None THEN NoClipboard
  ELSE [copy  |-> pol.clip = None \/ pol.clip.copy # "deny",
        paste |-> pol.clip = None \/ pol.clip.paste # "deny"]

-----------------------------------------------------------------------------
(* The catalog.                                                            *)

\* A registry entry covers what lies strictly below its path.
Covers(img, ref) ==
  /\ img.registry # <<>> /\ Len(img.registry) < Len(ref.path)
  /\ IsPrefix(img.registry, ref.path)

\* FindImage: an exact entry first, else the longest registry.
FindImage(catalog, ref) ==
  LET exact == {i \in catalog : i.exact = ref}
      below == {i \in catalog : Covers(i, ref)}
  IN CASE exact # {} -> CHOOSE i \in exact : TRUE
       [] exact = {} /\ below # {} ->
            CHOOSE i \in below : \A j \in below : Len(j.registry) <= Len(i.registry)
       [] OTHER -> None

\* ImageAllowed: enabled, open to a group of the user, on the policy's list.
ImageAllowed(img, pol, id) ==
  /\ img.enabled
  /\ img.groups # {} => img.groups \cap id.groups # {}
  /\ pol.images # {} => img.name \in pol.images

\* CheckTagDiscipline; the default depends on the kind of the entry.
CheckTagDiscipline(img, ref) ==
  LET tags == IF img.tags # None THEN img.tags
              ELSE IF img.exact # None THEN "any" ELSE "tag"
  IN CASE tags = "any" -> TRUE
       [] tags = "digest" -> ref.digest
       [] tags = "tag" -> ref.digest \/ ref.tag \notin {None, "latest"}

-----------------------------------------------------------------------------
(* Templates and the rights of a workspace.                                *)

ProtocolNames(tpl) == {tpl.protos[i].name : i \in DOMAIN tpl.protos}

\* DefaultProtocol: the first entry (no model template marks another one).
DefaultProtocol(tpl) == tpl.protos[1].name

\* ProtocolNamed: the entry of that name, or none.
ProtocolNamed(tpl, name) ==
  LET i == SelectInSeq(tpl.protos, LAMBDA p : p.name = name)
  IN IF i = 0 THEN None ELSE tpl.protos[i]

\* effectiveProtocol: the creator's choice when the template declares it.
effectiveProtocol(ws, tpl) ==
  IF ws.proto \in ProtocolNames(tpl) THEN ws.proto ELSE DefaultProtocol(tpl)

\* CheckProtocol.
CheckProtocol(tpl, img) == ProtocolNames(tpl) \subseteq img.protos

\* overridesUsage, and the two rights read next to it: a field that is empty
\* consumes no right.
Usage(ws) ==
  ws.uses \cup (IF ws.env # {} THEN {"env"} ELSE {})
          \cup (IF ws.proto # None THEN {"protocol"} ELSE {})

\* FieldOverridable: the template lets plain users set the field.
FieldOverridable(tpl, field) == field \in tpl.fields

\* CheckOverrides: an admin may all; the owner of the template passes its
\* list, never the policy's.
CheckOverrides(ws, tpl, pol, id) ==
  \/ ws.role = "admin"
  \/ /\ \A f \in Usage(ws) :
          /\ (tpl.owner # None /\ tpl.owner = id.username) \/ FieldOverridable(tpl, f)
          /\ pol.fields # None => f \in pol.fields
     /\ ws.proto # None => ws.proto \in ProtocolNames(tpl)

\* The checks the webhook's enforce and evaluateGovernance have in common.
Complies(policies, catalog, ws, tpl, id) ==
  LET pol == Resolve(policies, id)
      img == FindImage(catalog, tpl.image)
  IN /\ pol # None /\ img # None
     /\ ImageAllowed(img, pol, id)
     /\ CheckTagDiscipline(img, tpl.image)
     /\ CheckProtocol(tpl, img)
     /\ CheckOverrides(ws, tpl, pol, id)

-----------------------------------------------------------------------------
(* Connection parameters.                                                  *)

Lookup(proto, name) ==
  {p \in Registry : p.name = name /\ proto \in p.protos}

\* ResolveUserParamNames: plain names, and what a category delegates.
ResolveUserParamNames(proto, entries) ==
  {e.name : e \in {x \in entries : x.kind = "name"}} \cup
  {p.name : p \in {q \in Registry :
     /\ proto \in q.protos /\ q.tier # "platform"
     /\ [kind |-> "cat", name |-> q.cat] \in entries}}

\* ValidateTemplateParams, and ValidateUserOverrides without its allow-list:
\* registered, not the platform's, a value of the right kind.
ValidParams(proto, params) ==
  \A n \in DOMAIN params :
    \E p \in Lookup(proto, n) : p.tier # "platform" /\ params[n] \in p.values

\* ValidateUserParamNames.
ValidateUserParamNames(proto, entries) ==
  \A e \in entries :
    \/ e.kind = "cat" /\ \E p \in Registry : p.cat = e.name
    \/ e.kind = "name" /\ \E p \in Lookup(proto, e.name) : p.tier # "platform"

\* Mutant of ValidateUserOverrides: any registered parameter may be set.
ValidateUserOverridesAny(proto, params, allowList, admin) == ValidParams(proto, params)

\* ValidateUserOverrides: the allow-list binds everyone but an admin.
ValidateUserOverrides(proto, params, allowList, admin) ==
  /\ ValidParams(proto, params)
  /\ admin \/ DOMAIN params \subseteq allowList

\* mergeParams: the session's vetted values over the template's.
mergeParams(base, over) ==
  [n \in DOMAIN over \cup DOMAIN base |-> IF n \in DOMAIN over THEN over[n] ELSE base[n]]

\* clampClipboardGrant: parameters restrict, they never grant.
clampClipboardGrant(grant, params) ==
  LET Blocks(n) == n \in DOMAIN params /\ params[n] # "false"
  IN [copy  |-> grant.copy /\ ~Blocks("disable-copy"),
      paste |-> grant.paste /\ ~Blocks("disable-paste")]

\* The template webhook (linux templates): kasmvnc stands alone, its config
\* leaves the clipboard to the policy, parameters are registered.
ValidTemplate(tpl) ==
  /\ \A i, j \in DOMAIN tpl.protos : tpl.protos[i].name = tpl.protos[j].name => i = j
  /\ \A i \in DOMAIN tpl.protos :
       /\ tpl.protos[i].name # "rdp"
       /\ ValidParams(tpl.protos[i].name, tpl.protos[i].params)
       /\ ValidateUserParamNames(tpl.protos[i].name, tpl.protos[i].userParams)
  /\ "kasmvnc" \in ProtocolNames(tpl) => Len(tpl.protos) = 1
  /\ tpl.config.set => "kasmvnc" \in ProtocolNames(tpl) /\ ~tpl.config.clipboard
=============================================================================
