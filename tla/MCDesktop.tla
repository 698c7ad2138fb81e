------------------------------ MODULE MCDesktop -----------------------------
(* Two policies that grant one clipboard right each, two catalog entries,  *)
(* and templates with locked parameters, one of them delegated.            *)
EXTENDS Desktop

MCRegistry == {
  [name |-> "disable-copy", protos |-> {"vnc", "rdp", "ssh"}, tier |-> "ui",
   cat |-> "clipboard", values |-> {"true", "false"}],
  [name |-> "disable-paste", protos |-> {"vnc", "rdp", "ssh"}, tier |-> "ui",
   cat |-> "clipboard", values |-> {"true", "false"}],
  [name |-> "hostname", protos |-> {"vnc", "rdp", "ssh"}, tier |-> "platform",
   cat |-> "clipboard", values |-> {"host"}]}

DefaultPolicy == [name |-> 2, prio |-> 0, subjects |-> {},
                  clip |-> [copy |-> "deny", paste |-> None], images |-> {}, fields |-> None]

GroupPolicy == [name |-> 1, prio |-> 10, subjects |-> {[kind |-> "Group", name |-> "g"]},
                clip |-> [copy |-> None, paste |-> "deny"],
                images |-> {"private", "public"}, fields |-> {"env", "protocolParams"}]

MCPolicies == {DefaultPolicy, GroupPolicy}

KasmImage == [path |-> <<"reg", "team", "kasm">>, tag |-> "1", digest |-> FALSE]
VncImage == [path |-> <<"reg", "vnc">>, tag |-> None, digest |-> FALSE]

MCImages == {
  [name |-> "private", exact |-> None, registry |-> <<"reg", "team">>, enabled |-> TRUE,
   groups |-> {}, tags |-> None, protos |-> {"kasmvnc", "vnc"}, pull |-> "regcred"],
  [name |-> "public", exact |-> VncImage, registry |-> <<>>, enabled |-> TRUE,
   groups |-> {}, tags |-> None, protos |-> {"vnc"}, pull |-> None]}

Entry(name, params, userParams) ==
  [name |-> name, params |-> params, userParams |-> userParams]

NoConfig == [set |-> FALSE, clipboard |-> FALSE, raw |-> None]

Template(image, protos, config) ==
  [image |-> image, protos |-> protos, env |-> {}, owner |-> None,
   fields |-> {"env", "protocolParams"}, config |-> config]

CopyLocked == "disable-copy" :> "true"
PasteLocked == "disable-paste" :> "true"

KasmTemplate == Template(KasmImage, <<Entry("kasmvnc", <<>>, {})>>,
                         [set |-> TRUE, clipboard |-> FALSE, raw |-> "resolution"])
\* Both directions are locked, the lock of one is delegated.
VncTemplate == Template(VncImage, <<Entry("vnc", CopyLocked @@ PasteLocked,
                          {[kind |-> "name", name |-> "disable-paste"]})>>, NoConfig)
OpenTemplate == Template(VncImage, <<Entry("vnc", <<>>, {})>>, NoConfig)

MCTemplates == {KasmTemplate, VncTemplate}
VncTemplates == {VncTemplate, OpenTemplate}
KasmOnly == {KasmTemplate}

MCSources == {[type |-> "dockercfg"], [type |-> "opaque"]}
OneSource == {[type |-> "dockercfg"]}

MCUserGroups == {{}, {"g"}}
OnlyApi == {FALSE}
MCDirect == BOOLEAN
MCEnvs == {{}, {"VNC_PW"}}
NoEnvs == {{}}
MCUserParams == {<<>>, "disable-paste" :> "false"}
NoParams == {<<>>}
=============================================================================
