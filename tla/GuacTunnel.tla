----------------------------- MODULE GuacTunnel -----------------------------
(***************************************************************************)
(* One Guacamole tunnel of wwt: the guacd handshake, the two pumps of pipe *)
(* (wwt/internal/proxy/proxy.go), the Framer that cuts guacd's byte stream *)
(* at instruction boundaries, the ClipboardFilter both pumps share under   *)
(* one mutex, and the teardown that must stop both pumps.                  *)
(*                                                                         *)
(* Bytes are abstracted to fragments: an instruction travels as two        *)
(* fragments, and a read returns any non-empty part of what has arrived.   *)
(***************************************************************************)
EXTENDS Naturals, Sequences, FiniteSets, FiniteSetsExt

CONSTANTS
    NIndices,            \* bound: streams guacd has open at once
    MaxSent,             \* bound: instructions guacd sends
    MaxPastes,           \* bound: paste streams the browser sends
    MaxToggles,          \* bound: clipboard toggles the browser sends
    MaxPending           \* guac.MaxPendingBytes, in fragments

Dirs == {"copy", "paste"}      \* copy: guacd -> browser, paste: browser -> guacd

Indices == 1..NIndices

ASSUME TunnelAssumption ==
    /\ NIndices \in Nat \ {0}
    /\ MaxSent \in Nat /\ MaxPastes \in Nat /\ MaxToggles \in Nat /\ MaxPending \in Nat \ {0}

VARIABLES
    main,      \* ServeHTTP: "select" "connect" "relay" "closing" "returned" "refused"
    answer,    \* guacd's last handshake answer
    pump,      \* per direction: "idle" "read" "write" "answer" "done"
    grant,     \* grantCopy, grantPaste
    want,      \* wantCopy, wantPaste
    blocked,   \* blockedServer (copy), blockedClient (paste)
    wire,      \* fragments guacd has sent and the proxy has not read
    buf,       \* Framer.buf from Framer.start on
    inbox,     \* messages the browser has sent and the proxy has not read
    out,       \* per direction: the instructions kept, to be written
    reply,     \* error acks to be written to the browser
    peer,      \* "browser", "guacd" -> the other end: "up", "mad" (corrupting) or "gone"
    open,      \* the proxy's ends of the WebSocket and of the guacd connection
    live,      \* the streams guacd has open
    sent,      \* history: the instructions guacd has sent
    typed,     \* history: the pastes and the toggles the browser has sent
    log,       \* history, per direction: [inst, kept] for every one judged
    acked      \* history: the indices whose refusal reached the browser

filterVars == <<grant, want, blocked>>
peerVars   == <<answer, wire, inbox, peer, live, sent, typed>>
vars == <<main, pump, filterVars, peerVars, buf, out, reply, open, log, acked>>

Inst(o, i) == [op |-> o, idx |-> i]
Insts == [op : {"clipboard", "img", "blob", "end"}, idx : Indices]

(* "garbage" cannot start an instruction, "endless" never completes one.   *)
Fragments(i) == <<[inst |-> i, kind |-> "part"], [inst |-> i, kind |-> "last"]>>

Headless(s) == s # <<>> /\ s[1].kind = "last"      \* starts inside an instruction

(* The elements of s that are in S: SelectSeq in a form that can be        *)
(* reasoned about.                                                         *)
Those(s, S) ==
    LET F[n \in 0..Len(s)] == IF n = 0 THEN <<>>
                              ELSE IF s[n] \in S THEN Append(F[n - 1], s[n]) ELSE F[n - 1]
    IN  F[Len(s)]

Complete(s) ==
    LET last == Those(IF Headless(s) THEN Tail(s) ELSE s, [inst : Insts, kind : {"last"}])
    IN  [n \in DOMAIN last |-> last[n].inst]

(***************************************************************************)
(* The peers.  guacd and the frontend end a stream before they use its     *)
(* index again; the frontend's writer sends a paste stream in one go       *)
(* (useClipboardBridge.ts).  Each sends when the last has mostly arrived:  *)
(* what is further behind in the network changes nothing here.             *)
(***************************************************************************)
(* Both sides hand out the lowest index that is not in use.                *)
NextIndex == CHOOSE i \in 1..(NIndices + 1) : i \notin live /\ \A j \in 1..(i - 1) : j \in live

GuacdAnswers ==
    /\ peer.guacd = "up" /\ main \in {"select", "connect"} /\ answer = "none"
    /\ answer' \in IF main = "select" THEN {"args", "error"} ELSE {"ready", "error"}
    /\ UNCHANGED <<main, pump, filterVars, wire, buf, inbox, out, reply, peer, open, live, sent, typed, log, acked>>

(* Data may follow "ready" at once, in the same TCP segment.               *)
GuacdSends ==
    /\ peer.guacd = "up" /\ answer = "ready"
    /\ open.guacd /\ Len(sent) < MaxSent /\ Len(wire) <= 1
    /\ \E i \in Indices :
         \/ /\ i = NextIndex
            /\ live' = live \cup {i}
            /\ \E o \in {"clipboard", "img"} : sent' = Append(sent, Inst(o, i))
         \/ /\ i \in live
            /\ sent' = Append(sent, Inst("blob", i))
            /\ UNCHANGED live
         \/ /\ i \in live
            /\ live' = live \ {i}
            /\ sent' = Append(sent, Inst("end", i))
    /\ wire' = wire \o Fragments(sent'[Len(sent')])
    /\ UNCHANGED <<main, answer, pump, filterVars, buf, inbox, out, reply, peer, open, typed, log, acked>>

GuacdCorrupts ==
    /\ peer.browser = "up" /\ peer.guacd \in {"up", "mad"}
    /\ open.guacd /\ answer = "ready" /\ Len(buf) + Len(wire) <= MaxPending + 1
    /\ \E k \in IF peer.guacd = "up" THEN {"garbage", "endless"} ELSE {"endless"} :
         wire' = Append(wire, [inst |-> Inst("img", 1), kind |-> k])
    /\ peer' = [peer EXCEPT !.guacd = "mad"]
    /\ UNCHANGED <<main, answer, pump, filterVars, buf, inbox, out, reply, open, live, sent, typed, log, acked>>

BrowserPastes ==
    /\ main = "relay" /\ peer.browser = "up" /\ inbox = <<>> /\ typed.pastes < MaxPastes
    /\ inbox' = <<Inst("clipboard", 1), Inst("blob", 1), Inst("end", 1)>>
    /\ typed' = [typed EXCEPT !.pastes = @ + 1]
    /\ UNCHANGED <<main, answer, pump, filterVars, wire, buf, out, reply, peer, open, live, sent, log, acked>>

BrowserToggles ==
    /\ main = "relay" /\ peer.browser = "up" /\ inbox = <<>> /\ typed.toggles < MaxToggles
    /\ \E d \in Dirs, b \in BOOLEAN : inbox' = <<[op |-> "toggle", dir |-> d, on |-> b]>>
    /\ typed' = [typed EXCEPT !.toggles = @ + 1]
    /\ UNCHANGED <<main, answer, pump, filterVars, wire, buf, out, reply, peer, open, live, sent, log, acked>>

PeerLeaves ==
    /\ main \in {"select", "connect", "relay"}
    /\ \A p \in DOMAIN peer : peer[p] = "up"            \* bound: one fault per tunnel
    /\ \E p \in DOMAIN peer : peer' = [peer EXCEPT ![p] = "gone"]
    /\ UNCHANGED <<main, answer, pump, filterVars, wire, buf, inbox, out, reply, open, live, sent, typed, log, acked>>

-----------------------------------------------------------------------------
(* ServeHTTP: the handshake, then pipe.                                    *)

HandshakeStep ==
    /\ main \in {"select", "connect"}
    /\ \/ /\ main = "select" /\ answer = "args"
          /\ main' = "connect" /\ answer' = "none"
          /\ UNCHANGED <<pump, open>>
       \/ /\ main = "connect" /\ answer = "ready"
          /\ main' = "relay"
          /\ pump' = [d \in Dirs |-> "read"]
          /\ UNCHANGED <<answer, open>>
    /\ UNCHANGED <<filterVars, wire, buf, inbox, out, reply, peer, live, sent, typed, log, acked>>

(* A refused handshake, a closed connection or a failed upgrade.           *)
HandshakeFails ==
    /\ main \in {"select", "connect"}
    /\ answer = "error" \/ (peer.guacd = "gone" /\ answer = "none") \/ (peer.browser = "gone" /\ answer = "ready")
    /\ main' = "refused"
    /\ open' = [open EXCEPT !.guacd = FALSE]
    /\ UNCHANGED <<pump, filterVars, peerVars, buf, out, reply, log, acked>>

\* Mutant of CloseBoth: the connection to guacd is left to the pump that reads it.
CloseBrowser == open' = [open EXCEPT !.browser = FALSE]

CloseBoth == open' = [browser |-> FALSE, guacd |-> FALSE]

PipeCloses ==
    /\ main = "relay" /\ \E d \in Dirs : pump[d] = "done"
    /\ main' = "closing"
    /\ CloseBoth
    /\ UNCHANGED <<pump, filterVars, peerVars, buf, out, reply, log, acked>>

PipeReturns ==
    /\ main = "closing" /\ \A d \in Dirs : pump[d] = "done"
    /\ main' = "returned"
    /\ UNCHANGED <<pump, filterVars, peerVars, buf, out, reply, open, log, acked>>

-----------------------------------------------------------------------------
(* The filter.  A frame is walked under ClipboardFilter.mu, in one step.   *)

\* Mutant of FastPath: a stream that is being dropped is forgotten.
FastPathForgetful(d, frame) ==
    want[d] \/ (d = "copy" /\ \A n \in DOMAIN frame : frame[n].op # "clipboard")

\* The frame passes untouched.
FastPath(d, frame) ==
    /\ blocked[d] = {}
    /\ want[d] \/ (d = "copy" /\ \A n \in DOMAIN frame : frame[n].op # "clipboard")

\* Mutant of Refused: no error ack.
RefusedSilently(f, i) == f.refused

Refused(f, i) == Append(f.refused, i.idx)

(* One turn of rewriteWithReplies' loop: f is what the turns before it     *)
(* made of the blocked set, the verdicts and the refused streams.          *)
RewriteOne(enabled, f, i) ==
    CASE i.op = "clipboard" /\ ~enabled ->
            [blocked |-> f.blocked \cup {i.idx},
             log     |-> Append(f.log, [inst |-> i, kept |-> FALSE]),
             refused |-> Refused(f, i)]
      [] i.op \in {"blob", "end"} /\ i.idx \in f.blocked ->
            [f EXCEPT !.blocked = IF i.op = "end" THEN @ \ {i.idx} ELSE @,
                      !.log     = Append(@, [inst |-> i, kept |-> FALSE])]
      [] OTHER ->
            [f EXCEPT !.log = Append(@, [inst |-> i, kept |-> TRUE])]

Rewrite(d, frame) ==
    LET F[n \in 0..Len(frame)] ==
          IF n = 0 THEN [blocked |-> blocked[d], log |-> <<>>, refused |-> <<>>]
          ELSE RewriteOne(want[d], F[n - 1], frame[n])
    IN  F[Len(frame)]

PassAll(d, frame) ==
    [blocked |-> blocked[d], log |-> [n \in DOMAIN frame |-> [inst |-> frame[n], kept |-> TRUE]], refused |-> <<>>]

Filter(d, frame) ==
    LET f == IF FastPath(d, frame) THEN PassAll(d, frame) ELSE Rewrite(d, frame)
    IN  /\ blocked' = [blocked EXCEPT ![d] = f.blocked]
        /\ log' = [log EXCEPT ![d] = @ \o f.log]
        /\ out' = [out EXCEPT ![d] = Those(f.log, [inst : Insts, kept : {TRUE}])]
        /\ reply' = IF d = "paste" THEN f.refused ELSE reply
        /\ pump' = [pump EXCEPT ![d] = "write"]
        /\ UNCHANGED <<grant, want>>

-----------------------------------------------------------------------------
(* guacd -> browser: read, re-frame, filter.                               *)

\* Mutant of Pending: the tail of an incomplete instruction is thrown away.
PendingDropped(s, n) == <<>>

\* What the Framer holds back: everything past the last complete instruction.
Pending(s, n) == SubSeq(s, n + 1, Len(s))

CompletePrefix(s) == Max({n \in DOMAIN s : s[n].kind = "last"} \cup {0})

Malformed(s, n) ==
    \/ Headless(s) \/ \E k \in DOMAIN s : s[k].kind = "garbage"
    \/ n = 0 /\ Len(s) > MaxPending

(* Framer.Push, then the filter when an instruction is complete.           *)
Push(data) ==
    LET all == buf \o data
        n   == CompletePrefix(all)
    IN  \/ /\ Malformed(all, n)
           /\ pump' = [pump EXCEPT !.copy = "done"]
           /\ buf' = all
           /\ UNCHANGED <<filterVars, log, out, reply>>
        \/ /\ ~Malformed(all, n) /\ n = 0
           /\ buf' = all
           /\ UNCHANGED <<pump, filterVars, log, out, reply>>
        \/ /\ ~Malformed(all, n) /\ n > 0
           /\ buf' = Pending(all, n)
           /\ Filter("copy", Complete(SubSeq(all, 1, n)))

ReadGuacd ==
    /\ pump.copy = "read" /\ open.guacd
    /\ \E n \in 1..Len(wire) :
         /\ wire' = SubSeq(wire, n + 1, Len(wire))
         /\ Push(SubSeq(wire, 1, n))
    /\ UNCHANGED <<main, answer, inbox, peer, open, live, sent, typed, acked>>

(* A read ends when the other side is gone or the proxy closed its end.    *)
ReadEnds(d) ==
    LET from == IF d = "copy" THEN "guacd" ELSE "browser"
        rest == IF d = "copy" THEN wire ELSE inbox
    IN  /\ pump[d] = "read"
        /\ ~open[from] \/ (peer[from] = "gone" /\ rest = <<>>)
        /\ pump' = [pump EXCEPT ![d] = "done"]
        /\ UNCHANGED <<main, filterVars, peerVars, buf, out, reply, open, log, acked>>

-----------------------------------------------------------------------------
(* browser -> guacd: controls stop here, everything else is filtered.      *)

ReadBrowser ==
    /\ pump.paste = "read" /\ open.browser /\ inbox # <<>> /\ Head(inbox).op # "toggle"
    /\ inbox' = Tail(inbox)
    /\ Filter("paste", <<Head(inbox)>>)
    /\ UNCHANGED <<main, answer, wire, buf, peer, open, live, sent, typed, acked>>

(* HandleControl, SetCopy and SetPaste; the reply is the effective state.  *)
HandleControl ==
    /\ pump.paste = "read" /\ open.browser /\ inbox # <<>> /\ Head(inbox).op = "toggle"
    /\ inbox' = Tail(inbox)
    /\ want' = [want EXCEPT ![Head(inbox).dir] = Head(inbox).on /\ grant[Head(inbox).dir]]
    /\ pump' = [pump EXCEPT !.paste = "answer"]
    /\ UNCHANGED <<main, answer, grant, blocked, wire, buf, out, reply, peer, open, live, sent, typed, log, acked>>

-----------------------------------------------------------------------------
(* Writing: the paste pump writes its reply to the browser first.          *)

Writes(d) ==
    IF d = "copy"
    THEN {p \in {"browser"} : out[d] # <<>>}
    ELSE {p \in {"browser"} : reply # <<>> \/ pump[d] = "answer"} \cup {p \in {"guacd"} : out[d] # <<>>}

Flush(d) ==
    /\ out' = [out EXCEPT ![d] = <<>>]
    /\ reply' = IF d = "paste" THEN <<>> ELSE reply

(* A write to a peer that has just left may still succeed.                 *)
Write(d) ==
    /\ pump[d] \in {"write", "answer"}
    /\ \A p \in Writes(d) : open[p]
    /\ acked' = IF d = "paste" THEN acked \o reply ELSE acked
    /\ Flush(d)
    /\ pump' = [pump EXCEPT ![d] = "read"]
    /\ UNCHANGED <<main, filterVars, peerVars, buf, open, log>>

WriteFails(d) ==
    /\ pump[d] \in {"write", "answer"}
    /\ \E p \in Writes(d) : ~open[p] \/ peer[p] = "gone"
    /\ pump' = [pump EXCEPT ![d] = "done"]
    /\ UNCHANGED <<main, filterVars, peerVars, buf, out, reply, open, log, acked>>

-----------------------------------------------------------------------------
Init ==
    /\ main = "select" /\ answer = "none"
    /\ pump = [d \in Dirs |-> "idle"]
    /\ grant \in [Dirs -> BOOLEAN]
    /\ want = grant
    /\ blocked = [d \in Dirs |-> {}]
    /\ wire = <<>> /\ buf = <<>> /\ inbox = <<>> /\ reply = <<>> /\ acked = <<>>
    /\ out = [d \in Dirs |-> <<>>] /\ log = [d \in Dirs |-> <<>>]
    /\ peer = [browser |-> "up", guacd |-> "up"]
    /\ open = [browser |-> TRUE, guacd |-> TRUE]
    /\ live = {}
    /\ sent = <<>> /\ typed = [pastes |-> 0, toggles |-> 0]

Peers == GuacdAnswers \/ GuacdSends \/ GuacdCorrupts \/ BrowserPastes \/ BrowserToggles \/ PeerLeaves

Proxy ==
    \/ HandshakeStep \/ HandshakeFails \/ PipeCloses \/ PipeReturns
    \/ ReadGuacd \/ ReadBrowser \/ HandleControl
    \/ \E d \in Dirs : ReadEnds(d) \/ Write(d) \/ WriteFails(d)

Next == Peers \/ Proxy

(* A goroutine that can move does; a peer may stop reading or sending at   *)
(* any time, so nothing is assumed of a write that could succeed.          *)
Fairness ==
    /\ WF_vars(PipeCloses) /\ WF_vars(PipeReturns)
    /\ \A d \in Dirs : /\ WF_vars(ReadEnds(d)) /\ WF_vars(WriteFails(d))
                      /\ WF_vars(Writes(d) = {} /\ Write(d))

Spec == Init /\ [][Next]_vars /\ Fairness

-----------------------------------------------------------------------------
(* The state variables keep their types, and a pump that waits for its     *)
(* next message has nothing left to write.                                 *)
TypeOK ==
    /\ main \in {"select", "connect", "relay", "closing", "returned", "refused"}
    /\ answer \in {"none", "args", "ready", "error"}
    /\ pump \in [Dirs -> {"idle", "read", "write", "answer", "done"}]
    /\ grant \in [Dirs -> BOOLEAN] /\ want \in [Dirs -> BOOLEAN]
    /\ blocked \in [Dirs -> SUBSET Indices]
    /\ live \subseteq Indices
    /\ peer \in [browser : {"up", "gone"}, guacd : {"up", "mad", "gone"}]
    /\ open \in [browser : BOOLEAN, guacd : BOOLEAN]
    /\ \A d \in Dirs : pump[d] = "read" => out[d] = <<>>
    /\ pump.paste = "read" => reply = <<>>
    /\ \A d \in Dirs : log[d] \in Seq([inst : Insts, kept : BOOLEAN])

Judged(d) == [n \in DOMAIN log[d] |-> log[d][n].inst]

Gate == INSTANCE ClipboardGate WITH
            seen   <- [d \in Dirs |-> Judged(d)],
            passed <- [d \in Dirs |-> [n \in DOMAIN log[d] |-> log[d][n].kept]]

(* The filter with its frames, fast paths and index sets implements the    *)
(* gate: a clipboard stream passes whole exactly when its direction was    *)
(* enabled as it opened, whatever frames it is cut into and whatever is    *)
(* toggled meanwhile, and nothing else is dropped (clipboard.go).          *)
ImplementsGate == Gate!GateSpec

(* Re-framing loses and reorders nothing: what guacd sent is what the      *)
(* filter judged, what the Framer holds back and what is still on the      *)
(* wire, in that order, from the first byte after "ready" on               *)
(* (framing.go Push, handshake.go's shared reader).                        *)
NothingLost == sent = Judged("copy") \o Complete(buf \o wire)

(* Whenever the browser pump waits for its next message, every paste       *)
(* stream it refused has been answered with an error ack, once, in order:  *)
(* the browser's writer never waits for an ack that will not come.         *)
RefusalsAnswered ==
    pump.paste = "read" =>
        LET refused == Those(log.paste, [inst : [op : {"clipboard"}, idx : Indices], kept : {FALSE}])
        IN  acked = [n \in DOMAIN refused |-> refused[n].inst.idx]

(* Once either direction stops, pipe returns (and the session's end is     *)
(* reported): the other pump is freed from its read, its write or the      *)
(* filter by the closing of both connections (proxy.go pipe).              *)
Teardown == (\E d \in Dirs : pump[d] = "done") ~> main = "returned"

=============================================================================
