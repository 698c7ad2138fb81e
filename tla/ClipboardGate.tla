--------------------------- MODULE ClipboardGate ---------------------------
(***************************************************************************)
(* What the clipboard filter of a Guacamole tunnel promises, without its   *)
(* frames, its fast paths and its sets of blocked indices                  *)
(* (wwt/internal/guac/clipboard.go, the comment on ClipboardFilter).       *)
(*                                                                         *)
(* A clipboard stream is let through exactly when its direction is enabled *)
(* at the moment the stream opens, a stream passes whole or not at all,    *)
(* and nothing else is ever touched.  A direction the grant denies is      *)
(* never enabled.                                                          *)
(***************************************************************************)
EXTENDS Naturals, Sequences

CONSTANT Dirs            \* {"copy", "paste"}

VARIABLES
    grant,               \* what the connection token allows, per direction
    want,                \* what the user has switched on, per direction
    seen,                \* per direction: the instructions judged so far
    passed               \* per direction: for each of them, was it let through

gateVars == <<grant, want, seen, passed>>

Opens == {"clipboard", "img"}

(* The position of the instruction that opened the stream s[k] belongs to. *)
IsOpening(s, j, k) ==
    /\ j < k
    /\ s[j].op \in Opens
    /\ s[j].idx = s[k].idx
    /\ \A m \in (j + 1)..(k - 1) : ~(s[m].op \in Opens /\ s[m].idx = s[k].idx)

Right(s, p, k, enabled) ==
    CASE s[k].op = "clipboard"      -> p[k] = enabled
      [] s[k].op \in {"blob", "end"} -> \A j \in 1..(k - 1) : IsOpening(s, j, k) => p[k] = p[j]
      [] OTHER                      -> p[k]

GateInit ==
    /\ grant \in [Dirs -> BOOLEAN]
    /\ want = grant
    /\ seen = [d \in Dirs |-> <<>>]
    /\ passed = [d \in Dirs |-> <<>>]

Toggle(d) ==
    /\ want' \in {[want EXCEPT ![d] = FALSE], [want EXCEPT ![d] = grant[d]]}
    /\ UNCHANGED <<grant, seen, passed>>

(* Some instructions are judged, each by what is enabled now.              *)
Judge(d) ==
    LET old == 1..Len(seen[d])
        new == (Len(seen[d]) + 1)..Len(seen'[d])
    IN  /\ \A k \in old : seen'[d][k] = seen[d][k] /\ passed'[d][k] = passed[d][k]
        /\ Len(seen'[d]) >= Len(seen[d]) /\ Len(passed'[d]) = Len(seen'[d])
        /\ \A k \in new : Right(seen'[d], passed'[d], k, want[d])
        /\ seen' = [seen EXCEPT ![d] = seen'[d]] /\ passed' = [passed EXCEPT ![d] = passed'[d]]
        /\ UNCHANGED <<grant, want>>

GateNext == \E d \in Dirs : Toggle(d) \/ Judge(d)

GateSpec == GateInit /\ [][GateNext]_gateVars

=============================================================================
