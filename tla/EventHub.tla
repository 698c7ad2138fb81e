------------------------------ MODULE EventHub ------------------------------
(***************************************************************************)
(* The api-server's change notifications (service/event_hub.go and         *)
(* handler/events.go): every SSE stream owns a channel of kinds, Notify    *)
(* never blocks, and a browser that receives a kind re-fetches it.  The    *)
(* module that extends this one says what changes and who calls Notify.    *)
(***************************************************************************)
EXTENDS Naturals, Sequences, SequencesExt

CONSTANTS
    Streams,             \* SSE streams a browser may open
    Users,               \* identities
    OwnerOf,             \* OwnerOf[s]: who opened the stream
    AdminStreams,        \* the streams of administrators
    Cap                  \* capacity of a channel (16 in the code)

ASSUME HubAssumption == Cap \in Nat \ {0} /\ AdminStreams \subseteq Streams

Everyone == "everyone"   \* an empty ownerID
Off == <<"off">>         \* no such stream
Kinds == {"images", "remote-workspaces"}
Watched == "images"      \* the kind whose changes are followed here

VARIABLES
    chan,      \* per stream: the kinds waiting, or Off
    behind,    \* history: the watched kind changed since the stream re-fetched it
    dropped    \* history: a full channel swallowed that kind, none of it waiting

hubVars == <<chan, behind, dropped>>

Open(s) == chan[s] # Off

Concerned(s, owner) == s \in AdminStreams \/ owner = Everyone \/ OwnerOf[s] = owner

Reached(s, kind) == Open(s) /\ kind \in ToSet(chan[s])

(* Notify: a send to every stream concerned, skipped where the channel is  *)
(* full.                                                                   *)
Notify(kind, owner) ==
    LET told == {s \in Streams : Open(s) /\ Concerned(s, owner)}
        full == {s \in told : Len(chan[s]) = Cap}
    IN  /\ chan' = [s \in Streams |-> IF s \in told \ full THEN Append(chan[s], kind) ELSE chan[s]]
        /\ dropped' = [s \in Streams |->
                          dropped[s] \/ (kind = Watched /\ behind[s] /\ s \in full /\ ~Reached(s, kind))]

\* Something of the watched kind is no longer what the streams have seen.
Changed == behind' = [s \in Streams |-> behind[s] \/ Open(s)]

HubInit ==
    /\ chan = [s \in Streams |-> Off]
    /\ behind = [s \in Streams |-> FALSE]
    /\ dropped = [s \in Streams |-> FALSE]

\* Stream, up to Subscribe.
Subscribe(s) ==
    /\ ~Open(s)
    /\ chan' = [chan EXCEPT ![s] = <<>>]
    /\ UNCHANGED <<behind, dropped>>

\* The request's context ends: cancel removes the stream and closes its channel.
Cancel(s) ==
    /\ Open(s)
    /\ chan' = [chan EXCEPT ![s] = Off]
    /\ behind' = [behind EXCEPT ![s] = FALSE]
    /\ dropped' = [dropped EXCEPT ![s] = FALSE]

\* One turn of Stream's loop; the browser re-fetches what it is told of.
Receive(s) ==
    /\ Open(s) /\ chan[s] # <<>>
    /\ chan' = [chan EXCEPT ![s] = Tail(@)]
    /\ behind' = [behind EXCEPT ![s] = @ /\ Head(chan[s]) # Watched]
    /\ dropped' = [dropped EXCEPT ![s] = @ /\ Head(chan[s]) # Watched]

HubTypeOK ==
    /\ chan \in [Streams -> {Off} \cup UNION {[1..n -> Kinds] : n \in 0..Cap}]
    /\ behind \in [Streams -> BOOLEAN] /\ dropped \in [Streams -> BOOLEAN]
    /\ \A s \in Streams : dropped[s] => behind[s] /\ Open(s)

=============================================================================
