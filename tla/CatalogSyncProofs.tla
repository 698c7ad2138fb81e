-------------------------- MODULE CatalogSyncProofs --------------------------
(***************************************************************************)
(* Proofs about CatalogSync and the EventHub it extends, for any number of *)
(* streams, identities, sources, edits and faults, and any capacity of the *)
(* channels: no wake-up and no notification is lost, the semaphore has      *)
(* one holder, and the types.                                              *)
(***************************************************************************)
EXTENDS CatalogSync, TLAPS

\* Where a syncer can be.
Pcs == {"idle", "wait", "busy", "drain"}

\* What the argument needs of the types.
Shape ==
    /\ sync \in [Syncers -> [pc : Pcs, copy : Specs \cup {Absent}]]
    /\ img.spec \in Specs \cup {Absent}
    /\ watcher \in {"idle", "wake", "notify"}
    /\ queue \in Seq(Specs \cup {Absent})
    /\ chan \in [Streams -> Seq(Kinds) \cup {Off}]
    /\ behind \in [Streams -> BOOLEAN] /\ dropped \in [Streams -> BOOLEAN]

\* A stream that is closed is not behind.
ClosedIsCurrent == \A s \in Streams : behind[s] => Open(s)

\* The inductive invariant: the two properties, with what they need.
IInv == Shape /\ ClosedIsCurrent /\ NoLostWakeup /\ NoLostNotification

\* The invariant holds when the process starts.
LEMMA InitIInv == Init => IInv
<1> SUFFICES ASSUME Init PROVE IInv
  OBVIOUS
<1>1. img.spec \in Specs \cup {Absent}
  BY CatalogAssumption DEF Init, NoImage, Specs
<1>2. Rest \in [pc : Pcs, copy : Specs \cup {Absent}] /\ Rest.pc = "idle"
  BY DEF Rest, Pcs
<1>3. Shape
  BY <1>1, <1>2 DEF Init, HubInit, Shape
<1>4. \A s \in Streams : ~behind[s]
  BY DEF Init, HubInit
<1>5. QED
  BY <1>3, <1>4 DEF Init, IInv, ClosedIsCurrent, NoLostWakeup, NoLostNotification

-----------------------------------------------------------------------------
(* The hub.                                                                *)

\* The kinds that wait in a channel.
LEMMA WaitingKinds ==
  ASSUME NEW q \in Seq(Kinds), NEW k \in Kinds
  PROVE  /\ Append(q, k) \in Seq(Kinds) /\ k \in ToSet(Append(q, k))
         /\ \A j \in Kinds : j \in ToSet(q) => j \in ToSet(Append(q, k))
         /\ q # <<>> => /\ Tail(q) \in Seq(Kinds)
                        /\ \A j \in Kinds : j \in ToSet(q) /\ Head(q) # j => j \in ToSet(Tail(q))
<1>1. /\ Append(q, k) \in Seq(Kinds) /\ Append(q, k)[Len(q) + 1] = k
      /\ DOMAIN Append(q, k) = 1..(Len(q) + 1) /\ Len(q) \in Nat
      /\ \A i \in 1..Len(q) : Append(q, k)[i] = q[i]
  OBVIOUS
<1>2. k \in ToSet(Append(q, k))
  <2>1. Len(q) + 1 \in DOMAIN Append(q, k)
    BY <1>1
  <2>2. QED
    BY <1>1, <2>1 DEF ToSet
<1>3. ASSUME NEW j \in ToSet(q) PROVE j \in ToSet(Append(q, k))
  <2>1. PICK i \in 1..Len(q) : q[i] = j
    BY <1>3 DEF ToSet
  <2>2. i \in DOMAIN Append(q, k) /\ Append(q, k)[i] = j
    BY <1>1, <2>1
  <2>3. QED
    BY <2>2 DEF ToSet
<1>4. ASSUME q # <<>>, NEW j \in ToSet(q), Head(q) # j PROVE j \in ToSet(Tail(q))
  <2>1. PICK i \in 1..Len(q) : q[i] = j
    BY <1>4 DEF ToSet
  <2>2. i # 1
    BY <1>4, <2>1
  <2>3. i - 1 \in DOMAIN Tail(q) /\ Tail(q)[i - 1] = j
    BY <1>4, <2>1, <2>2
  <2>4. QED
    BY <2>3 DEF ToSet
<1>5. q # <<>> => Tail(q) \in Seq(Kinds)
  OBVIOUS
<1>6. QED
  BY <1>1, <1>2, <1>3, <1>4, <1>5

\* A closed stream is not an open one, whatever waits in it.
LEMMA OffIsNoChannel == Off \notin Seq(Kinds)
  BY DEF Off, Kinds

\* The types of the hub's variables.
HubShape ==
    /\ chan \in [Streams -> Seq(Kinds) \cup {Off}]
    /\ behind \in [Streams -> BOOLEAN] /\ dropped \in [Streams -> BOOLEAN]

\* Notify keeps what waits, and reaches every stream concerned or says that it could not.
LEMMA NotifyKeeps ==
  ASSUME HubShape, ClosedIsCurrent, NEW kind \in Kinds, NEW owner, Notify(kind, owner), UNCHANGED behind
  PROVE  /\ HubShape' /\ ClosedIsCurrent'
         /\ \A s \in Streams : /\ Open(s)' = Open(s)
                               /\ Reached(s, "images") => Reached(s, "images")'
                               /\ dropped[s] => dropped'[s]
         /\ kind = "images" /\ owner = Everyone =>
               \A s \in Streams : behind[s] => dropped'[s] \/ Reached(s, "images")'
<1> DEFINE told == {s \in Streams : Open(s) /\ Concerned(s, owner)}
           full == {s \in told : Len(chan[s]) = Cap}
<1>1. /\ chan' = [s \in Streams |-> IF s \in told \ full THEN Append(chan[s], kind) ELSE chan[s]]
      /\ dropped' = [s \in Streams |->
                       dropped[s] \/ (kind = Watched /\ behind[s] /\ s \in full /\ ~Reached(s, kind))]
  BY DEF Notify
<1>2. ASSUME NEW s \in Streams
      PROVE  /\ chan'[s] \in Seq(Kinds) \cup {Off} /\ Open(s)' = Open(s)
             /\ Reached(s, "images") => Reached(s, "images")'
             /\ s \in told \ full => Reached(s, kind)'
  <2>1. CASE s \in told \ full
    <3>1. chan[s] \in Seq(Kinds) /\ chan'[s] = Append(chan[s], kind)
      BY <1>1, <2>1 DEF HubShape, Open
    <3>2. chan'[s] \in Seq(Kinds) /\ kind \in ToSet(chan'[s])
          /\ ("images" \in ToSet(chan[s]) => "images" \in ToSet(chan'[s]))
      BY <3>1, WaitingKinds DEF Kinds
    <3>3. QED
      BY <2>1, <3>2, OffIsNoChannel DEF Reached, Open
  <2>2. CASE s \notin told \ full
    BY <1>1, <2>2 DEF HubShape, Reached, Open
  <2>3. QED
    BY <2>1, <2>2
<1>3. \A s \in Streams : dropped'[s] \in BOOLEAN /\ (dropped[s] => dropped'[s])
  BY <1>1 DEF HubShape
<1>4. HubShape' /\ ClosedIsCurrent'
  BY <1>1, <1>2, <1>3 DEF HubShape, ClosedIsCurrent
<1>5. ASSUME kind = "images", owner = Everyone, NEW s \in Streams, behind[s]
      PROVE  dropped'[s] \/ Reached(s, "images")'
  <2>1. s \in told
    BY <1>5 DEF ClosedIsCurrent, Concerned
  <2>2. QED
    BY <1>1, <1>2, <1>5, <2>1 DEF Watched
<1>6. QED
  BY <1>2, <1>3, <1>4, <1>5

\* A stream opens, closes or is read.
LEMMA StreamKeeps ==
  ASSUME HubShape, ClosedIsCurrent, NEW s \in Streams, Subscribe(s) \/ Cancel(s) \/ Receive(s)
  PROVE  /\ HubShape' /\ ClosedIsCurrent'
         /\ \A z \in Streams : behind'[z] => /\ behind[z] /\ (dropped[z] => dropped'[z])
                                             /\ (Reached(z, "images") => Reached(z, "images")')
<1>1. chan \in [Streams -> Seq(Kinds) \cup {Off}]
      /\ behind \in [Streams -> BOOLEAN] /\ dropped \in [Streams -> BOOLEAN]
  BY DEF HubShape
<1>2. CASE Subscribe(s)
  <2>1. chan' = [chan EXCEPT ![s] = <<>>] /\ UNCHANGED <<behind, dropped>> /\ ~behind[s]
    BY <1>2 DEF Subscribe, ClosedIsCurrent
  <2>2. <<>> \in Seq(Kinds)
    OBVIOUS
  <2>3. QED
    BY <1>1, <2>1, <2>2 DEF HubShape, ClosedIsCurrent, Open, Reached
<1>3. CASE Cancel(s)
  BY <1>1, <1>3 DEF Cancel, HubShape, ClosedIsCurrent, Open, Reached
<1>4. CASE Receive(s)
  <2>1. /\ chan[s] \in Seq(Kinds) /\ chan[s] # <<>> /\ chan' = [chan EXCEPT ![s] = Tail(chan[s])]
        /\ behind' = [behind EXCEPT ![s] = behind[s] /\ Head(chan[s]) # Watched]
        /\ dropped' = [dropped EXCEPT ![s] = dropped[s] /\ Head(chan[s]) # Watched]
    BY <1>1, <1>4 DEF Receive, Open
  <2>2. /\ Tail(chan[s]) \in Seq(Kinds)
        /\ "images" \in ToSet(chan[s]) /\ Head(chan[s]) # "images" => "images" \in ToSet(Tail(chan[s]))
    BY <2>1, WaitingKinds DEF Kinds
  <2>3. HubShape'
    BY <1>1, <2>1, <2>2 DEF HubShape
  <2>4. Open(s)'
    BY <1>1, <2>1, <2>2, OffIsNoChannel DEF Open
  <2>5. ClosedIsCurrent'
    BY <1>1, <2>1, <2>4 DEF ClosedIsCurrent, Open
  <2>6. \A z \in Streams : behind'[z] => behind[z] /\ (dropped[z] => dropped'[z])
                                         /\ (Reached(z, "images") => Reached(z, "images")')
    BY <1>1, <2>1, <2>2, <2>4 DEF Reached, Open, Watched
  <2>7. QED
    BY <2>3, <2>5, <2>6
<1>5. QED
  BY <1>2, <1>3, <1>4

-----------------------------------------------------------------------------
(* The steps.                                                              *)

\* Where the news of a change can still be.
Underway == queue # <<>> \/ ~watching \/ watcher # "idle"

\* NoLostNotification in terms of Underway.
LEMMA NewsIs ==
  ASSUME HubShape, ClosedIsCurrent
  PROVE  NoLostNotification <=>
            (img # NoImage /\ ~Underway => \A s \in Streams : behind[s] /\ ~dropped[s] => Reached(s, "images"))
  BY DEF NoLostNotification, Underway, ClosedIsCurrent

\* The hub is not touched and no news gets lost on its way.
LEMMA HubKept ==
  ASSUME IInv, UNCHANGED hubVars, img' # NoImage => img # NoImage \/ Underway', Underway => Underway'
  PROVE  HubShape' /\ ClosedIsCurrent' /\ NoLostNotification'
<1>1. UNCHANGED <<chan, behind, dropped>>
  BY DEF hubVars
<1>2. HubShape /\ HubShape' /\ ClosedIsCurrent'
  BY <1>1 DEF IInv, Shape, HubShape, ClosedIsCurrent, Open
<1>3. \A s \in Streams : Reached(s, "images")' = Reached(s, "images")
  BY <1>1 DEF Reached, Open
<1>4. QED
  BY <1>1, <1>2, <1>3, NewsIs DEF IInv, NoLostNotification, Underway, ClosedIsCurrent

\* The image is written: the watch carries it, if one is open.
LEMMA Emitted ==
  ASSUME IInv, NEW i, i.spec \in Specs \cup {Absent}, Emit(i), UNCHANGED <<chan, dropped, watching>>
  PROVE  /\ HubShape' /\ ClosedIsCurrent' /\ NoLostNotification'
         /\ img'.spec \in Specs \cup {Absent} /\ queue' \in Seq(Specs \cup {Absent})
<1>1. img' = i /\ queue' = IF watching THEN Append(queue, i.spec) ELSE queue
  BY DEF Emit
<1>2. queue' \in Seq(Specs \cup {Absent}) /\ (watching => queue' # <<>>)
  <2> DEFINE all == Specs \cup {Absent}
  <2>1. queue \in Seq(all) /\ i.spec \in all
    BY DEF IInv, Shape
  <2> HIDE DEF all
  <2>2. Append(queue, i.spec) \in Seq(all) /\ Append(queue, i.spec) # <<>>
    BY <2>1
  <2>3. queue' \in Seq(all) /\ (watching => queue' # <<>>)
    BY <1>1, <2>1, <2>2
  <2>4. QED
    BY <2>3 DEF all
<1>3. behind' = [s \in Streams |-> behind[s] \/ Open(s)]
  BY DEF Emit, Changed
<1>4. \A s \in Streams : Open(s) \in BOOLEAN
  BY DEF Open
<1>5. HubShape' /\ ClosedIsCurrent'
  BY <1>3, <1>4 DEF IInv, Shape, HubShape, ClosedIsCurrent, Open
<1>6. NoLostNotification'
  BY <1>2 DEF NoLostNotification
<1>7. QED
  BY <1>1, <1>2, <1>5, <1>6

\* One syncer moves; the consumer's drain is left to the consumer.
LEMMA SyncMoves ==
  ASSUME IInv, NEW p \in Syncers, NEW r \in [pc : Pcs, copy : Specs \cup {Absent}],
         sync' = [sync EXCEPT ![p] = r], p = "consumer" => sync[p].pc # "drain",
         UNCHANGED <<pending, wake, watcher>>
  PROVE  sync' \in [Syncers -> [pc : Pcs, copy : Specs \cup {Absent}]] /\ NoLostWakeup'
  BY DEF IInv, Shape, NoLostWakeup, Syncers

\* The parts of the invariant make the whole.
LEMMA Together ==
  ASSUME sync' \in [Syncers -> [pc : Pcs, copy : Specs \cup {Absent}]],
         img'.spec \in Specs \cup {Absent}, watcher' \in {"idle", "wake", "notify"},
         queue' \in Seq(Specs \cup {Absent}), HubShape', ClosedIsCurrent',
         NoLostWakeup', NoLostNotification'
  PROVE  IInv'
  BY DEF IInv, Shape, HubShape

\* At rest.
LEMMA RestType == Rest \in [pc : Pcs, copy : Specs \cup {Absent}] /\ Rest.pc = "idle"
  BY DEF Rest, Pcs

\* People: edits of the image and of remote workspaces, and calls for a sync.
LEMMA PeopleStep == ASSUME IInv, People PROVE IInv'
<1>1. /\ sync \in [Syncers -> [pc : Pcs, copy : Specs \cup {Absent}]]
      /\ img.spec \in Specs \cup {Absent} /\ watcher \in {"idle", "wake", "notify"}
      /\ queue \in Seq(Specs \cup {Absent}) /\ HubShape
  BY DEF IInv, Shape, HubShape
<1>2. ASSUME NEW i, i.spec \in Specs \cup {Absent}, Emit(i), UNCHANGED <<chan, dropped, watching>>,
             UNCHANGED <<sync, pending, wake, watcher>>
      PROVE  IInv'
  <2>1. NoLostWakeup'
    BY <1>2 DEF IInv, NoLostWakeup
  <2>2. QED
    BY <1>1, <1>2, <2>1, Emitted, Together
<1>3. ASSUME NEW spec \in Specs, Apply(spec) PROVE IInv'
  <2>1. [img EXCEPT !.spec = spec].spec \in Specs \cup {Absent}
    BY <1>1, <1>3 DEF Apply
  <2>2. QED
    BY <1>2, <1>3, <2>1 DEF Apply
<1>4. CASE AdminDeleteImage
  BY <1>2, <1>4 DEF AdminDeleteImage, NoImage
<1>5. ASSUME NEW spec \in Specs, AdminUpsertImage(spec) PROVE IInv'
  <2> DEFINE new == [img EXCEPT !.spec = spec]
             r   == IF needsSync(img.spec, spec) /\ catalogSyncEligible(new.spec)
                    THEN [pc |-> "wait", copy |-> new.spec] ELSE Rest
  <2>1. /\ Emit(new) /\ sync' = [sync EXCEPT !["admin"] = r]
        /\ UNCHANGED <<chan, dropped, watching>> /\ UNCHANGED <<pending, wake, watcher>>
    BY <1>5 DEF AdminUpsertImage
  <2>2. new.spec \in Specs \cup {Absent}
    <3>1. \A i : [i EXCEPT !.spec = spec].spec \in {spec, i.spec}
      OBVIOUS
    <3>2. QED
      BY <1>1, <3>1
  <2> HIDE DEF new
  <2>3. r \in [pc : Pcs, copy : Specs \cup {Absent}]
    BY <2>2, RestType DEF Pcs
  <2> HIDE DEF r
  <2>4. sync' \in [Syncers -> [pc : Pcs, copy : Specs \cup {Absent}]] /\ NoLostWakeup'
    BY <2>1, <2>3, SyncMoves DEF Syncers
  <2>6. QED
    BY <1>1, <2>1, <2>2, <2>4, Emitted, Together
<1>6. CASE AdminSyncImage
  <2> DEFINE r == [pc |-> "wait", copy |-> img.spec]
  <2>1. /\ sync' = [sync EXCEPT !["admin"] = r] /\ UNCHANGED hubVars
        /\ UNCHANGED <<pending, wake, watcher>> /\ UNCHANGED <<img, queue, watching>>
    BY <1>6 DEF AdminSyncImage, Take
  <2>2. r \in [pc : Pcs, copy : Specs \cup {Absent}]
    BY <1>1 DEF Pcs
  <2> HIDE DEF r
  <2>3. sync' \in [Syncers -> [pc : Pcs, copy : Specs \cup {Absent}]] /\ NoLostWakeup'
    BY <2>1, <2>2, SyncMoves DEF Syncers
  <2>4. HubShape' /\ ClosedIsCurrent' /\ NoLostNotification'
    BY <2>1, HubKept DEF Underway
  <2>6. QED
    BY <1>1, <2>1, <2>3, <2>4, Together
<1>7. ASSUME NEW u \in Users, notifyChange(u) PROVE IInv'
  <2>1. /\ Notify("remote-workspaces", u) /\ UNCHANGED behind
        /\ UNCHANGED <<img, pending, wake, sync, watching, queue, watcher>>
    BY <1>7 DEF notifyChange
  <2>2. "remote-workspaces" \in Kinds
    BY DEF Kinds
  <2>3. /\ HubShape' /\ ClosedIsCurrent'
        /\ \A s \in Streams : /\ Reached(s, "images") => Reached(s, "images")'
                              /\ dropped[s] => dropped'[s]
    BY <1>1, <2>1, <2>2, NotifyKeeps DEF IInv
  <2>4. NoLostNotification'
    BY <1>1, <2>1, <2>3, NewsIs DEF IInv, NoLostNotification, Underway, ClosedIsCurrent
  <2>5. NoLostWakeup'
    BY <2>1 DEF IInv, NoLostWakeup
  <2>6. QED
    BY <1>1, <2>1, <2>3, <2>4, <2>5, Together
<1>8. QED
  BY <1>3, <1>4, <1>5, <1>6, <1>7 DEF People

\* A step that leaves the hub alone and loses no news on its way.
LEMMA Quiet ==
  ASSUME IInv, UNCHANGED hubVars, img' # NoImage => img # NoImage \/ Underway', Underway => Underway',
         sync' \in [Syncers -> [pc : Pcs, copy : Specs \cup {Absent}]],
         img'.spec \in Specs \cup {Absent}, watcher' \in {"idle", "wake", "notify"},
         queue' \in Seq(Specs \cup {Absent}), NoLostWakeup'
  PROVE  IInv'
  BY HubKept, Together

\* Time passes, and the ticker reads the image.
LEMMA TickerStep == ASSUME IInv, Tick \/ syncAll PROVE IInv'
<1>1. /\ sync \in [Syncers -> [pc : Pcs, copy : Specs \cup {Absent}]]
      /\ img.spec \in Specs \cup {Absent} /\ watcher \in {"idle", "wake", "notify"}
      /\ queue \in Seq(Specs \cup {Absent})
  BY DEF IInv, Shape
<1>2. CASE Tick
  <2>1. /\ img.fresh /\ img' = [img EXCEPT !.fresh = FALSE] /\ UNCHANGED hubVars
        /\ UNCHANGED <<pending, wake, watcher, sync, queue, watching>>
    BY <1>2 DEF Tick
  <2>2. img # NoImage
    BY <2>1 DEF NoImage
  <2>3. img'.spec = img.spec
    BY <2>1
  <2>4. NoLostWakeup' /\ (Underway => Underway')
    BY <2>1 DEF IInv, NoLostWakeup, Underway
  <2>5. QED
    BY <1>1, <2>1, <2>2, <2>3, <2>4, Quiet
<1>3. CASE syncAll
  <2> DEFINE r == [pc |-> "wait", copy |-> img.spec]
  <2>1. /\ sync' = [sync EXCEPT !["ticker"] = r] /\ UNCHANGED hubVars
        /\ UNCHANGED <<pending, wake, watcher>> /\ UNCHANGED <<img, queue, watching>>
    BY <1>3 DEF syncAll, Take
  <2>2. r \in [pc : Pcs, copy : Specs \cup {Absent}]
    BY <1>1 DEF Pcs
  <2> HIDE DEF r
  <2>3. sync' \in [Syncers -> [pc : Pcs, copy : Specs \cup {Absent}]] /\ NoLostWakeup'
    BY <2>1, <2>2, SyncMoves DEF Syncers
  <2>4. (Underway => Underway')
    BY <2>1 DEF IInv, Underway
  <2>5. QED
    BY <1>1, <2>1, <2>3, <2>4, Quiet
<1>4. QED
  BY <1>2, <1>3

\* The wait for the semaphore ends: in vain, or with a sync that the gate lets through.
LEMMA SemaphoreStep == ASSUME IInv, NEW p \in Syncers, SyncBusy \/ acquireSync(p) PROVE IInv'
<1>1. /\ sync \in [Syncers -> [pc : Pcs, copy : Specs \cup {Absent}]]
      /\ img.spec \in Specs \cup {Absent} /\ watcher \in {"idle", "wake", "notify"}
      /\ queue \in Seq(Specs \cup {Absent})
  BY DEF IInv, Shape
<1>2. /\ UNCHANGED hubVars /\ UNCHANGED <<pending, wake, watcher>>
      /\ UNCHANGED <<img, queue, watching>>
  BY DEF SyncBusy, acquireSync
<1>3. \E q \in Syncers, r \in [pc : Pcs, copy : Specs \cup {Absent}] :
         sync' = [sync EXCEPT ![q] = r] /\ sync[q].pc = "wait"
  <2>1. CASE SyncBusy
    BY <2>1, RestType DEF SyncBusy, Rested, Syncers
  <2>2. CASE acquireSync(p) /\ Gate(p)
    <3> DEFINE r == [sync[p] EXCEPT !.pc = "busy"]
    <3>1. sync' = [sync EXCEPT ![p] = r] /\ sync[p].pc = "wait"
      BY <2>2 DEF acquireSync
    <3>2. r \in [pc : Pcs, copy : Specs \cup {Absent}]
      BY <1>1 DEF Pcs
    <3> HIDE DEF r
    <3>3. QED
      BY <3>1, <3>2
  <2>3. CASE acquireSync(p) /\ ~Gate(p)
    BY <2>3, RestType DEF acquireSync, Rested
  <2>4. QED
    BY <2>1, <2>2, <2>3
<1>4. sync' \in [Syncers -> [pc : Pcs, copy : Specs \cup {Absent}]] /\ NoLostWakeup'
  BY <1>2, <1>3, SyncMoves
<1>6. Underway => Underway'
  BY <1>2 DEF Underway
<1>7. QED
  BY <1>1, <1>2, <1>4, <1>6, Quiet

\* A sync ends: it is reported, or not.
LEMMA SyncingStep == ASSUME IInv, NEW p \in Syncers, Syncing(p) PROVE IInv'
<1>1. /\ sync \in [Syncers -> [pc : Pcs, copy : Specs \cup {Absent}]]
      /\ img.spec \in Specs \cup {Absent} /\ watcher \in {"idle", "wake", "notify"}
      /\ queue \in Seq(Specs \cup {Absent})
  BY DEF IInv, Shape
<1>2. /\ sync[p].pc = "busy" /\ sync' = [sync EXCEPT ![p] = Rest]
      /\ UNCHANGED <<pending, wake, watcher>> /\ UNCHANGED <<chan, dropped, watching>>
  BY DEF Syncing, SyncSucceeds, SyncFails, SyncUnreported, releaseSync, Rested, hubVars
<1>3. sync' \in [Syncers -> [pc : Pcs, copy : Specs \cup {Absent}]] /\ NoLostWakeup'
  BY <1>2, RestType, SyncMoves
<1>4. \/ UNCHANGED <<img, queue, behind>>
      \/ \E ok \in BOOLEAN : Emit([img EXCEPT !.fresh = img.fresh \/ ok])
  BY DEF Syncing, SyncSucceeds, SyncFails, SyncUnreported, PatchStatus, hubVars
<1>5. CASE UNCHANGED <<img, queue, behind>>
  BY <1>1, <1>2, <1>3, <1>5, Quiet DEF hubVars, Underway
<1>6. ASSUME NEW ok \in BOOLEAN, Emit([img EXCEPT !.fresh = img.fresh \/ ok]) PROVE IInv'
  <2> DEFINE i == [img EXCEPT !.fresh = img.fresh \/ ok]
  <2>1. i.spec \in Specs \cup {Absent}
    BY <1>1
  <2> HIDE DEF i
  <2>2. Emit(i)
    BY <1>6 DEF i
  <2>3. QED
    BY <1>1, <1>2, <1>3, <2>1, <2>2, Emitted, Together
<1>7. QED
  BY <1>4, <1>5, <1>6

\* The watch: an event is handled, announced, lost with its watch, or listed by the next one.
LEMMA WatchStep == ASSUME IInv, Watcher \/ WatchBreak PROVE IInv'
<1>1. /\ sync \in [Syncers -> [pc : Pcs, copy : Specs \cup {Absent}]]
      /\ img.spec \in Specs \cup {Absent} /\ watcher \in {"idle", "wake", "notify"}
      /\ queue \in Seq(Specs \cup {Absent}) /\ HubShape
  BY DEF IInv, Shape, HubShape
<1>2. CASE WatchEvent
  <2>1. /\ UNCHANGED <<img, wake, sync, watching, hubVars>>
        /\ queue # <<>> /\ queue' = Tail(queue) /\ watcher = "idle"
        /\ watcher' \in {"wake", "notify"} /\ (pending' = pending \/ watcher' = "wake")
    BY <1>2 DEF WatchEvent, OnImageEvent
  <2>2. queue' \in Seq(Specs \cup {Absent})
    BY <1>1, <2>1
  <2>3. NoLostWakeup'
    BY <2>1 DEF IInv, NoLostWakeup
  <2>4. Underway'
    BY <2>1 DEF Underway
  <2>5. QED
    BY <1>1, <2>1, <2>2, <2>3, <2>4, Quiet
<1>3. CASE Wake
  BY <1>1, <1>3, Quiet DEF Wake, IInv, NoLostWakeup, Underway
<1>4. CASE WatchNotify
  <2>1. /\ Notify("images", Everyone) /\ UNCHANGED behind /\ watcher = "notify" /\ watcher' = "idle"
        /\ UNCHANGED <<img, pending, wake, sync, watching, queue>>
    BY <1>4 DEF WatchNotify
  <2>2. "images" \in Kinds
    BY DEF Kinds
  <2>3. /\ HubShape' /\ ClosedIsCurrent'
        /\ \A s \in Streams : behind[s] => dropped'[s] \/ Reached(s, "images")'
    BY <1>1, <2>1, <2>2, NotifyKeeps DEF IInv
  <2>4. NoLostNotification'
    BY <2>1, <2>3 DEF NoLostNotification
  <2>5. NoLostWakeup'
    BY <2>1 DEF IInv, NoLostWakeup
  <2>6. QED
    BY <1>1, <2>1, <2>3, <2>4, <2>5, Together
<1>5. CASE WatchOpen
  <2>1. /\ UNCHANGED <<img, pending, wake, sync, watcher>> /\ UNCHANGED <<chan, behind, dropped>>
        /\ queue' = Relisted
    BY <1>5 DEF WatchOpen, hubVars
  <2>2. queue' \in Seq(Specs \cup {Absent}) /\ (img # NoImage => queue' # <<>>)
    <3>1. <<img.spec>> \in Seq(Specs \cup {Absent}) /\ Len(<<img.spec>>) = 1 /\ Len(<<>>) = 0
      BY <1>1
    <3>2. <<img.spec>> # <<>> /\ <<>> \in Seq(Specs \cup {Absent})
      BY <3>1
    <3>3. QED
      BY <2>1, <3>1, <3>2 DEF Relisted
  <2>3. HubShape' /\ ClosedIsCurrent'
    BY <1>1, <2>1 DEF IInv, HubShape, ClosedIsCurrent, Open
  <2>4. NoLostNotification' /\ NoLostWakeup'
    BY <2>1, <2>2 DEF IInv, NoLostNotification, NoLostWakeup
  <2>5. QED
    BY <1>1, <2>1, <2>2, <2>3, <2>4, Together
<1>6. CASE WatchBreak
  <2>1. /\ UNCHANGED <<img, pending, wake, sync, watcher, hubVars>>
        /\ ~watching' /\ queue' = <<>>
    BY <1>6 DEF WatchBreak
  <2>2. queue' \in Seq(Specs \cup {Absent}) /\ Underway'
    BY <2>1 DEF Underway
  <2>3. NoLostWakeup'
    BY <2>1 DEF IInv, NoLostWakeup
  <2>4. QED
    BY <1>1, <2>1, <2>2, <2>3, Quiet
<1>7. QED
  BY <1>2, <1>3, <1>4, <1>5, <1>6 DEF Watcher

\* The consumer takes the token, then the pending set: never the other way round.
LEMMA ConsumerStep == ASSUME IInv, Consumer PROVE IInv'
<1>1. /\ sync \in [Syncers -> [pc : Pcs, copy : Specs \cup {Absent}]]
      /\ img.spec \in Specs \cup {Absent} /\ watcher \in {"idle", "wake", "notify"}
      /\ queue \in Seq(Specs \cup {Absent}) /\ "consumer" \in Syncers
  BY DEF IInv, Shape, Syncers
<1>2. CASE Woken
  <2> DEFINE r == [sync["consumer"] EXCEPT !.pc = "drain"]
  <2>1. /\ sync' = [sync EXCEPT !["consumer"] = r]
        /\ UNCHANGED <<img, pending, watching, queue, watcher, hubVars>>
    BY <1>2 DEF Woken
  <2>2. r \in [pc : Pcs, copy : Specs \cup {Absent}] /\ r.pc = "drain"
    BY <1>1 DEF Pcs
  <2> HIDE DEF r
  <2>3. sync' \in [Syncers -> [pc : Pcs, copy : Specs \cup {Absent}]] /\ sync'["consumer"].pc = "drain"
    BY <1>1, <2>1, <2>2
  <2>4. NoLostWakeup' /\ (Underway => Underway')
    BY <2>1, <2>3 DEF IInv, NoLostWakeup, Underway
  <2>5. QED
    BY <1>1, <2>1, <2>3, <2>4, Quiet
<1>3. CASE syncPending
  <2>1. /\ pending' = FALSE
        /\ UNCHANGED <<img, watching, queue, watcher, hubVars>>
    BY <1>3 DEF syncPending
  <2>2. \E r \in [pc : Pcs, copy : Specs \cup {Absent}] : sync' = [sync EXCEPT !["consumer"] = r]
    <3>1. [pc |-> "wait", copy |-> img.spec] \in [pc : Pcs, copy : Specs \cup {Absent}]
      BY <1>1 DEF Pcs
    <3>2. QED
      BY <1>3, <3>1, RestType DEF syncPending, Take, Rested
  <2>3. sync' \in [Syncers -> [pc : Pcs, copy : Specs \cup {Absent}]]
    BY <1>1, <2>2
  <2>4. NoLostWakeup' /\ (Underway => Underway')
    BY <2>1 DEF IInv, NoLostWakeup, Underway
  <2>5. QED
    BY <1>1, <2>1, <2>3, <2>4, Quiet
<1>4. QED
  BY <1>2, <1>3 DEF Consumer

\* The process restarts with everything it kept in memory forgotten.
LEMMA RestartStep == ASSUME IInv, Restart PROVE IInv'
<1>1. /\ pending' = FALSE /\ sync' = [p \in Syncers |-> Rest] /\ queue' = <<>> /\ watcher' = "idle"
      /\ chan' = [s \in Streams |-> Off] /\ behind' = [s \in Streams |-> FALSE]
      /\ dropped' = [s \in Streams |-> FALSE] /\ img' = img
  BY DEF Restart
<1>2. HubShape' /\ ClosedIsCurrent' /\ NoLostNotification' /\ NoLostWakeup'
  BY <1>1 DEF HubShape, ClosedIsCurrent, NoLostNotification, NoLostWakeup
<1>3. /\ sync' \in [Syncers -> [pc : Pcs, copy : Specs \cup {Absent}]]
      /\ img'.spec \in Specs \cup {Absent} /\ queue' \in Seq(Specs \cup {Absent})
      /\ watcher' \in {"idle", "wake", "notify"}
  BY <1>1, RestType DEF IInv, Shape
<1>4. QED
  BY <1>2, <1>3, Together

\* A stream opens, closes or is read, or nothing happens.
LEMMA StreamStep == ASSUME IInv, NEW s \in Streams, Streaming(s) PROVE IInv'
<1>1. /\ UNCHANGED <<img, pending, wake, sync, watching, queue, watcher>>
      /\ (Subscribe(s) \/ Cancel(s) \/ Receive(s)) /\ HubShape
  BY DEF Streaming, catVars, IInv, Shape, HubShape
<1>2. /\ HubShape' /\ ClosedIsCurrent'
      /\ \A z \in Streams : behind'[z] => /\ behind[z] /\ (dropped[z] => dropped'[z])
                                          /\ (Reached(z, "images") => Reached(z, "images")')
  BY <1>1, StreamKeeps DEF IInv
<1>3. NoLostNotification'
  BY <1>1, <1>2, NewsIs DEF IInv, NoLostNotification, Underway
<1>4. /\ sync' \in [Syncers -> [pc : Pcs, copy : Specs \cup {Absent}]]
      /\ img'.spec \in Specs \cup {Absent} /\ queue' \in Seq(Specs \cup {Absent})
      /\ watcher' \in {"idle", "wake", "notify"} /\ NoLostWakeup'
  BY <1>1 DEF IInv, Shape, NoLostWakeup
<1>5. QED
  BY <1>2, <1>3, <1>4, Together

\* Nothing happens.
LEMMA StutterStep == ASSUME IInv, UNCHANGED vars PROVE IInv'
  BY DEF vars, catVars, hubVars, IInv, Shape, ClosedIsCurrent, NoLostWakeup,
         NoLostNotification, Open, Reached

\* Every step keeps the invariant.
LEMMA StepIInv == IInv /\ [Next]_vars => IInv'
  BY PeopleStep, TickerStep, SemaphoreStep, SyncingStep, WatchStep, ConsumerStep, RestartStep, StreamStep,
     StutterStep DEF Next, Syncers

\* A name in the pending set always has a token in the wake channel, a consumer about to drain it
\* or a watcher about to send one, whatever edits, faults and restarts happen.
THEOREM WakeupsStay == Spec => []NoLostWakeup
<1>1. IInv => NoLostWakeup
  BY DEF IInv
<1>2. QED
  BY <1>1, InitIInv, StepIInv, PTL DEF Spec

\* A stream that shows an outdated image has the news in its channel, in the watch or in the list
\* of the next watch, for any number of streams and any capacity of their channels.
THEOREM NotificationsStay == Spec => []NoLostNotification
<1>1. IInv => NoLostNotification
  BY DEF IInv
<1>2. QED
  BY <1>1, InitIInv, StepIInv, PTL DEF Spec

-----------------------------------------------------------------------------
(* The semaphore and the types.                                            *)

\* Exactly the syncer that is past the semaphore holds it, and nobody waits
\* for or fetches anything but a source.
Exclusive ==
    \A p \in Syncers : /\ sync[p].pc = "busy" <=> sem = p
                       /\ sync[p].pc \in {"wait", "busy"} => sync[p].copy \in Sources

\* A deletion leaves nothing of the image.
ImageTyped ==
    /\ img \in [spec : Specs \cup {Absent}, fresh : BOOLEAN]
    /\ img.spec = Absent => img = NoImage

RowsTyped == entries \in Sources \cup {None} /\ lastSource \in Sources \cup {Unseen}

WatchTyped ==
    /\ pending \in BOOLEAN /\ wake \in BOOLEAN /\ watching \in BOOLEAN
    /\ Len(queue) <= MaxQueue

\* No channel holds more than its capacity, and only an open stream that is behind missed something.
HubTyped ==
    \A s \in Streams : /\ Open(s) => Len(chan[s]) <= Cap
                       /\ dropped[s] => behind[s] /\ Open(s)

TypeInv == Exclusive /\ ImageTyped /\ RowsTyped /\ WatchTyped /\ HubTyped

\* Together with what the other proofs know, these are the types.
LEMMA TypeInvTypes == IInv /\ TypeInv => TypeOK
<1> SUFFICES ASSUME IInv, TypeInv PROVE TypeOK
  OBVIOUS
<1>1. /\ chan \in [Streams -> Seq(Kinds) \cup {Off}]
      /\ behind \in [Streams -> BOOLEAN] /\ dropped \in [Streams -> BOOLEAN]
      /\ watcher \in {"idle", "wake", "notify"} /\ Cap \in Nat
  BY HubAssumption DEF IInv, Shape
<1>2. ASSUME NEW s \in Streams PROVE chan[s] \in {Off} \cup UNION {[1..n -> Kinds] : n \in 0..Cap}
  <2>1. CASE chan[s] = Off
    BY <2>1
  <2>2. CASE chan[s] # Off
    <3>1. chan[s] \in Seq(Kinds) /\ Len(chan[s]) <= Cap
      BY <1>1, <2>2 DEF TypeInv, HubTyped, Open
    <3>2. chan[s] \in [1..Len(chan[s]) -> Kinds] /\ Len(chan[s]) \in 0..Cap
      BY <1>1, <3>1
    <3>3. QED
      BY <3>2
  <2>3. QED
    BY <2>1, <2>2
<1>3. HubTypeOK
  <2>1. chan \in [Streams -> {Off} \cup UNION {[1..n -> Kinds] : n \in 0..Cap}]
    BY <1>1, <1>2
  <2>2. QED
    BY <1>1, <2>1 DEF HubTypeOK, TypeInv, HubTyped
<1>4. QED
  BY <1>1, <1>3 DEF TypeOK, TypeInv, Exclusive, ImageTyped, RowsTyped, WatchTyped

\* They hold when the process starts.
LEMMA InitTypeInv == Init => TypeInv
<1> SUFFICES ASSUME Init PROVE TypeInv
  OBVIOUS
<1>1. Exclusive
  BY DEF Init, Exclusive, Rest, Syncers, Nobody
<1>2. RowsTyped
  BY CatalogAssumption DEF Init, RowsTyped
<1>3. ImageTyped
  <2>1. CASE img = NoImage
    BY <2>1 DEF ImageTyped, NoImage
  <2>2. CASE \E src \in Left : img = [NoImage EXCEPT !.spec = src]
    BY <2>2, CatalogAssumption DEF ImageTyped, NoImage, Specs
  <2>3. QED
    BY <2>1, <2>2 DEF Init
<1>4. WatchTyped
  <2>1. Len(<<>>) <= MaxQueue
    BY CatalogAssumption
  <2>2. QED
    BY <2>1 DEF Init, WatchTyped
<1>5. HubTyped
  BY DEF Init, HubInit, HubTyped, Open
<1>6. QED
  BY <1>1, <1>2, <1>3, <1>4, <1>5 DEF TypeInv

\* A syncer moves without the semaphore.
LEMMA MovesOutside ==
  ASSUME IInv, Exclusive, NEW p \in Syncers, NEW r \in [pc : Pcs, copy : Specs \cup {Absent}],
         sync' = [sync EXCEPT ![p] = r], sem' = sem, sync[p].pc # "busy", r.pc # "busy",
         r.pc = "wait" => r.copy \in Sources
  PROVE  Exclusive'
  BY DEF IInv, Shape, Exclusive

\* Only a free semaphore is taken, and only its holder gives it back.
LEMMA ExclusiveStays == ASSUME IInv, ImageTyped, Exclusive, [Next]_vars PROVE Exclusive'
<1>1. /\ sync \in [Syncers -> [pc : Pcs, copy : Specs \cup {Absent}]]
      /\ img.spec \in Specs \cup {Absent} /\ {"ticker", "admin", "consumer"} \subseteq Syncers
      /\ {"idle", "wait", "busy", "drain"} \subseteq Pcs
  BY DEF IInv, Shape, Syncers, Pcs
<1>2. CASE UNCHANGED <<sync, sem>>
  BY <1>2 DEF Exclusive
<1>3. ASSUME NEW p \in Syncers, NEW spec \in Specs \cup {Absent}, sync[p].pc # "busy", sem' = sem,
             \/ sync' = [sync EXCEPT ![p] = Rest]
             \/ sync' = [sync EXCEPT ![p] = [pc |-> "wait", copy |-> spec]] /\ spec \in Sources
      PROVE  Exclusive'
  <2>1. CASE sync' = [sync EXCEPT ![p] = Rest]
    BY <1>3, <2>1, RestType, MovesOutside
  <2>2. CASE sync' = [sync EXCEPT ![p] = [pc |-> "wait", copy |-> spec]] /\ spec \in Sources
    <3> DEFINE r == [pc |-> "wait", copy |-> spec]
    <3>1. r \in [pc : Pcs, copy : Specs \cup {Absent}] /\ r.pc = "wait" /\ r.copy \in Sources
      BY <1>1, <2>2
    <3>2. sync' = [sync EXCEPT ![p] = r]
      BY <2>2
    <3> HIDE DEF r
    <3>3. QED
      BY <1>3, <3>1, <3>2, MovesOutside
  <2>3. QED
    BY <1>3, <2>1, <2>2
<1>4. CASE syncAll \/ AdminSyncImage
  BY <1>1, <1>3, <1>4 DEF syncAll, AdminSyncImage, Take, catalogSyncEligible
<1>5. ASSUME NEW spec \in Specs, AdminUpsertImage(spec) PROVE Exclusive'
  <2>1. [img EXCEPT !.spec = spec].spec = spec
    BY DEF IInv, ImageTyped
  <2>2. /\ sync["admin"].pc = "idle" /\ sem' = sem
        /\ \/ sync' = [sync EXCEPT !["admin"] = Rest]
           \/ sync' = [sync EXCEPT !["admin"] = [pc |-> "wait", copy |-> spec]] /\ spec \in Sources
    BY <1>5, <2>1 DEF AdminUpsertImage, catalogSyncEligible
  <2>3. QED
    BY <1>1, <1>3, <2>2
<1>6. CASE SyncBusy
  BY <1>1, <1>3, <1>6 DEF SyncBusy, Rested
<1>7. ASSUME NEW p \in Syncers, acquireSync(p) PROVE Exclusive'
  <2>1. sync[p].pc = "wait" /\ sem = Nobody /\ Nobody \notin Syncers
    BY <1>7 DEF acquireSync, Nobody, Syncers
  <2>2. CASE Gate(p)
    <3>1. sem' = p /\ sync' = [sync EXCEPT ![p].pc = "busy"]
      BY <1>7, <2>2 DEF acquireSync
    <3>2. \A q \in Syncers : /\ q # p => sync'[q] = sync[q]
                             /\ sync'[p].pc = "busy" /\ sync'[p].copy = sync[p].copy
      BY <1>1, <3>1
    <3>3. QED
      BY <2>1, <3>1, <3>2 DEF Exclusive
  <2>3. CASE ~Gate(p)
    BY <1>1, <1>3, <1>7, <2>1, <2>3 DEF acquireSync, Rested
  <2>4. QED
    BY <2>2, <2>3
<1>8. ASSUME NEW p \in Syncers, Syncing(p) PROVE Exclusive'
  <2>1. sync[p].pc = "busy" /\ sem' = Nobody /\ sync' = [sync EXCEPT ![p] = Rest]
    BY <1>8 DEF Syncing, SyncSucceeds, SyncFails, SyncUnreported, releaseSync, Rested
  <2>2. \A q \in Syncers : q # p => sync'[q] = sync[q]
    BY <1>1, <2>1
  <2>3. sync'[p].pc = "idle" /\ Nobody \notin Syncers
    BY <1>1, <2>1 DEF Rest, Nobody, Syncers
  <2>4. QED
    BY <2>1, <2>2, <2>3 DEF Exclusive
<1>9. CASE Woken
  <2> DEFINE r == [sync["consumer"] EXCEPT !.pc = "drain"]
  <2>1. sync["consumer"].pc = "idle" /\ sem' = sem /\ sync' = [sync EXCEPT !["consumer"] = r]
    BY <1>9 DEF Woken
  <2>2. r \in [pc : Pcs, copy : Specs \cup {Absent}] /\ r.pc = "drain"
    BY <1>1
  <2> HIDE DEF r
  <2>3. QED
    BY <1>1, <2>1, <2>2, MovesOutside
<1>10. CASE syncPending
  BY <1>1, <1>3, <1>10 DEF syncPending, Take, Rested, catalogSyncEligible
<1>11. CASE Restart
  BY <1>11 DEF Restart, Exclusive, Rest, Nobody, Syncers
<1>12. QED
  <2>1. CASE People
    BY <1>2, <1>4, <1>5, <2>1 DEF People, Apply, AdminDeleteImage, notifyChange
  <2>2. CASE Tick \/ Watcher \/ WatchBreak
    BY <1>2, <2>2 DEF Tick, Watcher, WatchEvent, Wake, WatchNotify, WatchOpen, WatchBreak
  <2>3. CASE \E s \in Streams : Streaming(s)
    BY <1>2, <2>3 DEF Streaming, catVars
  <2>4. CASE UNCHANGED vars
    BY <1>2, <2>4 DEF vars, catVars
  <2>5. QED
    BY <1>4, <1>6, <1>7, <1>8, <1>9, <1>10, <1>11, <2>1, <2>2, <2>3, <2>4 DEF Next, Consumer

\* The image: a write makes it what a spec or a deletion says.
ImageSteps ==
    \/ UNCHANGED img
    \/ img' = NoImage
    \/ \E spec \in Specs : img' = [img EXCEPT !.spec = spec]
    \/ \E b \in BOOLEAN : img # NoImage /\ img' = [img EXCEPT !.fresh = b]

\* Nothing else writes it.
LEMMA ImageIs == ASSUME ImageTyped, [Next]_vars PROVE ImageSteps
<1>1. CASE People
  BY <1>1 DEF People, Apply, AdminUpsertImage, AdminDeleteImage, AdminSyncImage, notifyChange, Emit,
     ImageSteps
<1>2. CASE Tick
  <2>1. img # NoImage
    BY <1>2 DEF Tick, NoImage
  <2>2. QED
    BY <1>2, <2>1 DEF Tick, ImageSteps
<1>3. ASSUME NEW p \in Syncers, Syncing(p) PROVE ImageSteps
  <2>1. UNCHANGED img \/ \E ok \in BOOLEAN : PatchStatus(ok)
    BY <1>3 DEF Syncing, SyncSucceeds, SyncFails, SyncUnreported
  <2>2. ASSUME NEW ok \in BOOLEAN, PatchStatus(ok) PROVE ImageSteps
    <3>1. \/ UNCHANGED img
          \/ img # NoImage /\ img' = [img EXCEPT !.fresh = img.fresh \/ ok]
      BY <2>2 DEF PatchStatus, Emit
    <3>2. (img.fresh \/ ok) \in BOOLEAN
      OBVIOUS
    <3>3. QED
      BY <3>1, <3>2 DEF ImageSteps
  <2>3. QED
    BY <2>1, <2>2 DEF ImageSteps
<1>4. CASE \/ syncAll \/ SyncBusy \/ \E p \in Syncers : acquireSync(p)
           \/ Watcher \/ Consumer \/ WatchBreak \/ Restart
  BY <1>4 DEF syncAll, SyncBusy, acquireSync, Watcher, WatchEvent, Wake, WatchNotify, WatchOpen,
     Consumer, Woken, syncPending, WatchBreak, Restart, ImageSteps
<1>5. CASE UNCHANGED vars \/ \E s \in Streams : Streaming(s)
  BY <1>5 DEF vars, catVars, Streaming, ImageSteps
<1>6. QED
  BY <1>1, <1>2, <1>3, <1>4, <1>5 DEF Next

\* A step keeps the image one.
LEMMA ImageStaysTyped == ASSUME ImageTyped, [Next]_vars PROVE ImageTyped'
<1>1. /\ img \in [spec : Specs \cup {Absent}, fresh : BOOLEAN]
      /\ img.spec = Absent => img = NoImage
  BY DEF ImageTyped
<1>2. Absent \notin Specs
  BY CatalogAssumption DEF Specs, Absent, NoCatalog
<1>3. CASE UNCHANGED img
  BY <1>1, <1>3 DEF ImageTyped
<1>4. CASE img' = NoImage
  BY <1>4 DEF ImageTyped, NoImage
<1>5. ASSUME NEW spec \in Specs, img' = [img EXCEPT !.spec = spec] PROVE ImageTyped'
  BY <1>1, <1>2, <1>5 DEF ImageTyped
<1>6. ASSUME NEW b \in BOOLEAN, img # NoImage, img' = [img EXCEPT !.fresh = b] PROVE ImageTyped'
  BY <1>1, <1>6 DEF ImageTyped
<1>7. QED
  BY <1>3, <1>4, <1>5, <1>6, ImageIs DEF ImageSteps

\* The rows and the record of what was attempted name sources: only those are fetched.
LEMMA RowsStayTyped == ASSUME Exclusive, RowsTyped, [Next]_vars PROVE RowsTyped'
<1>1. CASE UNCHANGED <<entries, lastSource>>
  BY <1>1 DEF RowsTyped
<1>2. ASSUME NEW p \in Syncers, acquireSync(p) PROVE RowsTyped'
  BY <1>2 DEF acquireSync, Recorded, Exclusive, RowsTyped
<1>3. ASSUME NEW p \in Syncers, Syncing(p) PROVE RowsTyped'
  BY <1>3 DEF Syncing, SyncSucceeds, SyncFails, SyncUnreported, Recorded, Exclusive, RowsTyped
<1>4. CASE Restart \/ WatchEvent
  BY <1>4 DEF Restart, WatchEvent, OnImageEvent, RowsTyped
<1>5. CASE People
  BY <1>1, <1>5 DEF People, Apply, AdminUpsertImage, AdminDeleteImage, AdminSyncImage, notifyChange
<1>6. CASE Tick \/ syncAll \/ SyncBusy \/ Wake \/ WatchNotify \/ WatchOpen \/ Consumer \/ WatchBreak
  BY <1>1, <1>6 DEF Tick, syncAll, SyncBusy, Wake, WatchNotify, WatchOpen, Consumer, Woken,
     syncPending, WatchBreak
<1>7. CASE UNCHANGED vars \/ \E s \in Streams : Streaming(s)
  BY <1>1, <1>7 DEF vars, catVars, Streaming
<1>8. QED
  BY <1>2, <1>3, <1>4, <1>5, <1>6, <1>7 DEF Next, Watcher

\* What an event does to the watch.
LEMMA EventFits ==
  ASSUME IInv, ImageTyped, WatchTyped, NEW i, i.spec \in Specs \cup {Absent}, Room, Emit(i)
  PROVE  Len(queue') <= MaxQueue
<1> DEFINE all == Specs \cup {Absent}
<1>1. queue \in Seq(all) /\ i.spec \in all /\ MaxQueue \in Nat
  BY CatalogAssumption DEF IInv, Shape
<1> HIDE DEF all
<1>2. Len(Append(queue, i.spec)) = Len(queue) + 1 /\ Len(queue) \in Nat
  BY <1>1
<1>3. QED
  BY <1>1, <1>2 DEF Emit, Room, WatchTyped

\* A step keeps the watch within its bounds.
LEMMA WatchStaysTyped == ASSUME IInv, ImageTyped, WatchTyped, [Next]_vars PROVE WatchTyped'
<1>1. CASE UNCHANGED <<pending, wake, watching, queue>>
  BY <1>1 DEF WatchTyped
<1>2. ASSUME NEW i, i.spec \in Specs \cup {Absent}, Room, Emit(i), UNCHANGED <<pending, wake, watching>>
      PROVE  WatchTyped'
  BY <1>2, EventFits DEF WatchTyped
<1>3. img \in [spec : Specs \cup {Absent}, fresh : BOOLEAN]
  BY DEF ImageTyped
<1>4. CASE People
  <2>1. ASSUME NEW spec \in Specs, Apply(spec) \/ AdminUpsertImage(spec) PROVE WatchTyped'
    <3>1. [img EXCEPT !.spec = spec].spec = spec
      BY <1>3
    <3>2. QED
      BY <1>2, <2>1, <3>1 DEF Apply, AdminUpsertImage, Edit
  <2>2. CASE AdminDeleteImage
    BY <1>2, <2>2 DEF AdminDeleteImage, Edit, NoImage
  <2>3. CASE AdminSyncImage \/ \E u \in Users : notifyChange(u)
    BY <1>1, <2>3 DEF AdminSyncImage, notifyChange
  <2>4. QED
    BY <1>4, <2>1, <2>2, <2>3 DEF People
<1>5. ASSUME NEW p \in Syncers, Syncing(p) PROVE WatchTyped'
  <2>1. UNCHANGED <<pending, wake, watching>>
    BY <1>5 DEF Syncing, SyncSucceeds, SyncFails, SyncUnreported
  <2>2. \/ UNCHANGED queue
        \/ \E ok \in BOOLEAN : Room /\ Emit([img EXCEPT !.fresh = img.fresh \/ ok])
    BY <1>5 DEF Syncing, SyncSucceeds, SyncFails, SyncUnreported, PatchStatus
  <2>3. \A b : [img EXCEPT !.fresh = b].spec = img.spec
    BY <1>3
  <2>4. QED
    BY <1>1, <1>2, <1>3, <2>1, <2>2, <2>3
<1>6. CASE WatchEvent
  <2>1. queue # <<>> /\ queue' = Tail(queue) /\ UNCHANGED <<wake, watching>> /\ pending' \in {pending, TRUE}
    BY <1>6 DEF WatchEvent, OnImageEvent
  <2>2. Len(Tail(queue)) = Len(queue) - 1 /\ Len(queue) \in Nat /\ MaxQueue \in Nat
    BY <2>1, CatalogAssumption DEF IInv, Shape
  <2>3. Len(queue') <= MaxQueue
    BY <2>1, <2>2 DEF WatchTyped
  <2>4. pending' \in BOOLEAN /\ wake' \in BOOLEAN /\ watching' \in BOOLEAN
    BY <2>1 DEF WatchTyped
  <2>5. QED
    BY <2>3, <2>4 DEF WatchTyped
<1>7. CASE WatchOpen
  <2>1. Len(Relisted) <= 1 /\ MaxQueue \in Nat /\ MaxQueue >= 1
    BY CatalogAssumption DEF Relisted
  <2>2. Len(Relisted) \in Nat
    BY DEF Relisted
  <2>3. QED
    BY <1>7, <2>1, <2>2 DEF WatchOpen, WatchTyped
<1>8. CASE WatchBreak \/ Restart
  <2>1. Len(<<>>) <= MaxQueue
    BY CatalogAssumption
  <2>2. QED
    BY <1>8, <2>1 DEF WatchBreak, Restart, WatchTyped
<1>9. CASE Wake \/ WatchNotify \/ Consumer
  BY <1>9 DEF Wake, WatchNotify, Consumer, Woken, syncPending, WatchTyped
<1>10. CASE Tick \/ syncAll \/ SyncBusy \/ \E p \in Syncers : acquireSync(p)
  BY <1>1, <1>10 DEF Tick, syncAll, SyncBusy, acquireSync
<1>11. CASE UNCHANGED vars \/ \E s \in Streams : Streaming(s)
  BY <1>1, <1>11 DEF vars, catVars, Streaming
<1>12. QED
  BY <1>4, <1>5, <1>6, <1>7, <1>8, <1>9, <1>10, <1>11 DEF Next, Watcher

\* Notify sends nothing to a full channel.
LEMMA NotifyFits ==
  ASSUME IInv, HubTyped, NEW kind \in Kinds, NEW owner, Notify(kind, owner), UNCHANGED behind
  PROVE  HubTyped'
<1> DEFINE told == {s \in Streams : Open(s) /\ Concerned(s, owner)}
           full == {s \in told : Len(chan[s]) = Cap}
<1>1. /\ chan' = [s \in Streams |-> IF s \in told \ full THEN Append(chan[s], kind) ELSE chan[s]]
      /\ dropped' = [s \in Streams |->
                       dropped[s] \/ (kind = Watched /\ behind[s] /\ s \in full /\ ~Reached(s, kind))]
  BY DEF Notify
<1>2. Cap \in Nat /\ chan \in [Streams -> Seq(Kinds) \cup {Off}] /\ HubShape /\ ClosedIsCurrent
  BY HubAssumption DEF IInv, Shape, HubShape
<1>3. \A s \in Streams : Open(s)' = Open(s)
  BY <1>2, NotifyKeeps
<1>4. ASSUME NEW s \in Streams, Open(s) PROVE Len(chan'[s]) <= Cap
  <2>1. chan[s] \in Seq(Kinds) /\ Len(chan[s]) \in Nat /\ Len(chan[s]) <= Cap
        /\ Len(Append(chan[s], kind)) = Len(chan[s]) + 1
    BY <1>2, <1>4 DEF Open, HubTyped
  <2>2. CASE s \in told \ full
    BY <1>1, <1>2, <2>1, <2>2
  <2>3. CASE s \notin told \ full
    BY <1>1, <2>1, <2>3
  <2>4. QED
    BY <2>2, <2>3
<1>5. ASSUME NEW s \in Streams, dropped'[s] PROVE behind[s] /\ Open(s)
  BY <1>1, <1>5 DEF HubTyped
<1>6. QED
  BY <1>3, <1>4, <1>5 DEF HubTyped

\* A step keeps every channel within its capacity.
LEMMA HubStaysTyped == ASSUME IInv, HubTyped, [Next]_vars PROVE HubTyped'
<1>1. /\ Cap \in Nat /\ chan \in [Streams -> Seq(Kinds) \cup {Off}]
      /\ behind \in [Streams -> BOOLEAN] /\ dropped \in [Streams -> BOOLEAN]
  BY HubAssumption DEF IInv, Shape
<1>2. CASE UNCHANGED hubVars
  BY <1>2 DEF hubVars, HubTyped, Open
<1>3. ASSUME NEW i, Emit(i), UNCHANGED <<chan, dropped>> PROVE HubTyped'
  <2>1. behind' = [s \in Streams |-> behind[s] \/ Open(s)]
    BY <1>3 DEF Emit, Changed
  <2>2. QED
    BY <1>3, <2>1 DEF HubTyped, Open
<1>4. CASE People
  <2>1. ASSUME NEW u \in Users, notifyChange(u) PROVE HubTyped'
    BY <2>1, NotifyFits DEF notifyChange, Kinds
  <2>2. CASE AdminDeleteImage \/ \E spec \in Specs : Apply(spec) \/ AdminUpsertImage(spec)
    BY <1>3, <2>2 DEF AdminDeleteImage, Apply, AdminUpsertImage
  <2>3. CASE AdminSyncImage
    BY <1>2, <2>3 DEF AdminSyncImage
  <2>4. QED
    BY <1>4, <2>1, <2>2, <2>3 DEF People
<1>5. ASSUME NEW p \in Syncers, Syncing(p) PROVE HubTyped'
  <2>1. \/ UNCHANGED hubVars
        \/ UNCHANGED <<chan, dropped>> /\ \E i : Emit(i)
    BY <1>5 DEF Syncing, SyncSucceeds, SyncFails, SyncUnreported, PatchStatus, hubVars
  <2>2. QED
    BY <1>2, <1>3, <2>1
<1>6. CASE WatchNotify
  BY <1>6, NotifyFits DEF WatchNotify, Kinds
<1>7. CASE Restart
  BY <1>7 DEF Restart, HubTyped, Open
<1>8. ASSUME NEW s \in Streams, Subscribe(s) \/ Cancel(s) \/ Receive(s) PROVE HubTyped'
  <2>1. CASE Subscribe(s)
    <3>1. /\ chan' = [chan EXCEPT ![s] = <<>>] /\ UNCHANGED <<behind, dropped>> /\ ~Open(s)
          /\ Len(<<>>) = 0
      BY <2>1 DEF Subscribe
    <3>2. QED
      BY <1>1, <3>1 DEF HubTyped, Open
  <2>2. CASE Cancel(s)
    BY <1>1, <2>2 DEF Cancel, HubTyped, Open
  <2>3. CASE Receive(s)
    <3>1. /\ chan[s] \in Seq(Kinds) /\ chan[s] # <<>> /\ chan' = [chan EXCEPT ![s] = Tail(chan[s])]
          /\ behind' = [behind EXCEPT ![s] = behind[s] /\ Head(chan[s]) # Watched]
          /\ dropped' = [dropped EXCEPT ![s] = dropped[s] /\ Head(chan[s]) # Watched]
      BY <1>1, <2>3 DEF Receive, Open
    <3>2. Tail(chan[s]) \in Seq(Kinds) /\ Len(Tail(chan[s])) = Len(chan[s]) - 1 /\ Len(chan[s]) \in Nat
      BY <3>1
    <3>3. Tail(chan[s]) # Off
      BY <3>2, OffIsNoChannel
    <3>4. \A z \in Streams : z # s => /\ chan'[z] = chan[z] /\ behind'[z] = behind[z]
                                      /\ dropped'[z] = dropped[z]
      BY <1>1, <3>1
    <3>5. /\ chan'[s] = Tail(chan[s]) /\ (dropped'[s] => dropped[s] /\ Head(chan[s]) # Watched)
          /\ (behind[s] /\ Head(chan[s]) # Watched => behind'[s])
      BY <1>1, <3>1
    <3>6. Open(s) /\ Len(chan[s]) <= Cap
      BY <2>3 DEF Receive, HubTyped
    <3>7. \A z \in Streams : z # s => (Open(z)' <=> Open(z))
      BY <3>4 DEF Open
    <3>8. Len(chan'[s]) <= Cap /\ Open(s)'
      BY <1>1, <3>2, <3>3, <3>5, <3>6 DEF Open
    <3>9. QED
      BY <3>4, <3>5, <3>6, <3>7, <3>8 DEF HubTyped
  <2>4. QED
    BY <1>8, <2>1, <2>2, <2>3
<1>9. CASE \/ Tick \/ syncAll \/ SyncBusy \/ WatchEvent \/ Wake \/ WatchOpen \/ Consumer \/ WatchBreak
           \/ \E p \in Syncers : acquireSync(p)
  BY <1>2, <1>9 DEF Tick, syncAll, SyncBusy, WatchEvent, Wake, WatchOpen, Consumer, Woken, syncPending,
     WatchBreak, acquireSync
<1>10. CASE \E s \in Streams : Streaming(s)
  BY <1>8, <1>10 DEF Streaming
<1>11. CASE UNCHANGED vars
  BY <1>2, <1>11 DEF vars
<1>12. QED
  BY <1>4, <1>5, <1>6, <1>7, <1>9, <1>10, <1>11 DEF Next, Watcher

\* Every step keeps the types.
LEMMA TypeInvStays == IInv /\ TypeInv /\ [Next]_vars => TypeInv'
  BY ExclusiveStays, ImageStaysTyped, RowsStayTyped, WatchStaysTyped, HubStaysTyped DEF TypeInv

\* The types, for any number of streams and sources: in them, that one sync runs at a time and its
\* runner is who holds the semaphore, and that no channel and no watch is over its capacity
\* (catalog_sync_worker.go acquireSync, releaseSync; event_hub.go Notify).
THEOREM TypesHold == Spec => []TypeOK
  BY InitIInv, StepIInv, InitTypeInv, TypeInvStays, TypeInvTypes, PTL DEF Spec
=============================================================================
