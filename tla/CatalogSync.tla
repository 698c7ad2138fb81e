----------------------------- MODULE CatalogSync -----------------------------
(***************************************************************************)
(* The catalog synchronisation of the api-server                           *)
(* (service/catalog_sync_worker.go, the image calls of                     *)
(* service/governance_service.go, repository/catalog_sql.go), riding the   *)
(* image watch of the event hub.                                           *)
(*                                                                         *)
(* One WorkspaceImage.  Its catalog entries are copied from the source its *)
(* spec names by three syncers that share a semaphore: the ticker, the     *)
(* administrator's calls, and the consumer of watch events.  A syncer      *)
(* works on the copy of the image it read before it waited.                *)
(***************************************************************************)
EXTENDS EventHub, FiniteSets

CONSTANTS
    Sources,             \* catalog sources a spec can name
    Left,                \* those the image may have when the process starts
    Ticking,             \* is catalogSyncInterval positive?
    MaxEdits,            \* bound: calls and edits by people
    MaxQueue,            \* bound: watch events in flight
    MaxFaults            \* bound: failed writes and reads, broken watches, restarts

Absent == "absent"       \* no such image

ASSUME CatalogAssumption ==
    /\ Ticking \in BOOLEAN /\ MaxEdits \in Nat /\ MaxQueue \in Nat \ {0} /\ MaxFaults \in Nat
    /\ Absent \notin Sources /\ Left \subseteq Sources

NoCatalog == "nocatalog" \* exact-image mode, or no spec.catalog
Unseen == "unseen"       \* not in lastSource
None == "none"

Specs    == Sources \cup {NoCatalog}
Syncers  == {"ticker", "admin", "consumer"}
Nobody   == "nobody"

VARIABLES
    img,       \* the image: its spec, and whether lastSyncTime is this very second
    entries,   \* the source the catalog_entries rows were read from
    lastSource,
    pending,   \* the image's name is in the pending set
    wake,      \* the wake channel holds a token
    sem,       \* who holds syncSem
    sync,      \* the syncers: pc, the spec in their copy of the image
    watching,  \* is the image watch open?
    queue,     \* its undelivered events
    watcher,   \* where the watch goroutine is in the handling of an event
    edits, faults

catVars == <<img, entries, lastSource, pending, wake, sem, sync, watching, queue, watcher, edits,
             faults>>
vars    == <<catVars, hubVars>>

NoImage == [spec |-> Absent, fresh |-> FALSE]
Rest    == [pc |-> "idle", copy |-> Absent]

\* The registry mode and a catalog block.
catalogSyncEligible(spec) == spec \in Sources

sourceChanged(spec) == lastSource # spec

----------------------------------------------------------------------------
(* The cluster: every write that changes the image is an event of the      *)
(* watch, if one is open.  An event is the spec it carries, Absent for a   *)
(* deletion.  Streams that show the image are now behind.                  *)

Emit(i) ==
    /\ img' = i
    /\ queue' = IF watching THEN Append(queue, i.spec) ELSE queue
    /\ Changed

Room == ~watching \/ Len(queue) < MaxQueue

Edit == edits < MaxEdits /\ Room /\ edits' = edits + 1

\* kubectl or GitOps creates the image or changes its spec.
Apply(spec) ==
    /\ Edit /\ img.spec # spec
    /\ Emit([img EXCEPT !.spec = spec])
    /\ UNCHANGED <<entries, lastSource, pending, wake, sem, sync, watching, watcher, faults, chan,
                   dropped>>

\* AdminDeleteImage, or kubectl delete: the rows stay.
AdminDeleteImage ==
    /\ Edit /\ img # NoImage
    /\ Emit(NoImage)
    /\ UNCHANGED <<entries, lastSource, pending, wake, sem, sync, watching, watcher, faults, chan,
                   dropped>>

\* metav1.Time has whole seconds: a second goes by.
Tick ==
    /\ img.fresh
    /\ img' = [img EXCEPT !.fresh = FALSE]
    /\ UNCHANGED <<entries, lastSource, pending, wake, sem, sync, watching, queue, watcher, edits,
                   faults, hubVars>>

Fault == faults < MaxFaults /\ faults' = faults + 1

----------------------------------------------------------------------------
(* The syncers *)

Take(p, pc) == sync' = [sync EXCEPT ![p] = [pc |-> pc, copy |-> img.spec]]
Rested(p)   == sync' = [sync EXCEPT ![p] = Rest]

syncAll ==
    /\ Ticking /\ sync["ticker"].pc = "idle" /\ catalogSyncEligible(img.spec)
    /\ Take("ticker", "wait")
    /\ UNCHANGED <<img, entries, lastSource, pending, wake, sem, watching, queue, watcher, edits,
                   faults, hubVars>>

\* AdminSyncImage: the image is read, then handed to SyncNow.
AdminSyncImage ==
    /\ sync["admin"].pc = "idle" /\ catalogSyncEligible(img.spec)
    /\ edits < MaxEdits /\ edits' = edits + 1
    /\ Take("admin", "wait")
    /\ UNCHANGED <<img, entries, lastSource, pending, wake, sem, watching, queue, watcher, faults,
                   hubVars>>

\* Creation syncs; an update only when the catalog block moved.
needsSync(old, new) == old # new \/ ~catalogSyncEligible(old)

\* The same spec again is AdminSetImageEnabled or an edit of display fields.  A write that
\* slips between the call's read and its update is a conflict: the call fails, no effect.
AdminUpsertImage(spec) ==
    LET new == [img EXCEPT !.spec = spec]
    IN  /\ sync["admin"].pc = "idle" /\ Edit
        /\ Emit(new)
        /\ sync' = [sync EXCEPT !["admin"] =
                       IF needsSync(img.spec, spec) /\ catalogSyncEligible(new.spec)
                       THEN [pc |-> "wait", copy |-> new.spec] ELSE Rest]
        /\ UNCHANGED <<entries, lastSource, pending, wake, sem, watching, watcher, faults,
                       chan, dropped>>

\* SyncNow's deadline ends the wait behind another sync: errSyncBusy.
SyncBusy ==
    /\ sync["admin"].pc = "wait" /\ sem # Nobody
    /\ Rested("admin")
    /\ UNCHANGED <<img, entries, lastSource, pending, wake, sem, watching, queue, watcher, edits,
                   faults, hubVars>>

\* Mutant of Gate: every syncer asks for a new source.
GateForAll(p) == sourceChanged(sync[p].copy)

\* syncIfSourceChanged evaluates the source under the semaphore; the others do not ask.
Gate(p) == p = "consumer" => sourceChanged(sync[p].copy)

\* Mutant of Recorded: only what could be fetched is recorded.
RecordedIfFetched(p, moment) == IF moment = "success" THEN sync[p].copy ELSE lastSource

\* recordSource: the attempted source when the sync starts, success and failure alike.
Recorded(p, moment) == IF moment = "start" THEN sync[p].copy ELSE lastSource

(* acquireSync and the start of syncLocked: the attempted source is        *)
(* recorded before anything else.  A consumer that is not let through      *)
(* gives the semaphore back.                                               *)
acquireSync(p) ==
    /\ sync[p].pc = "wait" /\ sem = Nobody
    /\ IF Gate(p)
       THEN /\ sem' = p
            /\ lastSource' = Recorded(p, "start")
            /\ sync' = [sync EXCEPT ![p].pc = "busy"]
       ELSE Rested(p) /\ UNCHANGED <<sem, lastSource>>
    /\ UNCHANGED <<img, entries, pending, wake, watching, queue, watcher, edits, faults, hubVars>>

releaseSync(p) == sem' = Nobody /\ Rested(p)

(* The status patch finds no image after a deletion, and is an event only  *)
(* where it changes something: a lastSyncTime of another second, or an     *)
(* error message other than the last one.                                  *)
PatchStatus(ok) ==
    \/ img # NoImage /\ ~(ok /\ img.fresh) /\ Room /\ Emit([img EXCEPT !.fresh = @ \/ ok])
    \/ (img = NoImage \/ ~ok \/ img.fresh) /\ UNCHANGED <<img, queue, behind>>

(* The rest of syncLocked.  The fetch reads no state of this model and the *)
(* rows are read by none of its steps, so the fetch, the replacement and   *)
(* the patch are one step, at the moment of the patch.                     *)

\* A manifest this parser understands: the rows are replaced in one transaction.
SyncSucceeds(p) ==
    /\ sync[p].pc = "busy"
    /\ entries' = sync[p].copy
    /\ lastSource' = Recorded(p, "success")
    /\ PatchStatus(TRUE)
    /\ releaseSync(p)
    /\ UNCHANGED <<pending, wake, watching, watcher, edits, faults, chan,
                   dropped>>

\* The fetch, the read of a token, a key or a map, or the parser fails, as often as
\* the source likes.
SyncFails(p) ==
    /\ sync[p].pc = "busy"
    /\ lastSource' = Recorded(p, "failure")
    /\ PatchStatus(FALSE)
    /\ releaseSync(p)
    /\ UNCHANGED <<entries, pending, wake, watching, watcher, edits, faults, chan, dropped>>

\* The transaction or the patch fails: no event follows.
SyncUnreported(p) ==
    /\ sync[p].pc = "busy" /\ Fault
    /\ entries' \in {entries, sync[p].copy}
    /\ lastSource' = Recorded(p, "failure")
    /\ releaseSync(p)
    /\ UNCHANGED <<img, queue, pending, wake, watching, watcher, edits, hubVars>>

----------------------------------------------------------------------------
(* The watch goroutine and the consumer of its requests *)

\* Mutant of OnImageEvent: a consumer at work is not woken.
OnImageEventBusy(ev) ==
    IF ~catalogSyncEligible(ev)
    THEN lastSource' = Unseen /\ UNCHANGED pending /\ watcher' = "notify"
    ELSE IF sourceChanged(ev)
    THEN /\ UNCHANGED lastSource /\ pending' = TRUE
         /\ watcher' = IF sync["consumer"] = Rest THEN "wake" ELSE "notify"
    ELSE UNCHANGED <<lastSource, pending>> /\ watcher' = "notify"

\* The observer: forget the source, or put the name into the pending set.
OnImageEvent(ev) ==
    IF ~catalogSyncEligible(ev)
    THEN lastSource' = Unseen /\ UNCHANGED pending /\ watcher' = "notify"
    ELSE IF sourceChanged(ev)
    THEN UNCHANGED lastSource /\ pending' = TRUE /\ watcher' = "wake"
    ELSE UNCHANGED <<lastSource, pending>> /\ watcher' = "notify"

WatchEvent ==
    /\ watching /\ watcher = "idle" /\ queue # <<>>
    /\ OnImageEvent(Head(queue))
    /\ queue' = Tail(queue)
    /\ UNCHANGED <<img, entries, wake, sem, sync, watching, edits, faults, hubVars>>

\* The second half of enqueue: a token that is already there is enough.
Wake ==
    /\ watcher = "wake"
    /\ wake' = TRUE
    /\ watcher' = "notify"
    /\ UNCHANGED <<img, entries, lastSource, pending, sem, sync, watching, queue, edits, faults,
                   hubVars>>

WatchNotify ==
    /\ watcher = "notify"
    /\ Notify("images", Everyone)
    /\ watcher' = "idle"
    /\ UNCHANGED <<img, entries, lastSource, pending, wake, sem, sync, watching, queue, edits,
                   faults, behind>>

\* A broken watch loses what it had not delivered.
WatchBreak ==
    /\ watching /\ Fault
    /\ watching' = FALSE
    /\ queue' = <<>>
    /\ UNCHANGED <<img, entries, lastSource, pending, wake, sem, sync, watcher, edits,
                   hubVars>>

\* Mutant of Relisted: a new watch starts from now on.
RelistedNothing == <<>>

\* A watch without a resource version starts with every image there is.
Relisted == IF img = NoImage THEN <<>> ELSE <<img.spec>>

WatchOpen ==
    /\ ~watching /\ watcher = "idle"
    /\ watching' = TRUE
    /\ queue' = Relisted
    /\ UNCHANGED <<img, entries, lastSource, pending, wake, sem, sync, watcher, edits, faults,
                   hubVars>>

\* RunEventSync receives the token.
Woken ==
    /\ sync["consumer"].pc = "idle" /\ wake
    /\ wake' = FALSE
    /\ sync' = [sync EXCEPT !["consumer"].pc = "drain"]
    /\ UNCHANGED <<img, entries, lastSource, pending, sem, watching, queue, watcher, edits,
                   faults, hubVars>>

\* drainPending and the read of syncPending, which may fail or find no image.
syncPending ==
    /\ sync["consumer"].pc = "drain"
    /\ pending' = FALSE
    /\ \/ /\ pending /\ catalogSyncEligible(img.spec)
          /\ Take("consumer", "wait")
          /\ UNCHANGED faults
       \/ /\ ~pending \/ ~catalogSyncEligible(img.spec)
          /\ Rested("consumer")
          /\ UNCHANGED faults
       \/ /\ pending /\ Fault
          /\ Rested("consumer")
    /\ UNCHANGED <<img, entries, lastSource, wake, sem, watching, queue, watcher, edits,
                   hubVars>>

\* The process stops and starts again: only the cluster and the database remember.
Restart ==
    /\ Fault
    /\ lastSource' = Unseen
    /\ pending' = FALSE /\ wake' = FALSE /\ sem' = Nobody
    /\ sync' = [p \in Syncers |-> Rest]
    /\ watching' = FALSE /\ queue' = <<>> /\ watcher' = "idle"
    /\ chan' = [s \in Streams |-> Off]
    /\ behind' = [s \in Streams |-> FALSE]
    /\ dropped' = [s \in Streams |-> FALSE]
    /\ UNCHANGED <<img, entries, edits>>

----------------------------------------------------------------------------
(* The process starts: on an empty cluster, or on what an earlier process  *)
(* left.                                                                   *)
Init ==
    /\ HubInit
    /\ \/ img = NoImage /\ entries = None
       \/ \E src \in Left : img = [NoImage EXCEPT !.spec = src] /\ entries = src
    /\ lastSource = Unseen
    /\ pending = FALSE /\ wake = FALSE /\ sem = Nobody
    /\ sync = [p \in Syncers |-> Rest]
    /\ watching = FALSE /\ queue = <<>> /\ watcher = "idle"
    /\ edits = 0 /\ faults = 0

\* Create, Update and Delete of a remote workspace end in notifyChange.
notifyChange(owner) ==
    /\ Edit
    /\ Notify("remote-workspaces", owner)
    /\ UNCHANGED <<img, entries, lastSource, pending, wake, sem, sync, watching, queue, watcher,
                   faults, behind>>

Streaming(s) == (Subscribe(s) \/ Cancel(s) \/ Receive(s)) /\ UNCHANGED catVars

People ==
    \/ \E spec \in Specs : Apply(spec) \/ AdminUpsertImage(spec)
    \/ AdminDeleteImage
    \/ AdminSyncImage
    \/ \E u \in Users : notifyChange(u)

Syncing(p) == SyncSucceeds(p) \/ SyncFails(p) \/ SyncUnreported(p)

Watcher == WatchEvent \/ Wake \/ WatchNotify \/ WatchOpen
Consumer == Woken \/ syncPending

Next ==
    \/ People
    \/ Tick
    \/ syncAll
    \/ SyncBusy
    \/ \E p \in Syncers : acquireSync(p) \/ Syncing(p)
    \/ Watcher
    \/ Consumer
    \/ WatchBreak
    \/ Restart
    \/ \E s \in Streams : Streaming(s)

Spec == Init /\ [][Next]_vars

(* The goroutines run: the ticker fires, a sync that has the semaphore     *)
(* ends (its fetch has a time-out), the watch goroutine is reopened after  *)
(* its back-off and reads on.  A channel queues its senders in order, so   *)
(* the ticker gets the semaphore among other waiters.                      *)
Fairness ==
    /\ WF_vars(syncAll) /\ WF_vars(Watcher) /\ WF_vars(Consumer)
    /\ SF_vars(acquireSync("ticker"))
    /\ WF_vars(\E p \in Syncers : Syncing(p))

FairSpec == Spec /\ Fairness

\* Without the ticker, the turns of the other waiters matter.
FairTurns == FairSpec /\ \A p \in Syncers : SF_vars(acquireSync(p))

----------------------------------------------------------------------------
(* Types; the semaphore is held by exactly the syncer that is past it.     *)
TypeOK ==
    /\ HubTypeOK
    /\ img \in [spec : Specs \cup {Absent}, fresh : BOOLEAN]
    /\ img.spec = Absent => img = NoImage
    /\ entries \in Sources \cup {None}
    /\ lastSource \in Sources \cup {Unseen}
    /\ pending \in BOOLEAN /\ wake \in BOOLEAN /\ watching \in BOOLEAN
    /\ watcher \in {"idle", "wake", "notify"}
    /\ \A p \in Syncers : sync[p].pc = "busy" <=> sem = p
    /\ Len(queue) <= MaxQueue

(* "The wake channel only needs capacity 1 to guarantee the consumer runs  *)
(* after the last enqueue": a name in the pending set has a token in the   *)
(* channel, a consumer about to drain it, or a watcher about to send one.  *)
NoLostWakeup == pending => wake \/ sync["consumer"].pc = "drain" \/ watcher = "wake"

(* Watch events do not keep the event path at work: once the edits are     *)
(* over it rests, though a source fails for ever and every failure is      *)
(* reported in the status, which is an event of the watch again ("what     *)
(* keeps OnImageEvent from turning a failed fetch into a hot retry loop"). *)
EventPathRests == <>[](sync["consumer"].pc # "busy")

(* A stream that shows an outdated image has the news on its way: in its   *)
(* channel, in the watch, or in the list the next watch begins with.  A    *)
(* deletion the watch missed and a full channel are the exceptions.        *)
NoLostNotification ==
    \A s \in Streams :
        Open(s) /\ behind[s] /\ img # NoImage /\ ~dropped[s] =>
            Reached(s, "images") \/ queue # <<>> \/ ~watching \/ watcher # "idle"

\* From some time on no sync fails; until then they fail as often as they like.
FailuresEnd == <>[][\A p \in Syncers : ~SyncFails(p)]_vars

(* While the ticker runs, the rows follow the spec: once the edits are     *)
(* over, and unless the source fails for ever, the entries are those of    *)
(* its source for good, whatever failed before and whichever copies of the *)
(* image were overtaken.                                                   *)
EntriesConverge == FailuresEnd => <>[](img.spec \in Sources => entries = img.spec)

----------------------------------------------------------------------------
(* What comments say and the code does not give.                           *)

(* A slow consumer just coalesces into its pending notification.           *)
Coalesces == \A s \in Streams : ~dropped[s]

(* The tracking map cannot outgrow the live images: once everything is at  *)
(* rest, a source is remembered only for an image that exists.             *)
Tracked ==
    (watching /\ queue = <<>> /\ watcher = "idle" /\ \A p \in Syncers : sync[p] = Rest)
        => (img = NoImage => lastSource = Unseen)

=============================================================================
