------------------------------ MODULE Schedule ------------------------------
(***************************************************************************)
(* The cron schedule evaluator shared by the operator and the api-server   *)
(* (operator/pkg/schedule/schedule.go).                                    *)
(*                                                                         *)
(* Instants are naturals.  A parsed cron expression is the set of instants *)
(* at which it fires; a schedule is a record of two lists of crons, in the *)
(* order in which the template declares them.  Time zones and the parsing  *)
(* of expressions are abstracted away: the list holds what parseAll keeps. *)
(***************************************************************************)
EXTENDS Integers, Sequences

CONSTANT ScanHorizon      \* how far back lastOf looks (8 days in the code)

ASSUME ScanHorizonAssumption == ScanHorizon \in Nat \ {0}

\* The zero time.Time and the nil *time.Time.
NoTime == -1

\* The least, resp. greatest, element of a set of instants that has one.
Earliest(S) == CHOOSE x \in S : \A y \in S : x <= y
Latest(S) == CHOOSE x \in S : \A y \in S : y <= x

\* The activations of a cron after t, and its activations in the window
\* that the forward scan of lastOf walks through.
After(cron, t) == {x \in cron : x > t}
Within(cron, t) == {x \in cron : t - ScanHorizon < x /\ x <= t}

\* cron.Schedule.Next (robfig/cron): the first activation after t.
NextFire(cron, t) ==
  IF After(cron, t) = {} THEN NoTime ELSE Earliest(After(cron, t))

\* nextOf: the earliest of the crons' next activations.
nextOf(crons, t) ==
  LET fires == {NextFire(crons[i], t) : i \in DOMAIN crons} \ {NoTime}
  IN IF fires = {} THEN NoTime ELSE Earliest(fires)

\* lastOf: every cron of the list that fires in the window overwrites
\* "last", so what is returned is the last activation of the cron that
\* comes last in the list.
lastOf(crons, t) ==
  LET firing == {i \in DOMAIN crons : Within(crons[i], t) # {}}
  IN IF firing = {} THEN NoTime ELSE Latest(Within(crons[Latest(firing)], t))

\* ScheduledDown's second result: some edge lies in the scan window.
HasSchedule(s, t) ==
  lastOf(s.uptime, t) # NoTime \/ lastOf(s.downtime, t) # NoTime

\* ScheduledDown's first result.
ScheduledDown(s, t) ==
  LET lastUp == lastOf(s.uptime, t)
      lastDn == lastOf(s.downtime, t)
  IN lastDn # NoTime /\ (lastUp = NoTime \/ lastDn > lastUp)

\* Mutant of NextEdge: only start edges are announced.
NextEdgeUpOnly(s, t) == nextOf(s.uptime, t)

\* The instant of the next transition of either kind.
NextEdge(s, t) == nextOf(s.uptime \o s.downtime, t)

\* Mutant of nextEdgeOfKind: the two kinds are swapped.
nextEdgeOfKindSwapped(s, t, wantUp) ==
  nextOf(IF wantUp THEN s.downtime ELSE s.uptime, t)

nextEdgeOfKind(s, t, wantUp) ==
  nextOf(IF wantUp THEN s.uptime ELSE s.downtime, t)

\* The condition under which Resolve lets the manual state win.
ManualWins(s, now, manualPaused, manualAt) ==
  /\ manualAt # NoTime
  /\ LET opp == nextEdgeOfKind(s, manualAt, manualPaused)
     IN opp # NoTime /\ now < opp

\* Resolve: conflict rule B.
Resolve(s, now, manualPaused, manualAt) ==
  IF ~HasSchedule(s, now)
  THEN [down |-> manualPaused, manual |-> manualPaused]
  ELSE IF ManualWins(s, now, manualPaused, manualAt)
  THEN [down |-> manualPaused, manual |-> TRUE]
  ELSE [down |-> ScheduledDown(s, now), manual |-> FALSE]
=============================================================================
