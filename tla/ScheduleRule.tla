---------------------------- MODULE ScheduleRule ----------------------------
(***************************************************************************)
(* What a user sees of a scheduled workspace: time passes, cron edges      *)
(* fire, the user pauses and resumes.  Rule B (docs/workspace-lifecycle.md)*)
(* promises that the last of these events decides: a manual action holds   *)
(* until an edge of the opposite kind, and an edge of the same kind asks   *)
(* for what is already there.  The variable "intent" keeps that promise;   *)
(* the evaluator, which is given only the present instant, spec.paused and *)
(* the manual-state-at annotation, must agree with it at every instant.    *)
(***************************************************************************)
EXTENDS Schedule

CONSTANTS Schedules,      \* schedules a template may declare
          LastInstant     \* bound: the last instant of a behaviour

ASSUME ClockAssumption == LastInstant \in Nat

VARIABLES sched,      \* the workspace's effective schedule
          instant,    \* the present instant
          paused,     \* spec.paused
          manualAt,   \* annotation waas.xorhub.io/manual-state-at
          intent      \* rule B's verdict: TRUE = the workspace is down

ruleVars == <<sched, instant, paused, manualAt, intent>>

Fires(crons, t) == \E i \in DOMAIN crons : t \in crons[i]

RuleInit ==
  /\ sched \in Schedules
  /\ instant = 0
  /\ paused = FALSE
  /\ manualAt = NoTime
  /\ intent = (Fires(sched.downtime, 0) /\ ~Fires(sched.uptime, 0))

\* Mutant of PauseOrResume: the stamp is ahead of the clock.
PauseOrResumeSkewed(p) ==
  /\ paused' = p
  /\ manualAt' = instant + 1
  /\ intent' = p
  /\ UNCHANGED <<sched, instant>>

\* WorkspaceService.SetPaused writes spec.paused and stamps the time.
PauseOrResume(p) ==
  /\ paused' = p
  /\ manualAt' = instant
  /\ intent' = p
  /\ UNCHANGED <<sched, instant>>

\* Time moves to the next instant.  Of two edges at the same instant the
\* start edge wins (NextEdge and ScheduledDown agree on that).
TimePasses ==
  /\ instant < LastInstant
  /\ instant' = instant + 1
  /\ intent' = IF Fires(sched.uptime, instant') THEN FALSE
               ELSE IF Fires(sched.downtime, instant') THEN TRUE
               ELSE intent
  /\ UNCHANGED <<sched, paused, manualAt>>

RuleNext == TimePasses \/ \E p \in BOOLEAN : PauseOrResume(p)

RuleSpec == RuleInit /\ [][RuleNext]_ruleVars

-----------------------------------------------------------------------------
RuleTypeOK ==
  /\ sched \in Schedules
  /\ instant \in 0 .. LastInstant
  /\ paused \in BOOLEAN
  /\ manualAt \in {NoTime} \cup 0 .. instant
  /\ intent \in BOOLEAN

Decision == Resolve(sched, instant, paused, manualAt)

\* docs/workspace-lifecycle.md, rule B: whatever the order in which edges
\* fire and the user pauses or resumes, the state Resolve computes from
\* the present instant alone is the one the last event asked for.
FollowsLastEvent == Decision.down = intent

\* The operator sleeps until NextEdge (status.nextTransition) and nothing
\* else wakes it: whenever the verdict changes as time passes, it changes
\* at the instant NextEdge announced just before.
NoSilentTransition ==
  [][instant' # instant /\ Decision'.down # Decision.down
       => instant' = NextEdge(sched, instant)]_ruleVars

\* The crons for which the evaluator's scan is exact: they fire again after
\* every instant, and what they fired last lies in the scan window
\* ("8 days covers weekly schedules").
Regular(cron) ==
  /\ cron \subseteq Nat
  /\ \A t \in 0 .. LastInstant :
       /\ \E x \in After(cron, t) : \A y \in After(cron, t) : x <= y
       /\ (\E x \in cron : x <= t) =>
            \E x \in Within(cron, t) : \A y \in cron : y <= t => y <= x

\* At most one cron of each kind, and a regular one.
SingleCrons(crons) ==
  crons = <<>> \/ \E c \in SUBSET Nat : crons = <<c>> /\ Regular(c)
=============================================================================
