---------------------- MODULE WorkspaceLifecycleProofs ----------------------
(***************************************************************************)
(* Proofs about the schedule and the workspace that follows it.            *)
(*                                                                         *)
(* About ScheduleRule: for every set of schedules with at most one regular *)
(* cron of each kind, the evaluator agrees with rule B at every instant of *)
(* every behaviour.                                                        *)
(*                                                                         *)
(* About WorkspaceLifecycle: for every schedule, every set of workload     *)
(* kinds and every bound, with or without stale reads of the CR and of its *)
(* template.                                                               *)
(***************************************************************************)
EXTENDS ScheduleRule, WorkspaceLifecycle, TLAPS

-----------------------------------------------------------------------------
(* ScheduleRule.                                                           *)

SingleSchedules ==
  \A s \in Schedules : SingleCrons(s.uptime) /\ SingleCrons(s.downtime)

\* Earliest and Latest pick an extremal element of a set that has one.
LEMMA EarliestProperty ==
  ASSUME NEW S, NEW a \in S, \A y \in S : a <= y
  PROVE  Earliest(S) \in S /\ \A y \in S : Earliest(S) <= y
BY DEF Earliest

\* The same for the greatest element.
LEMMA LatestProperty ==
  ASSUME NEW S, NEW a \in S, \A y \in S : y <= a
  PROVE  Latest(S) \in S /\ \A y \in S : y <= Latest(S)
BY DEF Latest

\* What nextOf returns for one regular cron: its first later activation.
LEMMA NextOfSingle ==
  ASSUME NEW c \in SUBSET Nat, Regular(c), NEW t \in 0 .. LastInstant
  PROVE  LET n == nextOf(<<c>>, t)
         IN n \in c /\ n > t /\ (\A y \in c : y > t => n <= y)
<1> USE ClockAssumption
<1> DEFINE e == Earliest(After(c, t))
<1>1. e \in After(c, t) /\ \A y \in After(c, t) : e <= y
  <2>1. PICK x \in After(c, t) : \A y \in After(c, t) : x <= y
    BY DEF Regular
  <2> QED BY <2>1, EarliestProperty
<1>3. NextFire(c, t) = e
  BY <1>1 DEF NextFire
<1> HIDE DEF e
<1>2. e \in c /\ e > t /\ \A y \in c : y > t => e <= y
  BY <1>1 DEF After
<1>8. e \in c
  BY <1>2
<1>4. e \in Nat /\ e # NoTime
  BY <1>8 DEF NoTime
<1>5. {NextFire(<<c>>[i], t) : i \in DOMAIN <<c>>} \ {NoTime} = {e}
  BY <1>3, <1>4
<1>6. Earliest({e}) = e
  BY <1>4 DEF Earliest
<1>7. nextOf(<<c>>, t) = e
  BY <1>5, <1>6 DEF nextOf
<1> QED BY <1>2, <1>7

\* What lastOf returns for one regular cron: its latest activation so far.
LEMMA LastOfSingle ==
  ASSUME NEW c \in SUBSET Nat, Regular(c), NEW t \in 0 .. LastInstant
  PROVE  LET l == lastOf(<<c>>, t)
         IN \/ l = NoTime /\ \A y \in c : ~(y <= t)
            \/ l \in c /\ l <= t /\ \A y \in c : y <= t => y <= l
<1> USE ClockAssumption, ScanHorizonAssumption
<1> DEFINE firing == {i \in DOMAIN <<c>> : Within(<<c>>[i], t) # {}}
<1>1. CASE \A y \in c : ~(y <= t)
  <2>2. Within(c, t) = {} BY <1>1 DEF Within
  <2>1. firing = {} BY <2>2
  <2> QED BY <1>1, <2>1 DEF lastOf
<1>2. CASE \E y \in c : y <= t
  <2>1. PICK x \in Within(c, t) : \A y \in c : y <= t => y <= x
    BY <1>2 DEF Regular
  <2>2. \A y \in Within(c, t) : y <= x
    BY <2>1 DEF Within
  <2>3. firing = {1}
    BY <2>1
  <2>4. Latest({1}) = 1
    BY DEF Latest
  <2>5. lastOf(<<c>>, t) = Latest(Within(c, t))
    BY <2>3, <2>4 DEF lastOf
  <2>6. /\ Latest(Within(c, t)) \in Within(c, t)
        /\ \A y \in Within(c, t) : y <= Latest(Within(c, t))
    BY <2>1, <2>2, LatestProperty
  <2>7. Latest(Within(c, t)) \in c /\ x \in c
    BY <2>6 DEF Within
  <2>8. Latest(Within(c, t)) <= x /\ x <= Latest(Within(c, t))
    BY <2>2, <2>6
  <2>11. Latest(Within(c, t)) \in Nat /\ x \in Nat
    BY <2>7
  <2>9. Latest(Within(c, t)) = x
    BY <2>8, <2>11
  <2>10. x \in c /\ x <= t
    BY DEF Within
  <2> QED BY <2>1, <2>5, <2>9, <2>10
<1> QED BY <1>1, <1>2

\* An empty list of crons has no activation at all.
LEMMA EmptyList ==
  ASSUME NEW t
  PROVE  nextOf(<<>>, t) = NoTime /\ lastOf(<<>>, t) = NoTime
BY DEF nextOf, lastOf

-----------------------------------------------------------------------------
\* The two lemmas above in one form: the list's activations after t, and
\* up to t, told by nextOf and lastOf for an empty or a singleton list.
LEMMA NextOfList ==
  ASSUME NEW cs, SingleCrons(cs), NEW t \in 0 .. LastInstant
  PROVE  /\ cs = <<>> => nextOf(cs, t) = NoTime
         /\ cs # <<>> => nextOf(cs, t) \in Nat /\ nextOf(cs, t) > t
                           /\ Fires(cs, nextOf(cs, t))
         /\ \A y \in Nat : y > t /\ Fires(cs, y)
               => nextOf(cs, t) # NoTime /\ nextOf(cs, t) <= y
<1>1. CASE cs = <<>>
  BY <1>1, EmptyList DEF Fires
<1>2. CASE \E c \in SUBSET Nat : cs = <<c>> /\ Regular(c)
  <2>1. PICK c \in SUBSET Nat : cs = <<c>> /\ Regular(c)
    BY <1>2
  <2>2. \A y : Fires(cs, y) <=> y \in c
    BY <2>1 DEF Fires
  <2> DEFINE n == nextOf(cs, t)
  <2>3. n \in c /\ n > t /\ (\A y \in c : y > t => n <= y)
    BY <2>1, NextOfSingle
  <2> HIDE DEF n
  <2>4. n \in c BY <2>3
  <2>5. n \in Nat BY <2>4
  <2>6. n # NoTime BY <2>5 DEF NoTime
  <2>7. cs # <<>> BY <2>1
  <2>8. n \in Nat /\ n > t /\ Fires(cs, n)
    BY <2>2, <2>3, <2>5
  <2>9. \A y \in Nat : y > t /\ Fires(cs, y) => n # NoTime /\ n <= y
    BY <2>2, <2>3, <2>6
  <2> QED BY <2>7, <2>8, <2>9 DEF n
<1> QED BY <1>1, <1>2 DEF SingleCrons

\* lastOf of an empty or singleton list: the latest activation so far.
LEMMA LastOfList ==
  ASSUME NEW cs, SingleCrons(cs), NEW t \in 0 .. LastInstant
  PROVE  \/ lastOf(cs, t) = NoTime /\ \A y \in Nat : y <= t => ~Fires(cs, y)
         \/ /\ lastOf(cs, t) \in Nat /\ lastOf(cs, t) <= t
            /\ Fires(cs, lastOf(cs, t))
            /\ \A y \in Nat : y <= t /\ Fires(cs, y) => y <= lastOf(cs, t)
<1>1. CASE cs = <<>>
  BY <1>1, EmptyList DEF Fires
<1>2. CASE \E c \in SUBSET Nat : cs = <<c>> /\ Regular(c)
  <2>1. PICK c \in SUBSET Nat : cs = <<c>> /\ Regular(c)
    BY <1>2
  <2>2. \A y : Fires(cs, y) <=> y \in c
    BY <2>1 DEF Fires
  <2> DEFINE l == lastOf(cs, t)
  <2>3. \/ l = NoTime /\ \A y \in c : ~(y <= t)
        \/ l \in c /\ l <= t /\ \A y \in c : y <= t => y <= l
    BY <2>1, LastOfSingle
  <2> HIDE DEF l
  <2>4. CASE l = NoTime /\ \A y \in c : ~(y <= t)
    BY <2>2, <2>4 DEF l
  <2>5. CASE l \in c /\ l <= t /\ \A y \in c : y <= t => y <= l
    <3>1. l \in c BY <2>5
    <3>2. l \in Nat BY <3>1
    <3> QED BY <2>2, <2>5, <3>2 DEF l
  <2> QED BY <2>3, <2>4, <2>5
<1> QED BY <1>1, <1>2 DEF SingleCrons

-----------------------------------------------------------------------------
\* RuleTypeOK, and the agreement itself: the invariant is inductive.
RuleInv == RuleTypeOK /\ FollowsLastEvent

\* At the first instant Resolve agrees with rule B.
LEMMA RuleInitAgrees == ASSUME SingleSchedules PROVE RuleInit => RuleInv
<1> SUFFICES ASSUME RuleInit PROVE RuleInv
  OBVIOUS
<1> USE ClockAssumption
<1>1. RuleTypeOK
  <2>1. intent \in BOOLEAN
    BY Zenon DEF RuleInit, Fires
  <2>2. instant \in 0 .. LastInstant
    BY DEF RuleInit
  <2> QED BY <2>1, <2>2 DEF RuleInit, RuleTypeOK
<1>2. SingleCrons(sched.uptime) /\ SingleCrons(sched.downtime) /\ 0 \in 0 .. LastInstant
  BY DEF RuleInit, SingleSchedules
<1> DEFINE u == lastOf(sched.uptime, 0)
           d == lastOf(sched.downtime, 0)
<1>3. \/ u = NoTime /\ ~Fires(sched.uptime, 0)
      \/ u = 0 /\ Fires(sched.uptime, 0)
  BY <1>2, LastOfList
<1>4. \/ d = NoTime /\ ~Fires(sched.downtime, 0)
      \/ d = 0 /\ Fires(sched.downtime, 0)
  BY <1>2, LastOfList
<1>5. Decision.down = (d # NoTime /\ (u = NoTime \/ d > u))
  BY <1>3, <1>4 DEF RuleInit, Decision, Resolve, HasSchedule, ManualWins, ScheduledDown
<1>6. Decision.down = intent
  BY <1>3, <1>4, <1>5 DEF RuleInit, NoTime
<1> QED BY <1>1, <1>6 DEF RuleInv, FollowsLastEvent

\* One instant later, lastOf has moved exactly if the list fired.
LEMMA LastOfStep ==
  ASSUME NEW cs, SingleCrons(cs), NEW t \in 0 .. LastInstant, t < LastInstant
  PROVE  /\ Fires(cs, t + 1) => lastOf(cs, t + 1) = t + 1
         /\ ~Fires(cs, t + 1) => lastOf(cs, t + 1) = lastOf(cs, t)
         /\ lastOf(cs, t) # NoTime => lastOf(cs, t) \in Nat /\ lastOf(cs, t) <= t
<1> USE ClockAssumption
<1>1. t + 1 \in 0 .. LastInstant /\ t + 1 \in Nat /\ t \in Nat
  OBVIOUS
<1> DEFINE l == lastOf(cs, t)
           l1 == lastOf(cs, t + 1)
<1>2. \/ l = NoTime /\ \A y \in Nat : y <= t => ~Fires(cs, y)
      \/ /\ l \in Nat /\ l <= t /\ Fires(cs, l)
         /\ \A y \in Nat : y <= t /\ Fires(cs, y) => y <= l
  BY LastOfList
<1>3. \/ l1 = NoTime /\ \A y \in Nat : y <= t + 1 => ~Fires(cs, y)
      \/ /\ l1 \in Nat /\ l1 <= t + 1 /\ Fires(cs, l1)
         /\ \A y \in Nat : y <= t + 1 /\ Fires(cs, y) => y <= l1
  BY <1>1, LastOfList
<1> HIDE DEF l, l1
<1>4. Fires(cs, t + 1) => l1 = t + 1
  BY <1>1, <1>3
<1>5. ASSUME ~Fires(cs, t + 1) PROVE l1 = l
  <2>1. CASE l = NoTime
    <3>1. \A y \in Nat : y <= t + 1 => ~Fires(cs, y)
      BY <1>1, <1>2, <1>5, <2>1 DEF NoTime
    <3> QED BY <1>3, <2>1, <3>1
  <2>2. CASE l \in Nat /\ l <= t /\ Fires(cs, l)
    <3>1. l1 \in Nat /\ l1 <= t + 1 /\ Fires(cs, l1) /\ l <= l1
      BY <1>1, <1>3, <2>2
    <3>2. l1 # t + 1
      BY <1>5, <3>1
    <3>3. l1 <= t
      BY <1>1, <3>1, <3>2
    <3>4. l1 <= l
      BY <1>2, <2>2, <3>1, <3>3 DEF NoTime
    <3> QED BY <2>2, <3>1, <3>4
  <2> QED BY <1>2, <2>1, <2>2
<1>6. l # NoTime => l \in Nat /\ l <= t
  BY <1>2
<1> QED BY <1>4, <1>5, <1>6 DEF l, l1

\* One instant later, the next activation after an earlier instant m is
\* still ahead unless the list has just fired.
LEMMA NextOfStep ==
  ASSUME NEW cs, SingleCrons(cs), NEW t \in 0 .. LastInstant, t < LastInstant,
         NEW m \in 0 .. t
  PROVE  LET opp == nextOf(cs, m)
         IN /\ Fires(cs, t + 1) => ~(opp # NoTime /\ t + 1 < opp)
            /\ ~Fires(cs, t + 1) =>
                 ((opp # NoTime /\ t < opp) <=> (opp # NoTime /\ t + 1 < opp))
<1> USE ClockAssumption
<1>1. m \in 0 .. LastInstant /\ m \in Nat /\ t \in Nat /\ t + 1 \in Nat /\ t + 1 > m
  OBVIOUS
<1> DEFINE opp == nextOf(cs, m)
<1>2. /\ cs = <<>> => opp = NoTime
      /\ cs # <<>> => opp \in Nat /\ opp > m /\ Fires(cs, opp)
      /\ \A y \in Nat : y > m /\ Fires(cs, y) => opp # NoTime /\ opp <= y
  BY <1>1, NextOfList
<1> HIDE DEF opp
<1>3. ASSUME Fires(cs, t + 1) PROVE ~(opp # NoTime /\ t + 1 < opp)
  <2>1. opp # NoTime /\ opp <= t + 1
    BY <1>1, <1>2, <1>3
  <2>2. opp \in Nat
    BY <1>2, <2>1
  <2> QED BY <1>1, <2>1, <2>2
<1>4. ASSUME ~Fires(cs, t + 1)
      PROVE  (opp # NoTime /\ t < opp) <=> (opp # NoTime /\ t + 1 < opp)
  <2>1. CASE cs = <<>>
    BY <1>2, <2>1
  <2>2. CASE cs # <<>>
    <3>1. opp \in Nat /\ opp # t + 1
      BY <1>2, <1>4, <2>2
    <3> QED BY <1>1, <3>1
  <2> QED BY <2>1, <2>2
<1> QED BY <1>3, <1>4 DEF opp

\* A manual action or the passing of an instant keeps them in agreement.
LEMMA RuleStepAgrees == ASSUME SingleSchedules PROVE RuleInv /\ [RuleNext]_ruleVars => RuleInv'
<1> SUFFICES ASSUME RuleInv, [RuleNext]_ruleVars PROVE RuleInv'
  OBVIOUS
<1> USE ClockAssumption
<1>1. CASE TimePasses
  <2> DEFINE U == sched.uptime
             D == sched.downtime
             t == instant
  <2>1. SingleCrons(U) /\ SingleCrons(D) /\ t \in 0 .. LastInstant /\ t < LastInstant
    BY <1>1 DEF RuleInv, RuleTypeOK, TimePasses, SingleSchedules
  <2>2. RuleTypeOK'
    <3>1. intent' \in BOOLEAN
      BY <1>1 DEF RuleInv, RuleTypeOK, TimePasses
    <3>2. instant' \in 0 .. LastInstant
      BY <1>1 DEF RuleInv, RuleTypeOK, TimePasses
    <3>3. manualAt' \in {NoTime} \cup 0 .. instant'
      BY <1>1 DEF RuleInv, RuleTypeOK, TimePasses
    <3> QED BY <1>1, <3>1, <3>2, <3>3 DEF RuleInv, RuleTypeOK, TimePasses
  <2> DEFINE u == lastOf(U, t)
             d == lastOf(D, t)
             u1 == lastOf(U, t + 1)
             d1 == lastOf(D, t + 1)
             opp == nextEdgeOfKind(sched, manualAt, paused)
             manual == manualAt # NoTime /\ opp # NoTime /\ t < opp
             manual1 == manualAt # NoTime /\ opp # NoTime /\ t + 1 < opp
  <2>3. /\ Fires(U, t + 1) => u1 = t + 1
        /\ ~Fires(U, t + 1) => u1 = u
        /\ u # NoTime => u \in Nat /\ u <= t
    BY <2>1, LastOfStep
  <2>4. /\ Fires(D, t + 1) => d1 = t + 1
        /\ ~Fires(D, t + 1) => d1 = d
        /\ d # NoTime => d \in Nat /\ d <= t
    BY <2>1, LastOfStep
  <2>5. /\ paused /\ Fires(U, t + 1) => ~manual1
        /\ paused /\ ~Fires(U, t + 1) => (manual <=> manual1)
    <3>1. CASE manualAt = NoTime
      BY <3>1
    <3>2. CASE manualAt \in 0 .. t
      BY <2>1, <3>2, NextOfStep DEF nextEdgeOfKind
    <3> QED BY <3>1, <3>2 DEF RuleInv, RuleTypeOK
  <2>6. /\ ~paused /\ Fires(D, t + 1) => ~manual1
        /\ ~paused /\ ~Fires(D, t + 1) => (manual <=> manual1)
    <3>1. CASE manualAt = NoTime
      BY <3>1
    <3>2. CASE manualAt \in 0 .. t
      BY <2>1, <3>2, NextOfStep DEF nextEdgeOfKind
    <3> QED BY <3>1, <3>2 DEF RuleInv, RuleTypeOK
  <2>7. intent = IF (u = NoTime /\ d = NoTime) \/ manual THEN paused
                 ELSE d # NoTime /\ (u = NoTime \/ d > u)
    BY DEF RuleInv, FollowsLastEvent, Decision, Resolve, HasSchedule, ManualWins,
           ScheduledDown
  <2>8. Decision'.down = IF (u1 = NoTime /\ d1 = NoTime) \/ manual1 THEN paused
                         ELSE d1 # NoTime /\ (u1 = NoTime \/ d1 > u1)
    BY <1>1 DEF TimePasses, Decision, Resolve, HasSchedule, ManualWins, ScheduledDown
  <2>9. intent' = IF Fires(U, t + 1) THEN FALSE
                  ELSE IF Fires(D, t + 1) THEN TRUE ELSE intent
    BY <1>1 DEF TimePasses
  <2>10. paused \in BOOLEAN /\ t \in Nat /\ t + 1 # NoTime
    BY <2>1 DEF RuleInv, RuleTypeOK, NoTime
  <2> HIDE DEF U, D, t, u, d, u1, d1, opp, manual, manual1
  <2>11. CASE Fires(U, t + 1)
    <3>1. u1 = t + 1 /\ (d1 = NoTime \/ ~(d1 > u1))
      BY <2>3, <2>4, <2>10, <2>11
    <3>2. manual1 => ~paused
      BY <2>5, <2>11
    <3>4. ~(d1 # NoTime /\ (u1 = NoTime \/ d1 > u1)) /\ u1 # NoTime
      BY <2>10, <3>1
    <3>3. Decision'.down = FALSE
      BY <2>8, <2>10, <3>2, <3>4
    <3> QED BY <2>2, <2>9, <2>11, <3>3 DEF RuleInv, FollowsLastEvent
  <2>12. CASE ~Fires(U, t + 1) /\ Fires(D, t + 1)
    <3>1. d1 = t + 1 /\ (u1 = NoTime \/ u1 < t + 1)
      BY <2>3, <2>4, <2>10, <2>12
    <3>2. manual1 => paused
      BY <2>6, <2>12
    <3>3. Decision'.down = TRUE
      BY <2>8, <2>10, <3>1, <3>2
    <3> QED BY <2>2, <2>9, <2>12, <3>3 DEF RuleInv, FollowsLastEvent
  <2>13. CASE ~Fires(U, t + 1) /\ ~Fires(D, t + 1)
    <3>1. u1 = u /\ d1 = d /\ (manual <=> manual1)
      BY <2>3, <2>4, <2>5, <2>6, <2>10, <2>13
    <3>2. Decision'.down = intent
      BY <2>7, <2>8, <3>1
    <3> QED BY <2>2, <2>9, <2>13, <3>2 DEF RuleInv, FollowsLastEvent
  <2> QED BY <2>11, <2>12, <2>13
<1>2. ASSUME NEW p \in BOOLEAN, PauseOrResume(p) PROVE RuleInv'
  <2>1. RuleTypeOK'
    BY <1>2 DEF RuleInv, RuleTypeOK, PauseOrResume
  <2>2. SingleCrons(sched.uptime) /\ SingleCrons(sched.downtime) /\ instant \in 0 .. LastInstant
    BY DEF RuleInv, RuleTypeOK, SingleSchedules
  <2> DEFINE cs == IF p THEN sched.uptime ELSE sched.downtime
             u == lastOf(sched.uptime, instant)
             d == lastOf(sched.downtime, instant)
             opp == nextOf(cs, instant)
  <2>3. /\ cs = <<>> => opp = NoTime
        /\ cs # <<>> => opp \in Nat /\ opp > instant
    BY <2>2, NextOfList
  <2>4. cs = <<>> => IF p THEN u = NoTime ELSE d = NoTime
    BY EmptyList
  <2>5. Decision'.down = IF (u = NoTime /\ d = NoTime) \/
                            (instant # NoTime /\ opp # NoTime /\ instant < opp)
                         THEN p
                         ELSE d # NoTime /\ (u = NoTime \/ d > u)
    BY <1>2 DEF PauseOrResume, Decision, Resolve, HasSchedule, ManualWins,
                ScheduledDown, nextEdgeOfKind
  <2>6. instant \in Nat /\ instant # NoTime
    BY <2>2 DEF NoTime
  <2> HIDE DEF cs, u, d, opp
  <2>7. CASE cs = <<>>
    BY <1>2, <2>1, <2>3, <2>4, <2>5, <2>7 DEF RuleInv, FollowsLastEvent, PauseOrResume
  <2>8. CASE cs # <<>>
    <3>1. opp # NoTime /\ instant < opp
      BY <2>3, <2>6, <2>8 DEF NoTime
    <3>2. Decision'.down = p
      BY <2>5, <2>6, <3>1
    <3> QED BY <1>2, <2>1, <3>2 DEF RuleInv, FollowsLastEvent, PauseOrResume
  <2> QED BY <2>7, <2>8
<1>3. CASE UNCHANGED ruleVars
  BY <1>3 DEF ruleVars, RuleInv, RuleTypeOK, FollowsLastEvent, Decision
<1> QED BY <1>1, <1>2, <1>3 DEF RuleNext

\* docs/workspace-lifecycle.md, rule B, for every clock bound and every set
\* of schedules with at most one regular cron of each kind: what Resolve
\* computes from the present instant is what the last event asked for.
THEOREM RuleBHolds ==
  ASSUME SingleSchedules PROVE RuleSpec => []FollowsLastEvent
<1>1. RuleInit => RuleInv
  BY RuleInitAgrees
<1>2. RuleInv /\ [RuleNext]_ruleVars => RuleInv'
  BY RuleStepAgrees
<1>3. RuleInv => FollowsLastEvent
  BY DEF RuleInv
<1> QED BY <1>1, <1>2, <1>3, PTL DEF RuleSpec

\* The types hold for every set of schedules, regular or not.
THEOREM RuleTypesHold == RuleSpec => []RuleTypeOK
<1> USE ClockAssumption
<1>1. RuleInit => RuleTypeOK
  <2> SUFFICES ASSUME RuleInit PROVE RuleTypeOK
    OBVIOUS
  <2>1. intent \in BOOLEAN
    BY Zenon DEF RuleInit, Fires
  <2>2. instant \in 0 .. LastInstant
    BY DEF RuleInit
  <2> QED BY <2>1, <2>2 DEF RuleInit, RuleTypeOK
<1>2. RuleTypeOK /\ [RuleNext]_ruleVars => RuleTypeOK'
  <2> SUFFICES ASSUME RuleTypeOK, [RuleNext]_ruleVars PROVE RuleTypeOK'
    OBVIOUS
  <2>1. CASE TimePasses
    <3>1. intent' \in BOOLEAN
      BY <2>1 DEF RuleTypeOK, TimePasses
    <3>2. instant' \in 0 .. LastInstant /\ manualAt' \in {NoTime} \cup 0 .. instant'
      BY <2>1 DEF RuleTypeOK, TimePasses
    <3> QED BY <2>1, <3>1, <3>2 DEF RuleTypeOK, TimePasses
  <2>2. ASSUME NEW p \in BOOLEAN, PauseOrResume(p) PROVE RuleTypeOK'
    BY <2>2 DEF RuleTypeOK, PauseOrResume
  <2>3. CASE UNCHANGED ruleVars
    BY <2>3 DEF ruleVars, RuleTypeOK
  <2> QED BY <2>1, <2>2, <2>3 DEF RuleNext
<1> QED BY <1>1, <1>2, PTL DEF RuleSpec

-----------------------------------------------------------------------------
\* A list of crons that fires at the very next instant says so, whatever the other crons of the
\* list do: nothing after t is earlier.
LEMMA NextOfNow ==
  ASSUME NEW cs \in Seq(SUBSET Nat), NEW t \in 0 .. LastInstant, Fires(cs, t + 1),
         \A i \in DOMAIN cs : Regular(cs[i])
  PROVE  nextOf(cs, t) = t + 1
<1> USE ClockAssumption
<1> DEFINE fires == {NextFire(cs[i], t) : i \in DOMAIN cs} \ {NoTime}
<1>1. ASSUME NEW i \in DOMAIN cs
      PROVE  /\ NextFire(cs[i], t) # NoTime => NextFire(cs[i], t) \in Nat /\ NextFire(cs[i], t) > t
             /\ t + 1 \in cs[i] => NextFire(cs[i], t) = t + 1
  <2> DEFINE c == cs[i]
             e == Earliest(After(c, t))
  <2>1. c \subseteq Nat
    BY <1>1
  <2>2. Regular(c)
    BY <1>1
  <2> HIDE DEF c
  <2>3. PICK x \in After(c, t) : \A y \in After(c, t) : x <= y
    BY <2>2 DEF Regular
  <2>4. e \in After(c, t) /\ \A y \in After(c, t) : e <= y
    BY <2>3, EarliestProperty
  <2>5. NextFire(c, t) = e
    BY <2>3 DEF NextFire
  <2> HIDE DEF e
  <2>6. e \in c /\ e > t
    BY <2>4 DEF After
  <2>7. e \in Nat /\ e > t
    BY <2>1, <2>6
  <2>8. t + 1 \in c => e = t + 1
    BY <2>4, <2>7 DEF After
  <2> QED BY <2>5, <2>7, <2>8 DEF c
<1>2. PICK i \in DOMAIN cs : t + 1 \in cs[i]
  BY DEF Fires
<1>3. t + 1 # NoTime
  BY DEF NoTime
<1>4. t + 1 \in fires
  BY <1>1, <1>2, <1>3
<1>5. \A y \in fires : y \in Nat /\ t + 1 <= y
  BY <1>1
<1> HIDE DEF fires
<1>6. Earliest(fires) \in fires /\ Earliest(fires) <= t + 1
  BY <1>4, <1>5, EarliestProperty
<1>7. Earliest(fires) = t + 1
  BY <1>5, <1>6
<1> QED BY <1>4, <1>7 DEF nextOf, fires

\* The list NextEdge scans is a list of regular crons, and fires when either of its parts does.
LEMMA BothKinds ==
  ASSUME NEW U, NEW D, SingleCrons(U), SingleCrons(D)
  PROVE  /\ U \o D \in Seq(SUBSET Nat)
         /\ \A i \in DOMAIN (U \o D) : Regular((U \o D)[i])
         /\ \A t : Fires(U, t) \/ Fires(D, t) => Fires(U \o D, t)
<1>1. /\ U \in Seq(SUBSET Nat) /\ \A i \in DOMAIN U : Regular(U[i])
      /\ D \in Seq(SUBSET Nat) /\ \A i \in DOMAIN D : Regular(D[i])
  <2>1. ASSUME NEW cs, SingleCrons(cs)
        PROVE  cs \in Seq(SUBSET Nat) /\ \A i \in DOMAIN cs : Regular(cs[i])
    <3>1. CASE cs = <<>>
      BY <3>1
    <3>2. CASE \E c \in SUBSET Nat : cs = <<c>> /\ Regular(c)
      <4>1. PICK c \in SUBSET Nat : cs = <<c>> /\ Regular(c)
        BY <3>2
      <4>2. cs \in Seq(SUBSET Nat) /\ DOMAIN cs = {1} /\ cs[1] = c
        BY <4>1
      <4> QED BY <4>1, <4>2
    <3> QED BY <2>1, <3>1, <3>2 DEF SingleCrons
  <2> QED BY <2>1
<1>2. /\ U \o D \in Seq(SUBSET Nat) /\ DOMAIN (U \o D) = 1 .. (Len(U) + Len(D))
      /\ Len(U) \in Nat /\ Len(D) \in Nat /\ DOMAIN U = 1 .. Len(U) /\ DOMAIN D = 1 .. Len(D)
      /\ \A i \in 1 .. Len(U) : (U \o D)[i] = U[i]
      /\ \A i \in 1 .. Len(D) : (U \o D)[Len(U) + i] = D[i]
  BY <1>1
<1>3. ASSUME NEW i \in DOMAIN (U \o D) PROVE Regular((U \o D)[i])
  <2>1. CASE i <= Len(U)
    BY <1>1, <1>2, <2>1
  <2>2. CASE i > Len(U)
    <3>1. i - Len(U) \in 1 .. Len(D) /\ Len(U) + (i - Len(U)) = i
      BY <1>2, <2>2
    <3> QED BY <1>1, <1>2, <3>1
  <2> QED BY <1>2, <2>1, <2>2
<1>4. ASSUME NEW t, Fires(U, t) \/ Fires(D, t) PROVE Fires(U \o D, t)
  <2>1. CASE Fires(U, t)
    <3>1. PICK i \in 1 .. Len(U) : t \in U[i]
      BY <1>2, <2>1 DEF Fires
    <3> QED BY <1>2, <3>1 DEF Fires
  <2>2. CASE Fires(D, t)
    <3>1. PICK i \in 1 .. Len(D) : t \in D[i]
      BY <1>2, <2>2 DEF Fires
    <3>2. Len(U) + i \in DOMAIN (U \o D) /\ t \in (U \o D)[Len(U) + i]
      BY <1>2, <3>1
    <3> QED BY <3>2 DEF Fires
  <2> QED BY <1>4, <2>1, <2>2
<1> QED BY <1>2, <1>3, <1>4

\* A step that changes the verdict as time passes lands on the announced edge.
LEMMA EdgeStep ==
  ASSUME SingleSchedules, RuleInv, RuleInv', [RuleNext]_ruleVars, instant' # instant, Decision'.down # Decision.down
  PROVE  instant' = NextEdge(sched, instant)
<1> USE ClockAssumption
<1>1. TimePasses
  BY DEF RuleNext, PauseOrResume, ruleVars
<1>2. intent' # intent
  BY DEF RuleInv, FollowsLastEvent
<1>3. instant' = instant + 1 /\ instant \in 0 .. LastInstant /\ sched \in Schedules
  BY <1>1 DEF TimePasses, RuleInv, RuleTypeOK
<1>4. Fires(sched.uptime, instant + 1) \/ Fires(sched.downtime, instant + 1)
  BY <1>1, <1>2, <1>3 DEF TimePasses
<1> DEFINE both == sched.uptime \o sched.downtime
<1>5. /\ both \in Seq(SUBSET Nat) /\ \A i \in DOMAIN both : Regular(both[i])
      /\ Fires(both, instant + 1)
  BY <1>3, <1>4, BothKinds DEF SingleSchedules
<1> HIDE DEF both
<1>6. nextOf(both, instant) = instant + 1
  BY <1>3, <1>5, NextOfNow
<1> QED BY <1>3, <1>6 DEF NextEdge, both

\* The instant of status.nextTransition is enough to sleep on, for every set of schedules with at
\* most one regular cron of each kind: the verdict never changes before it.
THEOREM SleepIsSafe ==
  ASSUME SingleSchedules PROVE RuleSpec => NoSilentTransition
<1>1. RuleInit => RuleInv
  BY RuleInitAgrees
<1>2. RuleInv /\ [RuleNext]_ruleVars => RuleInv'
  BY RuleStepAgrees
<1>3. RuleInv /\ RuleInv' /\ [RuleNext]_ruleVars
        => [instant' # instant /\ Decision'.down # Decision.down => instant' = NextEdge(sched, instant)]_ruleVars
  BY EdgeStep
<1> QED BY <1>1, <1>2, <1>3, PTL DEF RuleSpec, NoSilentTransition

-----------------------------------------------------------------------------
(* WorkspaceLifecycle.                                                     *)

Templates == [kind : AllKinds, rev : 0 .. MaxEdits]

Reconciles ==
  [pc : {"idle", "workload", "clear", "status"}, ws : Workspaces,
   tpl : Templates, denied : BOOLEAN, at : 0 .. MaxClock, down : BOOLEAN,
   manual : BOOLEAN, ready : BOOLEAN, drifted : BOOLEAN]

Workloads == [exists : BOOLEAN, up : BOOLEAN, shape : Shapes]

Pods == [st : PodStates, shape : Shapes]

Decisions == [down : BOOLEAN, manual : BOOLEAN]

-----------------------------------------------------------------------------
(* What the building blocks of the actions return.                         *)

\* Resolve always returns a decision.
LEMMA ResolveType ==
  ASSUME NEW s, NEW t, NEW p \in BOOLEAN, NEW m
  PROVE  Resolve(s, t, p, m) \in Decisions
<1>1. ScheduledDown(s, t) \in BOOLEAN
  BY Zenon DEF ScheduledDown
<1>2. QED
  BY <1>1 DEF Resolve, Decisions

\* The idle reconcile is a reconcile.
LEMMA IdleType == Idle \in Reconciles
  BY BoundsAssumption
  DEF Idle, Reconciles, Workspaces, Templates, AllKinds, NoTime

\* The cached or current CR that Reconcile reads is a workspace.
LEMMA ViewType ==
  ASSUME ws \in Workspaces, seen \in Workspaces
  PROVE  View \in Workspaces
  BY DEF View

\* The fingerprint of a workspace and a template is a shape.
LEMMA DesiredType ==
  ASSUME NEW w \in Workspaces, NEW t \in Templates
  PROVE  Desired(w, t) \in Shapes
  BY DEF Desired, Workspaces, Templates, Shapes

\* What Reconcile keeps after ensureWorkload is well typed.
LEMMA LearnType ==
  ASSUME TypeOK, NEW d \in Decisions, NEW ready \in BOOLEAN,
         NEW drifted \in BOOLEAN, NEW reloaded \in BOOLEAN,
         Learn(d, ready, drifted, reloaded)
  PROVE  rc' \in Reconciles /\ served' \in 0 .. MaxReloads
<1> DEFINE consumed == /\ reloadRequested(rc.ws)
                       /\ reloaded \/ d.down \/ ~drifted
<1>1. rc \in Reconciles /\ rc.tpl.kind \in AllKinds /\ rc.ws.reload \in 0 .. MaxReloads
  BY DEF TypeOK, Reconciles, Templates, Workspaces
<1>2. [kind |-> rc.tpl.kind, rev |-> 0] \in Templates
  BY <1>1, BoundsAssumption DEF Templates
<1> DEFINE pc == IF consumed THEN "clear" ELSE "status"
<1>3. rc' = [Idle EXCEPT !.tpl = [kind |-> rc.tpl.kind, rev |-> 0],
                         !.pc = pc, !.at = clock, !.down = d.down,
                         !.manual = d.manual, !.ready = ready, !.drifted = drifted]
  BY DEF Learn
<1>6. /\ pc \in {"idle", "workload", "clear", "status"}
      /\ clock \in 0 .. MaxClock /\ d.down \in BOOLEAN /\ d.manual \in BOOLEAN
  BY DEF TypeOK, Decisions
<1> HIDE DEF consumed, pc
<1>4. rc' \in Reconciles
  BY <1>2, <1>3, <1>6, IdleType DEF Reconciles
<1>5. served' \in 0 .. MaxReloads
  BY <1>1 DEF Learn, TypeOK
<1>7. QED
  BY <1>4, <1>5

-----------------------------------------------------------------------------
(* Type correctness.                                                       *)

\* The initial states are well typed.
LEMMA InitTypeOK == Init => TypeOK
<1> SUFFICES ASSUME Init PROVE TypeOK
  OBVIOUS
<1>1. ws \in Workspaces
  BY StartPausedAssumption, BoundsAssumption DEF Init, Workspaces, NoTime
<1>2. seen \in Workspaces
  BY <1>1 DEF Init
<1>3. tpl \in [kind : Kinds, rev : 0 .. MaxEdits]
  BY BoundsAssumption DEF Init
<1>14. seenTpl \in [kind : Kinds, rev : 0 .. MaxEdits]
  BY <1>3 DEF Init
<1>4. denied \in BOOLEAN
  BY DEF Init
<1>5. NoShape \in Shapes
  BY BoundsAssumption DEF NoShape, Shapes
<1>6. wl \in [AllKinds -> Workloads]
  BY <1>5 DEF Init, Workloads, NoWorkload
<1>7. pod \in [AllKinds -> Pods]
  BY <1>5 DEF Init, Pods, NoPod, PodStates
<1>8. rc \in Reconciles
  BY IdleType DEF Init
<1>9. status \in [phase : Phases, drifted : BOOLEAN]
  BY DEF Init, Phases
<1>10. used \in [Events -> Nat] /\ forced \in [AllKinds -> Nat]
  BY DEF Init
<1>11. /\ clock \in 0 .. MaxClock
       /\ timer \in {NoTime} \cup 0 .. MaxClock
       /\ asked \in 0 .. MaxReloads /\ served \in 0 .. MaxReloads
  BY BoundsAssumption DEF Init, NoTime
<1>12. queued \in BOOLEAN /\ owed \subseteq {"change", "known"}
  BY DEF Init
<1>13. QED
  BY <1>1, <1>2, <1>3, <1>4, <1>6, <1>7, <1>8, <1>9, <1>10, <1>11, <1>12, <1>14
  DEF TypeOK, Reconciles, Templates, Workloads, Pods

\* Counting an event keeps the counters natural numbers.
LEMMA SpendType ==
  ASSUME used \in [Events -> Nat], NEW e \in Events, Spend(e)
  PROVE  used' \in [Events -> Nat]
  BY DEF Spend

\* The api-server's calls keep the CR well typed.
LEMMA ApiTypeOK ==
  ASSUME TypeOK,
         (\E p \in BOOLEAN : SetPaused(p)) \/ UpdateOverrides \/ Reload \/ IdleSweep
  PROVE  TypeOK'
<1> USE DEF TypeOK, apiVars
<1>1. ASSUME NEW p \in BOOLEAN, SetPaused(p) PROVE TypeOK'
  <2>1. ws' \in Workspaces
    BY <1>1 DEF SetPaused, Workspaces
  <2>2. used' \in [Events -> Nat]
    BY <1>1, SpendType DEF SetPaused, Events
  <2>3. UNCHANGED <<apiVars, asked, owed>>
    BY <1>1 DEF SetPaused
  <2>4. QED
    BY <2>1, <2>2, <2>3
<1>2. ASSUME UpdateOverrides PROVE TypeOK'
  <2>1. ws.ov + 1 \in 0 .. MaxOverrides
    BY <1>2, BoundsAssumption DEF UpdateOverrides, Workspaces
  <2>2. ws' \in Workspaces
    BY <1>2, <2>1 DEF UpdateOverrides, Workspaces
  <2>3. QED
    BY <1>2, <2>2 DEF UpdateOverrides
<1>3. ASSUME Reload PROVE TypeOK'
  <2>1. asked' \in 0 .. MaxReloads
    BY <1>3, BoundsAssumption DEF Reload
  <2>2. ws' \in Workspaces
    BY <1>3, <2>1 DEF Reload, Workspaces
  <2>3. owed' \subseteq {"change", "known"}
    BY <1>3 DEF Reload, Debt
  <2>4. QED
    BY <1>3, <2>1, <2>2, <2>3 DEF Reload
<1>4. ASSUME IdleSweep PROVE TypeOK'
  <2>1. ws' \in Workspaces
    BY <1>4 DEF IdleSweep, Workspaces
  <2>2. used' \in [Events -> Nat]
    BY <1>4, SpendType DEF IdleSweep, Events
  <2>3. QED
    BY <1>4, <2>1, <2>2 DEF IdleSweep
<1>5. QED
  BY <1>1, <1>2, <1>3, <1>4

\* So do the admin's edits, the clock, the watches and Kubernetes.
LEMMA WorldTypeOK ==
  ASSUME TypeOK,
         \/ EditTemplate \/ (\E k \in Kinds : SwitchKind(k)) \/ ChangeVerdict
         \/ Tick \/ Deliver \/ DeliverTemplate \/ Wake
  PROVE  TypeOK'
<1> USE DEF TypeOK, history
<1>1. ASSUME EditTemplate PROVE TypeOK'
  <2>1. tpl' \in [kind : Kinds, rev : 0 .. MaxEdits]
    BY <1>1, BoundsAssumption DEF EditTemplate
  <2>2. QED
    BY <1>1, <2>1 DEF EditTemplate
<1>2. ASSUME NEW k \in Kinds, SwitchKind(k) PROVE TypeOK'
  <2>1. tpl' \in [kind : Kinds, rev : 0 .. MaxEdits]
    BY <1>2 DEF SwitchKind
  <2>2. used' \in [Events -> Nat]
    BY <1>2, SpendType DEF SwitchKind, Events
  <2>3. QED
    BY <1>2, <2>1, <2>2 DEF SwitchKind
<1>3. ASSUME ChangeVerdict PROVE TypeOK'
  <2>1. used' \in [Events -> Nat]
    BY <1>3, SpendType DEF ChangeVerdict, Events
  <2>2. QED
    BY <1>3, <2>1 DEF ChangeVerdict
<1>4. ASSUME Tick PROVE TypeOK'
  <2>1. clock' \in 0 .. MaxClock
    BY <1>4, BoundsAssumption DEF Tick
  <2>2. QED
    BY <1>4, <2>1 DEF Tick
<1>5. ASSUME Deliver PROVE TypeOK'
  <2>1. queued' \in BOOLEAN
    BY <1>5 DEF Deliver
  <2>2. QED
    BY <1>5, <2>1 DEF Deliver
<1>6. ASSUME Wake PROVE TypeOK'
  BY <1>6 DEF Wake
<1>8. ASSUME DeliverTemplate PROVE TypeOK'
  BY <1>8 DEF DeliverTemplate
<1>7. QED
  BY <1>1, <1>2, <1>3, <1>4, <1>5, <1>6, <1>8

\* Kubernetes moves pods between their states and gives them known shapes.
LEMMA PodTypeOK ==
  ASSUME TypeOK, Kubernetes \/ \E k \in AllKinds : PodFails(k)
  PROVE  TypeOK'
<1>1. wl \in [AllKinds -> Workloads] /\ pod \in [AllKinds -> Pods]
  BY DEF TypeOK, Workloads, Pods
<1>2. NoPod \in Pods
  BY BoundsAssumption DEF NoPod, NoShape, Pods, Shapes, PodStates
<1>3. ASSUME NEW k \in AllKinds,
             PodCreated(k) \/ PodStopped(k) \/ PodGone(k) \/ PodReady(k)
      PROVE  TypeOK'
  <2>1. [st |-> "starting", shape |-> wl[k].shape] \in Pods
    BY <1>1 DEF Workloads, Pods, PodStates
  <2>2. ASSUME NEW st \in PodStates
        PROVE  [pod[k] EXCEPT !.st = st] \in Pods
    BY <1>1, <2>2 DEF Pods
  <2>3. pod' \in [AllKinds -> Pods]
    <3>1. CASE PodCreated(k)
      BY <3>1, <1>1, <2>1 DEF PodCreated
    <3>2. CASE PodStopped(k)
      BY <3>2, <1>1, <2>2 DEF PodStopped, PodStates
    <3>3. CASE PodGone(k)
      BY <3>3, <1>1, <1>2 DEF PodGone
    <3>4. CASE PodReady(k)
      BY <3>4, <1>1, <2>2 DEF PodReady, PodStates
    <3>5. QED
      BY <1>3, <3>1, <3>2, <3>3, <3>4
  <2>4. queued' \in BOOLEAN /\ UNCHANGED <<podVars, used>>
    BY <1>3 DEF PodCreated, PodStopped, PodGone, PodReady
  <2>5. QED
    BY <2>3, <2>4 DEF TypeOK, podVars, history, Pods
<1>4. ASSUME NEW k \in AllKinds, PodFails(k) PROVE TypeOK'
  <2>1. PICK st \in {"failed", IF k = "Pod" THEN "evicted" ELSE "terminating"} :
          pod' = [pod EXCEPT ![k].st = st]
    BY <1>4 DEF PodFails
  <2>2. st \in PodStates
    BY <2>1 DEF PodStates
  <2>3. [pod[k] EXCEPT !.st = st] \in Pods
    BY <1>1, <2>2 DEF Pods
  <2>4. pod' \in [AllKinds -> Pods]
    BY <1>1, <2>1, <2>3
  <2>5. used' \in [Events -> Nat]
    BY <1>4, SpendType DEF PodFails, Events, TypeOK
  <2>6. queued' \in BOOLEAN /\ UNCHANGED podVars
    BY <1>4 DEF PodFails
  <2>7. QED
    BY <2>4, <2>5, <2>6 DEF TypeOK, podVars, history, Pods
<1>5. QED
  BY <1>3, <1>4 DEF Kubernetes

\* ensureWorkload keeps the workload objects, the pods and what Reconcile
\* remembers well typed.
LEMMA EnsureTypeOK ==
  ASSUME TypeOK, EnsureWorkload
  PROVE  TypeOK'
<1> DEFINE d == Resolve(Sched, clock, rc.ws.paused, rc.ws.manualAt)
           want == Desired(rc.ws, rc.tpl)
<1>1. /\ rc.ws \in Workspaces /\ rc.tpl \in Templates
      /\ wl \in [AllKinds -> Workloads] /\ pod \in [AllKinds -> Pods]
      /\ forced \in [AllKinds -> Nat] /\ queued \in BOOLEAN /\ owed \subseteq {"change", "known"}
  BY DEF TypeOK, Templates, Workloads, Pods
<1>2. want \in Shapes
  BY <1>1, DesiredType
<1>3. rc.ws.paused \in BOOLEAN
  BY <1>1 DEF Workspaces
<1>4. d \in Decisions
  BY <1>3, ResolveType
<1>5. d.down \in BOOLEAN
  BY <1>4 DEF Decisions
<1>6. UNCHANGED <<clock, ws, seen, tpl, seenTpl, denied, status, timer, used, asked>>
  BY DEF EnsureWorkload
<1>7. SUFFICES /\ rc' \in Reconciles /\ served' \in 0 .. MaxReloads
               /\ wl' \in [AllKinds -> Workloads] /\ pod' \in [AllKinds -> Pods]
               /\ forced' \in [AllKinds -> Nat]
               /\ queued' \in BOOLEAN /\ owed' \subseteq {"change", "known"}
  BY <1>6 DEF TypeOK, Reconciles, Templates, Workloads, Pods
<1> HIDE DEF d, want
<1>8. CASE rc.tpl.kind = "Pod"
  <2>1. ensurePod(d)
    BY <1>8 DEF EnsureWorkload, d
  <2> DEFINE old == pod["Pod"]
             exists == old.st # "none"
             stale == exists /\ old.shape # want
             reloaded == exists /\ Reloads(stale, d.down, rc.ws)
             delete == exists /\ (d.down \/ reloaded)
             create == ~exists /\ ~d.down
  <2>2. old \in Pods
    BY <1>1 DEF AllKinds
  <2>3. [old EXCEPT !.st = "terminating"] \in Pods
    BY <2>2 DEF Pods, PodStates
  <2>4. [st |-> "starting", shape |-> want] \in Pods
    BY <1>2 DEF Pods, PodStates
  <2>5. pod' = [pod EXCEPT !["Pod"] =
                  IF delete THEN [old EXCEPT !.st = "terminating"]
                  ELSE IF create THEN [st |-> "starting", shape |-> want]
                  ELSE old]
    BY <2>1 DEF ensurePod, want
  <2>6. pod' \in [AllKinds -> Pods]
    BY <1>1, <2>2, <2>3, <2>4, <2>5
  <2>7. forced' \in [AllKinds -> Nat]
    <3>1. [forced EXCEPT !["Pod"] = @ + 1] \in [AllKinds -> Nat]
      BY <1>1 DEF AllKinds
    <3>2. forced' = forced \/ forced' = [forced EXCEPT !["Pod"] = @ + 1]
      BY <2>1 DEF ensurePod
    <3>3. QED
      BY <1>1, <3>1, <3>2
  <2>8. wl' = wl /\ queued' \in BOOLEAN
    BY <2>1 DEF ensurePod
  <2>13. owed' \subseteq {"change", "known"}
    BY <1>1, <2>1 DEF ensurePod
  <2>9. \A ready \in Readiness(old) : ready \in BOOLEAN
    BY DEF Readiness
  <2>10. PICK ready \in Readiness(old) :
           Learn(d, ready /\ ~delete, stale /\ ~delete, reloaded)
    BY <2>1 DEF ensurePod, want
  <2>11. rc' \in Reconciles /\ served' \in 0 .. MaxReloads
    <3>1. /\ (ready /\ ~delete) \in BOOLEAN /\ (stale /\ ~delete) \in BOOLEAN
          /\ reloaded \in BOOLEAN
      BY Zenon
    <3> HIDE DEF delete, stale, reloaded
    <3>2. QED
      BY <1>4, <2>10, <3>1, LearnType
  <2>12. QED
    BY <1>1, <2>6, <2>7, <2>8, <2>11, <2>13
<1>9. CASE rc.tpl.kind = "VM"
  <2>1. ensureVirtualMachine(d)
    BY <1>9 DEF EnsureWorkload, d
  <2> DEFINE old == wl["VM"]
             new == [exists |-> TRUE, up |-> ~d.down,
                     shape |-> IF old.exists THEN old.shape ELSE want]
  <2>2. old \in Workloads
    BY <1>1 DEF AllKinds
  <2>3. new \in Workloads
    BY <1>2, <2>2 DEF Workloads
  <2>4. wl' = [wl EXCEPT !["VM"] = new]
    BY <2>1 DEF ensureVirtualMachine, want
  <2>5. wl' \in [AllKinds -> Workloads]
    BY <1>1, <2>3, <2>4
  <2>6. UNCHANGED <<pod, queued, forced>> /\ owed' \subseteq {"change", "known"}
    BY <1>1, <2>1 DEF ensureVirtualMachine
  <2>7. PICK ready \in Readiness(pod["VM"]) :
          Learn(d, old.exists /\ ready /\ ~d.down, FALSE, FALSE)
    BY <2>1 DEF ensureVirtualMachine
  <2>8. (old.exists /\ ready /\ ~d.down) \in BOOLEAN
    BY Zenon
  <2>9. rc' \in Reconciles /\ served' \in 0 .. MaxReloads
    BY <1>4, <2>7, <2>8, LearnType
  <2>10. QED
    BY <1>1, <2>5, <2>6, <2>9
<1>10. CASE rc.tpl.kind \notin {"Pod", "VM"}
  <2> DEFINE k == rc.tpl.kind
             old == wl[k]
             stale == old.exists /\ old.shape # want
             boundary == stale /\ (~old.up \/ d.down)
             reloaded == old.exists /\ Reloads(stale, boundary, rc.ws)
             shape == IF old.exists /\ ~boundary /\ ~reloaded THEN old.shape ELSE want
             new == [exists |-> TRUE, up |-> ~d.down, shape |-> shape]
  <2>1. ensureScaled(k, d)
    BY <1>10 DEF EnsureWorkload, d
  <2>2. k \in AllKinds
    BY <1>1 DEF Templates
  <2>3. old \in Workloads
    BY <1>1, <2>2
  <2>4. new \in Workloads
    BY <1>2, <2>3 DEF Workloads
  <2>5. wl' = [wl EXCEPT ![k] = new] /\ pod' = pod
    BY <2>1 DEF ensureScaled, want
  <2>6. wl' \in [AllKinds -> Workloads]
    BY <1>1, <2>2, <2>4, <2>5
  <2>7. forced' \in [AllKinds -> Nat]
    <3>1. [forced EXCEPT ![k] = @ + 1] \in [AllKinds -> Nat]
      BY <1>1, <2>2
    <3>2. forced' = forced \/ forced' = [forced EXCEPT ![k] = @ + 1]
      BY <2>1 DEF ensureScaled
    <3>3. QED
      BY <1>1, <3>1, <3>2
  <2>8. queued' \in BOOLEAN
    BY <2>1 DEF ensureScaled
  <2>12. owed' \subseteq {"change", "known"}
    BY <1>1, <2>1 DEF ensureScaled
  <2>9. PICK ready \in Readiness(pod[k]) :
          Learn(d, old.exists /\ ready /\ ~d.down /\ ~reloaded,
                stale /\ ~boundary /\ ~reloaded, reloaded)
    BY <2>1 DEF ensureScaled, want
  <2>10. rc' \in Reconciles /\ served' \in 0 .. MaxReloads
    <3>1. /\ (old.exists /\ ready /\ ~d.down /\ ~reloaded) \in BOOLEAN
          /\ (stale /\ ~boundary /\ ~reloaded) \in BOOLEAN
          /\ reloaded \in BOOLEAN
      BY Zenon
    <3> HIDE DEF stale, boundary, reloaded
    <3>2. QED
      BY <1>4, <2>9, <3>1, LearnType
  <2>11. QED
    BY <1>1, <2>5, <2>6, <2>7, <2>8, <2>10, <2>12
<1>11. QED
  BY <1>8, <1>9, <1>10

\* The other steps of the operator.
LEMMA OperatorTypeOK ==
  ASSUME TypeOK,
         \/ BeginReconcile \/ ClearReloadRequest \/ PatchStatus
         \/ ReconcileError \/ OperatorRestart
  PROVE  TypeOK'
<1>1. View \in Workspaces
  BY ViewType DEF TypeOK
<1>2. rc \in Reconciles /\ status \in [phase : Phases, drifted : BOOLEAN]
  BY DEF TypeOK, Reconciles, Templates
<1>3. Abort => rc' \in Reconciles /\ queued' \in BOOLEAN
  BY IdleType DEF Abort
<1>4. ASSUME BeginReconcile PROVE TypeOK'
  <2>1. TplView \in Templates /\ denied \in BOOLEAN
    BY KindsAssumption DEF TypeOK, Templates, TplView
  <2>2. [Idle EXCEPT !.pc = "workload", !.ws = View, !.tpl = TplView,
                     !.denied = denied] \in Reconciles
    BY <1>1, <2>1, IdleType DEF Reconciles
  <2>3. [status EXCEPT !.phase = "Failed"] \in [phase : Phases, drifted : BOOLEAN]
    BY <1>2 DEF Phases
  <2>4. /\ rc' \in Reconciles /\ queued' \in BOOLEAN
        /\ status' \in [phase : Phases, drifted : BOOLEAN]
    <3>1. CASE ~View.paused /\ ~computeExists(TplView) /\ denied
      BY <1>2, <1>4, <2>3, <3>1 DEF BeginReconcile, Refuse
    <3>2. CASE ~(~View.paused /\ ~computeExists(TplView) /\ denied)
      BY <1>2, <1>4, <2>2, <3>2 DEF BeginReconcile
    <3>3. QED
      BY <3>1, <3>2
  <2>5. UNCHANGED <<clock, ws, seen, tpl, seenTpl, denied, wl, pod, timer, used, history>>
    BY <1>4 DEF BeginReconcile
  <2>6. QED
    BY <2>4, <2>5 DEF TypeOK, history, Reconciles, Templates
<1>5. ASSUME ClearReloadRequest PROVE TypeOK'
  <2>1. [rc EXCEPT !.pc = "status"] \in Reconciles
    BY <1>2 DEF Reconciles
  <2>2. [ws EXCEPT !.reload = 0] \in Workspaces
    <3>1. ws \in Workspaces /\ 0 \in 0 .. MaxReloads
      BY BoundsAssumption DEF TypeOK
    <3>2. QED
      BY <3>1 DEF Workspaces
  <2>3. /\ rc' \in Reconciles /\ queued' \in BOOLEAN
        /\ ws' \in Workspaces
    BY <1>3, <1>5, <2>1, <2>2 DEF ClearReloadRequest, TypeOK
  <2>4. UNCHANGED <<clock, seen, tpl, seenTpl, denied, status, wl, pod, timer, used,
                  history>>
    BY <1>5 DEF ClearReloadRequest
  <2>5. QED
    BY <2>3, <2>4 DEF TypeOK, history, Reconciles, Templates
<1>6. ASSUME PatchStatus PROVE TypeOK'
  <2>1. PhaseOf(rc) \in Phases
    BY DEF PhaseOf, Phases
  <2>2. [phase |-> PhaseOf(rc), drifted |-> rc.drifted]
          \in [phase : Phases, drifted : BOOLEAN]
    BY <1>2, <2>1 DEF Reconciles
  <2>3. rc.at \in 0 .. MaxClock
    BY <1>2 DEF Reconciles
  <2>4. /\ rc' \in Reconciles /\ queued' \in BOOLEAN
        /\ status' \in [phase : Phases, drifted : BOOLEAN]
        /\ timer' \in {NoTime} \cup 0 .. MaxClock
    <3>1. CASE View # ws
      BY <1>2, <1>3, <1>6, <3>1 DEF PatchStatus, TypeOK
    <3>2. CASE View = ws
      BY <1>6, <2>2, <2>3, <3>2, IdleType DEF PatchStatus, TypeOK
    <3>3. QED
      BY <3>1, <3>2
  <2>5. UNCHANGED <<clock, ws, seen, tpl, seenTpl, denied, wl, pod, used, history>>
    BY <1>6 DEF PatchStatus
  <2>6. QED
    BY <2>4, <2>5 DEF TypeOK, history, Reconciles, Templates
<1>7. ASSUME ReconcileError PROVE TypeOK'
  <2>1. used' \in [Events -> Nat]
    BY <1>7, SpendType DEF ReconcileError, Events, TypeOK
  <2>2. QED
    BY <1>3, <1>7, <2>1
    DEF ReconcileError, TypeOK, history, Reconciles, Templates
<1>8. ASSUME OperatorRestart PROVE TypeOK'
  <2>1. used' \in [Events -> Nat]
    BY <1>8, SpendType DEF OperatorRestart, Events, TypeOK
  <2>2. QED
    BY <1>3, <1>8, <2>1
    DEF OperatorRestart, TypeOK, history, Reconciles, Templates
<1>9. QED
  BY <1>4, <1>5, <1>6, <1>7, <1>8

\* Every step of the system keeps the state well typed.
LEMMA NextTypeOK == TypeOK /\ [Next]_vars => TypeOK'
<1>1. TypeOK /\ Next => TypeOK'
  BY ApiTypeOK, WorldTypeOK, PodTypeOK, EnsureTypeOK, OperatorTypeOK
  DEF Next, Operator, Environment
<1>2. TypeOK /\ UNCHANGED vars => TypeOK'
  BY DEF TypeOK, vars
<1>3. QED
  BY <1>1, <1>2

\* Type correctness of WorkspaceLifecycle: whatever Reconcile reads and
\* writes, from a stale cache or not, the phase is one the API declares and
\* every snapshot, workload and pod shape is one that template and CR had.
THEOREM TypesHold == Spec => []TypeOK
<1>1. QED
  BY InitTypeOK, NextTypeOK, PTL DEF Spec

-----------------------------------------------------------------------------
(* Mid-session restarts.  Revisions only grow, and a single worker runs    *)
(* Reconcile, so what the desktop was last rendered from is never newer    *)
(* than what the operator knows now: the snapshot of the reconcile that is *)
(* about to touch the workload, or else what the next one will read.  A    *)
(* reload needs a shape that differs from that, hence a strictly newer one.*)

Restartable == AllKinds \ {"VM"}

\* What the operator's next workload step will at least know.
KnownRev == IF rc.pc = "workload" THEN rc.tpl.rev ELSE TplView.rev
KnownOv == IF rc.pc = "workload" THEN rc.ws.ov ELSE View.ov

\* The kind's desktop has been rendered, from the shape LiveShape(k).
Rendered(k) == IF k = "Pod" THEN Live(pod[k]) ELSE wl[k].exists

Growth ==
  /\ seen.ov <= ws.ov /\ seenTpl.rev <= tpl.rev
  /\ KnownRev <= TplView.rev /\ KnownOv <= View.ov
  /\ \A k \in Restartable :
       /\ forced[k] <= KnownRev + KnownOv
       /\ Rendered(k) => /\ forced[k] <= LiveShape(k).rev + LiveShape(k).ov
                         /\ LiveShape(k).rev <= KnownRev
                         /\ LiveShape(k).ov <= KnownOv
  /\ forced["VM"] = 0

IInv == TypeOK /\ Growth

\* The revisions and counters of a well-typed state are numbers.
LEMMA Numbers ==
  ASSUME TypeOK
  PROVE  /\ ws.ov \in Nat /\ seen.ov \in Nat /\ View.ov \in Nat
         /\ tpl.rev \in Nat /\ seenTpl.rev \in Nat /\ TplView.rev \in Nat
         /\ rc.tpl.rev \in Nat /\ rc.ws.ov \in Nat
         /\ KnownRev \in Nat /\ KnownOv \in Nat
         /\ \A k \in AllKinds : /\ forced[k] \in Nat
                                /\ LiveShape(k).rev \in Nat
                                /\ LiveShape(k).ov \in Nat
<1>1. /\ ws.ov \in Nat /\ seen.ov \in Nat /\ tpl.rev \in Nat /\ seenTpl.rev \in Nat
      /\ rc.tpl.rev \in Nat /\ rc.ws.ov \in Nat
  BY BoundsAssumption DEF TypeOK, Workspaces
<1>2. View.ov \in Nat /\ TplView.rev \in Nat
  BY <1>1 DEF View, TplView
<1>3. KnownRev \in Nat /\ KnownOv \in Nat
  BY <1>1, <1>2 DEF KnownRev, KnownOv
<1>4. ASSUME NEW k \in AllKinds
      PROVE  /\ forced[k] \in Nat
             /\ LiveShape(k).rev \in Nat /\ LiveShape(k).ov \in Nat
  <2>1. wl[k].shape \in Shapes /\ pod[k].shape \in Shapes
    BY <1>4 DEF TypeOK
  <2>2. LiveShape(k) \in Shapes
    BY <2>1 DEF LiveShape
  <2>3. QED
    BY <1>4, <2>2, BoundsAssumption DEF TypeOK, Shapes
<1>5. QED
  BY <1>1, <1>2, <1>3, <1>4

\* The initial states satisfy the invariant.
LEMMA InitGrowth == Init => Growth
<1> SUFFICES ASSUME Init PROVE Growth
  OBVIOUS
<1>1. TypeOK
  BY InitTypeOK
<1>2. rc.pc = "idle" /\ seen = ws /\ seenTpl = tpl
  BY DEF Init, Idle
<1>3. KnownRev = TplView.rev /\ KnownOv = View.ov
  BY <1>2 DEF KnownRev, KnownOv
<1>4. ASSUME NEW k \in AllKinds
      PROVE  forced[k] = 0 /\ ~Rendered(k)
  BY <1>4 DEF Init, Rendered, Live, NoPod, NoWorkload
<1>5. QED
  BY <1>1, <1>2, <1>3, <1>4, Numbers DEF Growth, Restartable, AllKinds

\* A step that renders nothing, restarts nothing and forgets no revision
\* preserves the invariant.
LEMMA GrowthFrame ==
  ASSUME TypeOK, TypeOK', Growth,
         seen'.ov <= ws'.ov, View.ov <= View'.ov, TplView.rev <= TplView'.rev,
         seenTpl'.rev <= tpl'.rev,
         rc'.pc = "workload" => KnownRev' = KnownRev /\ KnownOv' = KnownOv,
         forced' = forced,
         \A k \in Restartable :
           Rendered(k)' => Rendered(k) /\ LiveShape(k)' = LiveShape(k)
  PROVE  Growth'
<1>1. /\ KnownRev \in Nat /\ KnownOv \in Nat /\ KnownRev' \in Nat /\ KnownOv' \in Nat
      /\ TplView.rev \in Nat /\ TplView'.rev \in Nat /\ View.ov \in Nat /\ View'.ov \in Nat
      /\ \A k \in AllKinds : /\ forced[k] \in Nat
                             /\ LiveShape(k).rev \in Nat /\ LiveShape(k).ov \in Nat
  <2>1. /\ KnownRev \in Nat /\ KnownOv \in Nat /\ TplView.rev \in Nat /\ View.ov \in Nat
        /\ \A k \in AllKinds : /\ forced[k] \in Nat
                               /\ LiveShape(k).rev \in Nat /\ LiveShape(k).ov \in Nat
    BY Numbers
  <2>2. tpl'.rev \in Nat /\ seenTpl'.rev \in Nat /\ rc'.tpl.rev \in Nat /\ rc'.ws.ov \in Nat
    BY BoundsAssumption DEF TypeOK, Workspaces
  <2>3. View'.ov \in Nat /\ TplView'.rev \in Nat
    BY <2>2, BoundsAssumption DEF TypeOK, Workspaces, View, TplView
  <2>4. QED
    BY <2>1, <2>2, <2>3 DEF KnownRev, KnownOv
<1>2. KnownRev <= TplView.rev /\ KnownOv <= View.ov
  BY DEF Growth
<1>3. /\ KnownRev <= KnownRev' /\ KnownOv <= KnownOv'
      /\ KnownRev' <= TplView'.rev /\ KnownOv' <= View'.ov
  <2>1. CASE rc'.pc = "workload"
    BY <1>1, <1>2, <2>1
  <2>2. CASE rc'.pc # "workload"
    <3>1. KnownRev' = TplView'.rev /\ KnownOv' = View'.ov
      BY <2>2 DEF KnownRev, KnownOv
    <3>2. QED
      BY <1>1, <1>2, <3>1
  <2>3. QED
    BY <2>1, <2>2
<1>4. ASSUME NEW k \in Restartable
      PROVE  /\ forced'[k] <= KnownRev' + KnownOv'
             /\ Rendered(k)' => /\ forced'[k] <= LiveShape(k)'.rev + LiveShape(k)'.ov
                                /\ LiveShape(k)'.rev <= KnownRev'
                                /\ LiveShape(k)'.ov <= KnownOv'
  <2>1. k \in AllKinds
    BY <1>4 DEF Restartable
  <2>2. forced[k] <= KnownRev + KnownOv
    BY <1>4 DEF Growth
  <2>3. Rendered(k)' => /\ LiveShape(k)' = LiveShape(k)
                        /\ forced[k] <= LiveShape(k).rev + LiveShape(k).ov
                        /\ LiveShape(k).rev <= KnownRev
                        /\ LiveShape(k).ov <= KnownOv
    BY <1>4 DEF Growth
  <2>4. QED
    BY <1>1, <1>3, <2>1, <2>2, <2>3
<1>5. forced'["VM"] = 0
  BY DEF Growth
<1>6. QED
  BY <1>3, <1>4, <1>5 DEF Growth

\* Reads are at least as new after a step that loses no revision of the CR.
LEMMA ViewGrows ==
  ASSUME ws.ov <= ws'.ov, seen.ov <= seen'.ov
  PROVE  View.ov <= View'.ov
  BY DEF View

\* The same for the template.
LEMMA TplViewGrows ==
  ASSUME tpl.rev <= tpl'.rev, seenTpl.rev <= seenTpl'.rev
  PROVE  TplView.rev <= TplView'.rev
  BY DEF TplView

\* Nothing but ensureWorkload renders or restarts a desktop, and no step
\* forgets a revision of the template or of the CR.
LEMMA OtherGrowth ==
  ASSUME TypeOK, TypeOK', Growth, Next, ~EnsureWorkload
  PROVE  Growth'
<1>1. /\ ws.ov \in Nat /\ seen.ov \in Nat /\ tpl.rev \in Nat
      /\ seenTpl.rev \in Nat /\ View.ov \in Nat /\ TplView.rev \in Nat
      /\ seen.ov <= ws.ov /\ seenTpl.rev <= tpl.rev
  BY Numbers DEF Growth
<1>2. ASSUME UNCHANGED <<wl, pod>>, NEW k \in Restartable
      PROVE  Rendered(k)' => Rendered(k) /\ LiveShape(k)' = LiveShape(k)
  BY <1>2 DEF Rendered, Live, LiveShape
<1>3. ASSUME UNCHANGED <<rc, tpl, seenTpl, forced, wl, pod>>,
             ws.ov <= ws'.ov, seen.ov <= seen'.ov, seen'.ov <= ws'.ov
      PROVE  Growth'
  <2>1. View.ov <= View'.ov /\ TplView' = TplView
    BY <1>3, ViewGrows DEF TplView
  <2>2. rc'.pc = "workload" => KnownRev' = KnownRev /\ KnownOv' = KnownOv
    BY <1>3 DEF KnownRev, KnownOv
  <2>3. QED
    BY <1>1, <1>2, <1>3, <2>1, <2>2, GrowthFrame
<1>4. ASSUME NEW p \in BOOLEAN, SetPaused(p) PROVE Growth'
  <2>1. ws'.ov = ws.ov
    BY <1>4 DEF SetPaused, TypeOK, Workspaces
  <2>2. UNCHANGED <<seen, rc, tpl, seenTpl, forced, wl, pod>>
    BY <1>4 DEF SetPaused, apiVars
  <2>3. QED
    BY <1>1, <1>3, <2>1, <2>2
<1>5. CASE UpdateOverrides
  <2>1. ws'.ov = ws.ov + 1
    BY <1>5 DEF UpdateOverrides, TypeOK, Workspaces
  <2>2. UNCHANGED <<seen, rc, tpl, seenTpl, forced, wl, pod>>
    BY <1>5 DEF UpdateOverrides, apiVars
  <2>3. QED
    BY <1>1, <1>3, <2>1, <2>2
<1>6. CASE Reload \/ IdleSweep
  <2>1. ws'.ov = ws.ov
    BY <1>6 DEF Reload, IdleSweep, TypeOK, Workspaces
  <2>2. UNCHANGED <<seen, rc, tpl, seenTpl, forced, wl, pod>>
    BY <1>6 DEF Reload, IdleSweep, apiVars
  <2>3. QED
    BY <1>1, <1>3, <2>1, <2>2
<1>7. ASSUME EditTemplate \/ (\E k \in Kinds : SwitchKind(k)) \/ DeliverTemplate
      PROVE  Growth'
  <2>1. /\ tpl.rev <= tpl'.rev /\ seenTpl.rev <= seenTpl'.rev
        /\ seenTpl'.rev <= tpl'.rev
    <3>1. CASE EditTemplate
      BY <1>1, <3>1 DEF EditTemplate, TypeOK
    <3>2. CASE \E k \in Kinds : SwitchKind(k)
      BY <1>1, <3>2 DEF SwitchKind, TypeOK
    <3>3. CASE DeliverTemplate
      BY <1>1, <3>3 DEF DeliverTemplate
    <3>4. QED
      BY <1>7, <3>1, <3>2, <3>3
  <2>2. UNCHANGED <<ws, seen, rc, forced, wl, pod>>
    BY <1>7 DEF EditTemplate, SwitchKind, DeliverTemplate, history
  <2>3. View' = View /\ TplView.rev <= TplView'.rev
    BY <2>1, <2>2, TplViewGrows DEF View
  <2>4. rc'.pc = "workload" => KnownRev' = KnownRev /\ KnownOv' = KnownOv
    BY <2>2 DEF KnownRev, KnownOv
  <2>5. QED
    BY <1>1, <1>2, <2>1, <2>2, <2>3, <2>4, GrowthFrame
<1>8. CASE ChangeVerdict \/ Tick \/ Wake
  <2>1. UNCHANGED <<ws, seen, rc, tpl, seenTpl, forced, wl, pod>>
    BY <1>8 DEF ChangeVerdict, Tick, Wake, history
  <2>2. QED
    BY <1>1, <1>3, <2>1
<1>9. CASE Deliver
  <2>1. seen' = ws /\ UNCHANGED <<ws, rc, tpl, seenTpl, forced, wl, pod>>
    BY <1>9 DEF Deliver, history
  <2>2. QED
    BY <1>1, <1>3, <2>1
<1>10. ASSUME NEW j \in AllKinds,
              \/ PodCreated(j) \/ PodStopped(j) \/ PodGone(j)
              \/ PodReady(j) \/ PodFails(j)
       PROVE  Growth'
  <2>1. UNCHANGED <<ws, seen, rc, tpl, seenTpl, forced, wl>>
    BY <1>10 DEF PodCreated, PodStopped, PodGone, PodReady, PodFails,
                 podVars, history
  <2>2. View' = View /\ TplView' = TplView
    BY <2>1 DEF View, TplView
  <2>3. KnownRev' = KnownRev /\ KnownOv' = KnownOv
    BY <2>1, <2>2 DEF KnownRev, KnownOv
  <2>4. Live(pod'["Pod"]) => Live(pod["Pod"]) /\ pod'["Pod"].shape = pod["Pod"].shape
    <3>1. pod \in [AllKinds -> Pods] /\ "Pod" \in AllKinds
      BY DEF TypeOK, Pods, AllKinds
    <3>2. CASE PodCreated(j)
      BY <3>1, <3>2 DEF PodCreated, Scaled
    <3>3. CASE PodStopped(j)
      BY <3>1, <3>3 DEF PodStopped, Scaled
    <3>4. CASE PodGone(j)
      BY <3>1, <3>4 DEF PodGone, NoPod, Live
    <3>5. CASE PodReady(j)
      BY <3>1, <3>5 DEF PodReady, Live, Pods
    <3>6. CASE PodFails(j)
      BY <3>1, <3>6 DEF PodFails, Live, Pods
    <3>7. QED
      BY <1>10, <3>2, <3>3, <3>4, <3>5, <3>6
  <2>5. ASSUME NEW k \in Restartable
        PROVE  Rendered(k)' => Rendered(k) /\ LiveShape(k)' = LiveShape(k)
    BY <2>1, <2>4 DEF Rendered, LiveShape
  <2>6. QED
    BY <1>1, <2>1, <2>2, <2>3, <2>5, GrowthFrame
<1>11. CASE BeginReconcile
  <2>1. UNCHANGED <<ws, seen, tpl, seenTpl, forced, wl, pod>> /\ rc.pc = "idle"
    BY <1>11 DEF BeginReconcile, history
  <2>2. View' = View /\ TplView' = TplView /\ KnownRev = TplView.rev /\ KnownOv = View.ov
    BY <2>1 DEF View, TplView, KnownRev, KnownOv
  <2>3. \/ rc' = rc
        \/ rc' = [Idle EXCEPT !.pc = "workload", !.ws = View, !.tpl = TplView,
                             !.denied = denied]
    BY <1>11 DEF BeginReconcile, Refuse
  <2>4. rc'.pc = "workload" => rc'.tpl = TplView /\ rc'.ws = View
    BY <2>1, <2>3 DEF Idle
  <2>5. rc'.pc = "workload" => KnownRev' = KnownRev /\ KnownOv' = KnownOv
    BY <2>2, <2>4 DEF KnownRev, KnownOv
  <2>6. QED
    BY <1>1, <1>2, <2>1, <2>2, <2>5, GrowthFrame
<1>12. CASE ClearReloadRequest \/ PatchStatus \/ ReconcileError \/ OperatorRestart
  <2>1. UNCHANGED <<tpl, forced, wl, pod>>
    BY <1>12 DEF ClearReloadRequest, PatchStatus, ReconcileError,
                 OperatorRestart, history
  <2>2. rc'.pc # "workload"
    BY <1>12 DEF ClearReloadRequest, PatchStatus, ReconcileError,
                 OperatorRestart, Abort, Idle, TypeOK
  <2>3. ws'.ov = ws.ov
    BY <1>12 DEF ClearReloadRequest, PatchStatus, ReconcileError,
                 OperatorRestart, TypeOK, Workspaces
  <2>4. seen.ov <= seen'.ov /\ seen'.ov <= ws'.ov
    BY <1>1, <1>12, <2>3 DEF ClearReloadRequest, PatchStatus, ReconcileError,
                 OperatorRestart
  <2>7. seenTpl.rev <= seenTpl'.rev /\ seenTpl'.rev <= tpl'.rev
    BY <1>1, <1>12 DEF ClearReloadRequest, PatchStatus, ReconcileError, OperatorRestart
  <2>5. View.ov <= View'.ov /\ TplView.rev <= TplView'.rev
    BY <1>1, <2>1, <2>3, <2>4, <2>7, ViewGrows, TplViewGrows
  <2>6. QED
    BY <1>1, <1>2, <2>1, <2>2, <2>4, <2>5, <2>7, GrowthFrame
<1>13. QED
  BY <1>4, <1>5, <1>6, <1>7, <1>8, <1>9, <1>10, <1>11, <1>12
  DEF Next, Operator, Environment, Kubernetes

\* Two different shapes, one at most as new as the other: strictly fewer
\* revisions went into the older one.
LEMMA OlderShape ==
  ASSUME NEW a \in Shapes, NEW b \in Shapes,
         a # b, a.rev <= b.rev, a.ov <= b.ov
  PROVE  a.rev + a.ov + 1 <= b.rev + b.ov
<1>1. /\ a.rev \in Nat /\ a.ov \in Nat /\ b.rev \in Nat /\ b.ov \in Nat
  BY BoundsAssumption DEF Shapes
<1>2. a.rev # b.rev \/ a.ov # b.ov
  BY DEF Shapes
<1>3. QED
  BY <1>1, <1>2

\* ensureWorkload renders from the reconcile's snapshot, and a restart needs
\* a snapshot strictly newer than what is running.
LEMMA EnsureGrowth ==
  ASSUME TypeOK, TypeOK', Growth, EnsureWorkload
  PROVE  Growth'
<1> DEFINE d == Resolve(Sched, clock, rc.ws.paused, rc.ws.manualAt)
           want == Desired(rc.ws, rc.tpl)
           kind == rc.tpl.kind
<1>1. /\ rc.ws \in Workspaces /\ rc.tpl \in Templates /\ kind \in AllKinds
      /\ wl \in [AllKinds -> Workloads] /\ pod \in [AllKinds -> Pods]
      /\ forced \in [AllKinds -> Nat]
  BY DEF TypeOK, Templates, Workloads, Pods
<1>2. want \in Shapes
  BY <1>1, DesiredType
<1>3. want.rev = KnownRev /\ want.ov = KnownOv
  BY DEF EnsureWorkload, Desired, KnownRev, KnownOv
<1>4. UNCHANGED <<ws, seen, tpl, seenTpl>>
  BY DEF EnsureWorkload
<1>5. rc'.pc # "workload"
  <2>1. \A dd, ready, drifted, reloaded :
           Learn(dd, ready, drifted, reloaded) => rc'.pc # "workload"
    BY DEF Learn, Idle
  <2>2. QED
    BY <2>1 DEF EnsureWorkload, ensurePod, ensureVirtualMachine, ensureScaled
<1>6. /\ KnownRev' = TplView.rev /\ KnownOv' = View.ov
      /\ View' = View /\ TplView' = TplView
  BY <1>4, <1>5 DEF KnownRev, KnownOv, View, TplView
<1>7. /\ KnownRev \in Nat /\ KnownOv \in Nat /\ TplView.rev \in Nat /\ View.ov \in Nat
      /\ \A k \in AllKinds : /\ forced[k] \in Nat
                             /\ LiveShape(k).rev \in Nat /\ LiveShape(k).ov \in Nat
  BY Numbers
<1>8. /\ KnownRev <= TplView.rev /\ KnownOv <= View.ov
      /\ seen.ov <= ws.ov /\ seenTpl.rev <= tpl.rev
  BY DEF Growth
<1>9. SUFFICES
        /\ \A k \in Restartable :
             \/ /\ forced'[k] = forced[k]
                /\ Rendered(k)' => Rendered(k) /\ LiveShape(k)' = LiveShape(k)
             \/ /\ forced'[k] = forced[k]
                /\ LiveShape(k)' = want
             \/ /\ forced'[k] = forced[k] + 1
                /\ Rendered(k) /\ LiveShape(k) # want
                /\ Rendered(k)' => LiveShape(k)' = want
        /\ forced'["VM"] = forced["VM"]
  <2>1. ASSUME NEW k \in Restartable
        PROVE  /\ forced'[k] <= KnownRev' + KnownOv'
               /\ Rendered(k)' => /\ forced'[k] <= LiveShape(k)'.rev + LiveShape(k)'.ov
                                  /\ LiveShape(k)'.rev <= KnownRev'
                                  /\ LiveShape(k)'.ov <= KnownOv'
    <3>1. k \in AllKinds
      BY <2>1 DEF Restartable
    <3>2. /\ forced[k] <= KnownRev + KnownOv
          /\ Rendered(k) => /\ forced[k] <= LiveShape(k).rev + LiveShape(k).ov
                            /\ LiveShape(k).rev <= KnownRev
                            /\ LiveShape(k).ov <= KnownOv
      BY <2>1 DEF Growth
    <3>3. CASE /\ forced'[k] = forced[k]
               /\ Rendered(k)' => Rendered(k) /\ LiveShape(k)' = LiveShape(k)
      BY <1>6, <1>7, <1>8, <3>1, <3>2, <3>3
    <3>4. CASE forced'[k] = forced[k] /\ LiveShape(k)' = want
      BY <1>3, <1>6, <1>7, <1>8, <3>1, <3>2, <3>4
    <3>5. CASE /\ forced'[k] = forced[k] + 1
               /\ Rendered(k) /\ LiveShape(k) # want
               /\ Rendered(k)' => LiveShape(k)' = want
      <4>1. LiveShape(k) \in Shapes
        BY <1>1, <3>1 DEF LiveShape, Workloads, Pods
      <4>2. LiveShape(k).rev + LiveShape(k).ov + 1 <= want.rev + want.ov
        BY <1>2, <1>3, <3>2, <3>5, <4>1, OlderShape
      <4>3. forced'[k] <= KnownRev + KnownOv
        BY <1>3, <1>7, <3>1, <3>2, <3>5, <4>2
      <4>4. QED
        BY <1>3, <1>6, <1>7, <1>8, <3>1, <3>5, <4>3
    <3>6. QED
      BY <1>9, <2>1, <3>3, <3>4, <3>5
  <2>2. forced'["VM"] = 0
    BY <1>9 DEF Growth
  <2>3. /\ seen'.ov <= ws'.ov /\ seenTpl'.rev <= tpl'.rev
        /\ KnownRev' <= TplView'.rev /\ KnownOv' <= View'.ov
    BY <1>4, <1>6, <1>7, <1>8
  <2>4. QED
    BY <2>1, <2>2, <2>3 DEF Growth
<1> HIDE DEF d, want
<1>10. CASE kind = "Pod"
  <2>1. ensurePod(d)
    BY <1>10 DEF EnsureWorkload, d
  <2> DEFINE old == pod["Pod"]
             exists == old.st # "none"
             stale == exists /\ old.shape # want
             reloaded == exists /\ Reloads(stale, d.down, rc.ws)
             delete == exists /\ (d.down \/ reloaded)
             create == ~exists /\ ~d.down
  <2>2. /\ wl' = wl
        /\ pod' = [pod EXCEPT !["Pod"] =
                     IF delete THEN [old EXCEPT !.st = "terminating"]
                     ELSE IF create THEN [st |-> "starting", shape |-> want]
                     ELSE old]
        /\ forced' = IF reloaded /\ Live(old) THEN [forced EXCEPT !["Pod"] = @ + 1]
                     ELSE forced
    BY <2>1 DEF ensurePod, want
  <2>3. ASSUME NEW k \in Restartable, k # "Pod"
        PROVE  /\ forced'[k] = forced[k]
               /\ Rendered(k)' => Rendered(k) /\ LiveShape(k)' = LiveShape(k)
    BY <1>1, <2>2, <2>3 DEF Rendered, LiveShape, Restartable
  <2>4. "Pod" \in AllKinds /\ old \in Pods
    BY <1>1 DEF AllKinds
  <2>5. reloaded => stale
    BY DEF Reloads
  <2>6. CASE reloaded /\ Live(old)
    <3>1. forced'["Pod"] = forced["Pod"] + 1
      BY <1>1, <2>2, <2>4, <2>6
    <3>2. ~Rendered("Pod")'
      BY <1>1, <2>2, <2>4, <2>6 DEF Rendered, Live, Pods
    <3>3. Rendered("Pod") /\ LiveShape("Pod") # want
      BY <2>5, <2>6 DEF Rendered, LiveShape
    <3>4. forced'["VM"] = forced["VM"]
      BY <1>1, <2>2, <2>6 DEF AllKinds
    <3>5. QED
      BY <2>3, <3>1, <3>2, <3>3, <3>4
  <2>7. CASE ~(reloaded /\ Live(old))
    <3>1. forced' = forced
      BY <2>2, <2>7
    <3>2. \/ Rendered("Pod")' => Rendered("Pod") /\ LiveShape("Pod")' = LiveShape("Pod")
          \/ LiveShape("Pod")' = want
      <4>1. CASE delete
        BY <1>1, <2>2, <2>4, <4>1 DEF Rendered, Live, Pods
      <4>2. CASE ~delete /\ create
        BY <1>1, <2>2, <2>4, <4>2 DEF LiveShape
      <4>3. CASE ~delete /\ ~create
        BY <1>1, <2>2, <2>4, <4>3 DEF Rendered, LiveShape
      <4>4. QED
        BY <4>1, <4>2, <4>3
    <3>3. QED
      BY <2>3, <3>1, <3>2
  <2>8. QED
    BY <2>6, <2>7
<1>11. CASE kind = "VM"
  <2>1. ensureVirtualMachine(d)
    BY <1>11 DEF EnsureWorkload, d
  <2>2. UNCHANGED <<pod, forced>> /\ \A k \in Restartable : wl'[k] = wl[k]
    BY <1>1, <2>1 DEF ensureVirtualMachine, Restartable
  <2>3. ASSUME NEW k \in Restartable
        PROVE  Rendered(k)' => Rendered(k) /\ LiveShape(k)' = LiveShape(k)
    BY <2>2, <2>3 DEF Rendered, LiveShape
  <2>4. QED
    BY <2>2, <2>3
<1>12. CASE kind \notin {"Pod", "VM"}
  <2>0. PICK j \in AllKinds : j = kind /\ j \notin {"Pod", "VM"}
    BY <1>1, <1>12
  <2> DEFINE old == wl[j]
             stale == old.exists /\ old.shape # want
             boundary == stale /\ (~old.up \/ d.down)
             reloaded == old.exists /\ Reloads(stale, boundary, rc.ws)
             keep == old.exists /\ ~boundary /\ ~reloaded
             new == [exists |-> TRUE, up |-> ~d.down,
                     shape |-> IF keep THEN old.shape ELSE want]
  <2>1. ensureScaled(j, d)
    BY <1>12, <2>0 DEF EnsureWorkload, d
  <2>2. /\ pod' = pod
        /\ wl' = [wl EXCEPT ![j] = new]
        /\ forced' = IF reloaded THEN [forced EXCEPT ![j] = @ + 1] ELSE forced
    BY <2>1 DEF ensureScaled, want
  <2>3. ASSUME NEW k \in Restartable, k # j
        PROVE  /\ forced'[k] = forced[k]
               /\ Rendered(k)' => Rendered(k) /\ LiveShape(k)' = LiveShape(k)
    BY <1>1, <2>2, <2>3 DEF Rendered, LiveShape, Restartable
  <2>4. reloaded => stale /\ old.exists
    BY DEF Reloads
  <2>5. LiveShape(j) = old.shape /\ (Rendered(j) <=> old.exists)
    BY <2>0 DEF LiveShape, Rendered
  <2>6. LiveShape(j)' = IF keep THEN old.shape ELSE want
    BY <1>1, <2>0, <2>2 DEF LiveShape
  <2>7. forced'[j] = IF reloaded THEN forced[j] + 1 ELSE forced[j]
    BY <1>1, <2>2
  <2>8. forced'["VM"] = forced["VM"]
    BY <1>1, <2>0, <2>2 DEF AllKinds
  <2>9. CASE reloaded
    BY <2>3, <2>4, <2>5, <2>6, <2>7, <2>8, <2>9
  <2>10. CASE ~reloaded
    BY <2>3, <2>5, <2>6, <2>7, <2>8, <2>10
  <2>11. QED
    BY <2>9, <2>10
<1>13. QED
  BY <1>10, <1>11, <1>12

\* ADR 0001 for every schedule, every mix of workload kinds and every
\* interleaving, with stale reads, errors and operator restarts included: a
\* running desktop is restarted at most once per change of configuration.
THEOREM RestartsBounded == Spec => []RestartsNeedNewShape
<1>1. Init => IInv
  BY InitTypeOK, InitGrowth DEF IInv
<1>2. IInv /\ [Next]_vars => IInv'
  <2>1. ASSUME IInv, Next PROVE IInv'
    BY <2>1, NextTypeOK, OtherGrowth, EnsureGrowth DEF IInv
  <2>2. ASSUME IInv, UNCHANGED vars PROVE IInv'
    <3>1. TypeOK'
      BY <2>2, NextTypeOK DEF IInv
    <3>2. /\ View' = View /\ TplView' = TplView
          /\ KnownRev' = KnownRev /\ KnownOv' = KnownOv
      BY <2>2 DEF vars, View, TplView, KnownRev, KnownOv
    <3>3. Growth'
      BY <2>2, <3>1, <3>2
      DEF IInv, Growth, vars, Rendered, Live, LiveShape
    <3>4. QED
      BY <3>1, <3>3 DEF IInv
  <2>3. QED
    BY <2>1, <2>2
<1>3. IInv => RestartsNeedNewShape
  <2> SUFFICES ASSUME IInv, NEW k \in AllKinds
               PROVE  forced[k] <= tpl.rev + ws.ov
    BY DEF RestartsNeedNewShape
  <2>1. TypeOK /\ Growth
    BY DEF IInv
  <2>2. View.ov <= ws.ov /\ TplView.rev <= tpl.rev
    BY <2>1, Numbers DEF Growth, View, TplView
  <2>3. CASE k = "VM"
    BY <2>1, <2>3, Numbers DEF Growth
  <2>4. CASE k # "VM"
    <3>1. forced[k] <= KnownRev + KnownOv /\ KnownRev <= TplView.rev /\ KnownOv <= View.ov
      BY <2>1, <2>4 DEF Growth, Restartable
    <3>2. QED
      BY <2>1, <2>2, <3>1, Numbers
  <2>5. QED
    BY <2>3, <2>4
<1>4. QED
  BY <1>1, <1>2, <1>3, PTL DEF Spec
=============================================================================
