--------------------------- MODULE MCScheduleRule ---------------------------
(* ScheduleRule on periodic crons.  The fire sets reach well past the last *)
(* instant of a run, so that every cron always has a next activation.      *)
EXTENDS ScheduleRule

Last == 3 * ScanHorizon

Periodic(period, offset) == {x \in 0 .. Last : x % period = offset}

\* Crons that fire at least once in every window of ScanHorizon instants.
Crons == UNION {{Periodic(p, o) : o \in 0 .. p - 1} : p \in {2, 3, 5}}

Lists == {<<>>} \cup {<<c>> : c \in Crons}

\* At most one cron of each kind, as in every example of the repository.
MCSingle == {[uptime |-> u, downtime |-> d] : u \in Lists, d \in Lists}

\* Two start crons, e.g. one for week days and one for Saturdays, and a
\* stop cron that never fires together with them.
MCDouble == {[uptime |-> <<x[1], x[2]>>, downtime |-> <<x[3]>>] :
               x \in {y \in Crons \X Crons \X Crons :
                       y[3] \cap (y[1] \cup y[2]) = {}}}

\* The hypothesis of the theorem about FollowsLastEvent.
ASSUME CronsAreRegular == \A c \in Crons : Regular(c)
=============================================================================
