--------------------------- MODULE HealthMonitor ---------------------------
(***************************************************************************)
(* The tool-health monitor. Each poll probes every configured checker and  *)
(* decides under the mutex what to tell the Master. Only ages of times     *)
(* matter (how long down, how long since the last push), and only up to    *)
(* the reminder interval, so they are kept as ages that stop there.        *)
(***************************************************************************)
EXTENDS Integers

CONSTANTS
  Checker,
  Configured,  \* the checkers buildHealthCheckers registers
  DependsOn,   \* OnlyIfHealthy: the checker that suppresses this one, or None
  None,
  Gap,         \* ticks from one poll to the next, at most
  Grace,       \* ticks a transient failure is kept quiet
  Remind,      \* ticks between pushes about one checker
  DayLength, DayStart, DayEnd

ASSUME MonitorConstants ==
  /\ Configured \subseteq Checker
  /\ None \notin Checker /\ None \notin Int
  /\ DependsOn \in [Checker -> Checker \cup {None}]
  /\ \A c \in Checker : DependsOn[c] # None => DependsOn[DependsOn[c]] = None
  /\ Gap \in Nat \ {0} /\ Grace \in Nat /\ Remind \in Nat \ {0} /\ Grace <= Remind
  /\ DayLength \in Nat \ {0} /\ DayStart \in Nat /\ DayEnd \in Nat

Reply == {"healthy", "unknown", "transient", "urgent"}
Age == 0..Remind

VARIABLES
  hour,
  probe,    \* what the last poll's probes would answer
  prev,     \* m.prev
  downFor,  \* age of m.downSince, None when absent
  since,    \* age of m.lastNotify, None when absent
  told      \* history: what the Master last heard of a checker

monitor == <<hour, probe, prev, downFor, since, told>>

MonitorInit ==
  /\ hour \in 0..(DayLength - 1)
  /\ probe = [c \in Checker |-> "unknown"]
  /\ prev = [c \in Checker |-> "none"]
  /\ downFor = [c \in Checker |-> None]
  /\ since = [c \in Checker |-> None]
  /\ told = [c \in Checker |-> "none"]

Later(age, d) == IF age = None THEN None ELSE IF age + d < Remind THEN age + d ELSE Remind
AtLeast(age, bound) == age # None /\ age >= bound

\* Mutant. A checker is probed whatever the state of the one it depends on.
OutcomeUnsuppressed(res, c) == IF c \notin Configured THEN "unknown" ELSE res[c]

\* Results of one poll: a checker whose OnlyIfHealthy is not healthy in this
\* same poll is unknown, and so is one that is not registered.
Outcome(res, c) ==
  IF \/ c \notin Configured
     \/ /\ DependsOn[c] # None
        /\ DependsOn[c] \notin Configured \/ res[DependsOn[c]] # "healthy"
  THEN "unknown" ELSE res[c]

Failing(o) == o \in {"transient", "urgent"}

\* Mutant. A transient failure is pushed only in daytime.
DueByDay(o, down, last, h) ==
  /\ last = None \/ AtLeast(last, Remind)
  /\ \/ o = "urgent"
     \/ /\ o = "transient" /\ down >= Grace
        /\ DayStart <= h /\ h < DayEnd

\* Whether a failure is pushed: urgent ones unless one was pushed lately,
\* transient ones after the grace period, by day or when down for long.
Due(o, down, last, h) ==
  /\ last = None \/ AtLeast(last, Remind)
  /\ \/ o = "urgent"
     \/ /\ o = "transient" /\ down >= Grace
        /\ (DayStart <= h /\ h < DayEnd) \/ down >= Remind

\* Mutant. Recovery does not end the outage.
DownForKept(o, c, d) ==
  IF Failing(o) /\ downFor[c] = None THEN 0 ELSE Later(downFor[c], d)

\* m.downSince: set by the first failure, deleted by recovery.
DownFor(o, c, d) ==
  IF o = "healthy" THEN None
  ELSE IF Failing(o) /\ downFor[c] = None THEN 0
  ELSE Later(downFor[c], d)

\* What the poll pushes about a checker: "up", "down" or nothing.
Push(o, c, d, h) ==
  IF o = "healthy" /\ prev[c] = "unhealthy" THEN "up"
  ELSE IF Failing(o) /\ Due(o, DownFor(o, c, d), Later(since[c], d), h) THEN "down"
  ELSE "none"

\* Mutant. An unknown result forgets that the checker was failing.
PrevForgetting(o, c) ==
  IF Failing(o) THEN "unhealthy" ELSE IF o = "healthy" THEN "healthy" ELSE "none"

\* m.prev: an unknown result leaves it alone.
Prev(o, c) ==
  IF o = "unknown" THEN prev[c] ELSE IF o = "healthy" THEN "healthy" ELSE "unhealthy"

Poll(d, res) ==
  LET h == (hour + d) % DayLength
      out(c) == Outcome(res, c)
      push(c) == Push(out(c), c, d, h)
  IN /\ hour' = h
     /\ probe' = res
     /\ prev' = [c \in Checker |-> Prev(out(c), c)]
     /\ downFor' = [c \in Checker |-> DownFor(out(c), c, d)]
     /\ since' = [c \in Checker |->
                    IF push(c) # "none" THEN 0 ELSE Later(since[c], d)]
     /\ told' = [c \in Checker |-> IF push(c) # "none" THEN push(c) ELSE told[c]]

MonitorNext == \E d \in 1..Gap, res \in [Checker -> Reply] : Poll(d, res)

MonitorSpec == MonitorInit /\ [][MonitorNext]_monitor

---------------------------------------------------------------------------
\* Every variable has its type; a failing checker has been down since a time.
MonitorTypeOK ==
  /\ hour \in 0..(DayLength - 1)
  /\ probe \in [Checker -> Reply]
  /\ prev \in [Checker -> {"none", "healthy", "unhealthy"}]
  /\ downFor \in [Checker -> Age \cup {None}]
  /\ since \in [Checker -> Age \cup {None}]
  /\ told \in [Checker -> {"none", "up", "down"}]
  /\ \A c \in Checker : prev[c] = "unhealthy" <=> downFor[c] # None

\* The Master never goes on believing that something is down which the monitor
\* has seen recover, even when the recovery hides behind unknown results.
RecoveryReported == \A c \in Checker : told[c] = "down" => prev[c] = "unhealthy"

\* A failure that has lasted a reminder interval has been pushed within the
\* last one, night or day: no outage is silent for longer, unless the checker
\* is suppressed.
OutageReported ==
  \A c \in Checker :
    Failing(Outcome(probe, c)) /\ AtLeast(downFor[c], Remind) =>
      since[c] # None /\ ~AtLeast(since[c], Remind)

\* One root cause yields one alert: while the checker it depends on fails,
\* nothing is pushed about a checker.
OneAlertPerCause ==
  [][\A c \in Checker :
       DependsOn[c] # None /\ Failing(probe'[DependsOn[c]]) => since'[c] # 0]_monitor
=============================================================================
