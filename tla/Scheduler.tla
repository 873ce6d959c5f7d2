----------------------------- MODULE Scheduler -----------------------------
(***************************************************************************)
(* The scheduler: rows of the schedules table, and in memory the cron      *)
(* entries and one-shot timers registered for them. Chat tools and web     *)
(* handlers call it concurrently; a call reads the table, writes it and    *)
(* then, under the mutex, registers what it read. A fired one-time job     *)
(* runs, deletes its row and forgets its timer. Cron firing is left out:   *)
(* it writes nothing but last_run_at.                                      *)
(***************************************************************************)
EXTENDS Naturals

CONSTANTS
  Name,        \* schedule names
  Task,        \* task texts
  Keep,        \* "no change": a blank task in a call
  None,        \* no row, no entry, no timer
  Caller,      \* goroutines that may be inside a scheduler call at once
  MaxCalls,    \* bound on calls; each inserts one row at most
  MaxEarly,    \* bound on calls made while Start has yet to load the table
  Horizon,     \* bound on the clock
  MaxCrashes,  \* bound on crashes
  Preloaded    \* rows an earlier life of the process may have left

Id == 1..(MaxCalls + 1)
Time == 1..Horizon   \* 0 stands for a nil run_at

VARIABLES
  schedules,    \* id -> row, None when there is none
  nextId,   \* AUTOINCREMENT: ids are never given out twice
  now,
  phase,    \* "down", "new", "listed" (Start has read the rows), "running"
  listed,   \* the rows Start has read
  entries,  \* s.entries: id -> the job of its cron entry
  timers,   \* s.timers: id -> its timer, expired or not
  strays,   \* jobs still due to fire that neither map holds any more
  runs,     \* one-time jobs being executed
  call,     \* where each caller is, with the id and row it holds
  calls,
  crashes,
  ran,      \* history: how often the job of an id due at a time was started
  edited,   \* history: ids whose row was changed while its job ran
  early,    \* history: ids a call has registered before Start has loaded
            \* them, or whose row was changed after Start had listed it
  raced     \* history: two calls have been in flight at once

memory == <<entries, timers, strays>>
scheduler == <<schedules, nextId, now, phase, listed, memory, runs, call, calls,
          crashes, ran, edited, early, raced>>

Row == [name : Name, task : Task, kind : {"recurring", "once"},
        spec : {"cron", ""}, at : 0..Horizon, enabled : BOOLEAN]
Job == [id : Id, name : Name, task : Task, kind : {"recurring", "once"},
        at : 0..Horizon]
Timer == [job : Job, pending : BOOLEAN]

ASSUME SchedulerConstants ==
  /\ MaxCalls \in Nat /\ MaxEarly \in Nat /\ Horizon \in Nat /\ MaxCrashes \in Nat
  /\ Keep \notin Task
  /\ None \notin Row \cup Job \cup Timer
  /\ \A row \in Preloaded : /\ row \in Row
                            /\ row.kind = "once" <=> row.at # 0
                            /\ row.kind = "once" <=> row.spec = ""

\* The arguments of UpsertFull as its callers shape them: no timing at all,
\* a cron spec, a run time, or "recurring" without a spec (create_schedule
\* when neither spec nor run_at is given).
Timing == {[kind |-> "", spec |-> "", at |-> 0],
           [kind |-> "recurring", spec |-> "cron", at |-> 0],
           [kind |-> "recurring", spec |-> "", at |-> 0]}
          \cup {[kind |-> "once", spec |-> "", at |-> t] : t \in Time}
Arg == [name : Name, task : Task \cup {Keep}, timing : Timing,
        enabled : {"keep", "on", "off"}]

Idle == [step |-> "idle", id |-> 0, row |-> None]
At(c, step) == call[c].step = step
Go(c, step, id, row) ==
  call' = [call EXCEPT ![c] = [step |-> step, id |-> id, row |-> row]]
Return(c) == call' = [call EXCEPT ![c] = Idle]

Exists(name) == \E i \in Id : schedules[i] # None /\ schedules[i].name = name
IdOf(name) == CHOOSE i \in Id : schedules[i] # None /\ schedules[i].name = name

JobOf(i, row) == [id |-> i, name |-> row.name, task |-> row.task,
                  kind |-> row.kind, at |-> row.at]

\* What a row asks for when it is registered: a cron entry, a timer, or, its
\* time having passed, nothing but to be disabled.
WantsEntry(row) ==
  row # None /\ row.enabled /\ row.kind = "recurring" /\ row.spec # ""
WantsTimer(row) == row # None /\ row.enabled /\ row.kind = "once" /\ row.at > now
Missed(row) == row # None /\ row.enabled /\ row.kind = "once" /\ row.at <= now

DisableAll(S) ==
  schedules' = [i \in Id |-> IF i \in S /\ schedules[i] # None
                         THEN [schedules[i] EXCEPT !.enabled = FALSE] ELSE schedules[i]]

\* The process starts on a database with one schedule, or none.
ScheduleInit ==
  /\ \E row \in Preloaded \cup {None} :
       schedules = [i \in Id |-> IF i = 1 THEN row ELSE None]
  /\ nextId = 2
  /\ now = 0
  /\ phase = "new"
  /\ listed = [i \in Id |-> None]
  /\ entries = [i \in Id |-> None]
  /\ timers = [i \in Id |-> None]
  /\ strays = {} /\ runs = {}
  /\ call = [c \in Caller |-> Idle]
  /\ calls = 0 /\ crashes = 0
  /\ ran = [i \in Id |-> [t \in Time |-> 0]]
  /\ edited = {} /\ early = {}
  /\ raced = FALSE

---------------------------------------------------------------------------
(* Start: the rows are listed before the mutex is taken.                   *)

StartList ==
  /\ phase = "new"
  /\ phase' = "listed"
  /\ listed' = schedules
  /\ UNCHANGED <<schedules, nextId, now, memory, runs, call, calls, crashes, ran>>

\* Mutant. A missed one-time row is dropped at start.
StartLoadDropping ==
  /\ phase = "listed"
  /\ phase' = "running"
  /\ entries' = [i \in Id |-> IF WantsEntry(listed[i])
                              THEN JobOf(i, listed[i]) ELSE entries[i]]
  /\ timers' = [i \in Id |-> IF WantsTimer(listed[i])
                  THEN [job |-> JobOf(i, listed[i]), pending |-> TRUE]
                  ELSE timers[i]]
  /\ schedules' = [i \in Id |-> IF Missed(listed[i]) THEN None ELSE schedules[i]]
  /\ listed' = [i \in Id |-> None]
  /\ UNCHANGED <<nextId, now, strays, runs, call, calls, crashes, ran>>

\* Mutant. Missed rows are loaded as they are, enabled.
StartLoadKeeping ==
  /\ phase = "listed"
  /\ phase' = "running"
  /\ entries' = [i \in Id |-> IF WantsEntry(listed[i])
                              THEN JobOf(i, listed[i]) ELSE entries[i]]
  /\ timers' = [i \in Id |-> IF WantsTimer(listed[i])
                  THEN [job |-> JobOf(i, listed[i]), pending |-> TRUE]
                  ELSE timers[i]]
  /\ listed' = [i \in Id |-> None]
  /\ UNCHANGED <<schedules, nextId, now, strays, runs, call, calls, crashes, ran>>

\* Entries and timers a call has registered in the meantime are overwritten,
\* not removed: they go on to fire.
StartLoad ==
  /\ phase = "listed"
  /\ phase' = "running"
  /\ entries' = [i \in Id |-> IF WantsEntry(listed[i])
                              THEN JobOf(i, listed[i]) ELSE entries[i]]
  /\ timers' = [i \in Id |-> IF WantsTimer(listed[i])
                  THEN [job |-> JobOf(i, listed[i]), pending |-> TRUE]
                  ELSE timers[i]]
  /\ strays' = strays
       \cup {entries[i] : i \in {k \in Id : entries[k] # None /\ WantsEntry(listed[k])}}
       \cup {timers[i].job : i \in {k \in Id : /\ timers[k] # None
                                               /\ timers[k].pending
                                               /\ WantsTimer(listed[k])}}
  /\ DisableAll({i \in Id : Missed(listed[i])})
  /\ listed' = [i \in Id |-> None]
  /\ UNCHANGED <<nextId, now, runs, call, calls, crashes, ran>>

---------------------------------------------------------------------------
(* Calls. A rejected call changes nothing and is not modelled. Start runs   *)
(* on a goroutine of its own, so a call need not wait for it. Goroutines    *)
(* are alike: it makes no difference which idle one takes a call.          *)

Enter(c) ==
  /\ phase # "down"
  /\ At(c, "idle")
  /\ c = CHOOSE d \in Caller : At(d, "idle")
  /\ calls < MaxCalls /\ (phase = "running" \/ calls < MaxEarly)
  /\ calls' = calls + 1
  /\ UNCHANGED <<schedules, nextId, now, phase, listed, memory, runs, crashes, ran>>

\* The row of a call before its arguments are merged in.
Base(name) ==
  IF Exists(name) THEN schedules[IdOf(name)]
  ELSE [name |-> name, task |-> Keep, kind |-> "recurring", spec |-> "",
        at |-> 0, enabled |-> TRUE]

KindOf(a) == IF a.timing.kind # "" THEN a.timing.kind ELSE Base(a.name).kind
RunAtOf(a) == IF a.timing.at # 0 THEN a.timing.at ELSE Base(a.name).at

\* The row a call stores: blank arguments keep the old values.
Merged(a) ==
  LET once == KindOf(a) = "once"
  IN [name |-> a.name,
      task |-> IF a.task # Keep THEN a.task ELSE Base(a.name).task,
      kind |-> KindOf(a),
      spec |-> IF once THEN ""
               ELSE IF a.timing.spec # "" THEN a.timing.spec
               ELSE Base(a.name).spec,
      at |-> IF once THEN RunAtOf(a) ELSE 0,
      enabled |-> IF a.enabled = "keep" THEN Base(a.name).enabled
                  ELSE a.enabled = "on"]

\* Mutant. A new one-time schedule needs no task.
ValidNoTask(a) ==
  /\ ~Exists(a.name) /\ KindOf(a) = "recurring" => a.timing.spec # "" /\ a.task # Keep
  /\ KindOf(a) = "once" => RunAtOf(a) # 0
  /\ KindOf(a) = "once" /\ Merged(a).enabled => RunAtOf(a) > now

Valid(a) ==
  /\ Merged(a).task # Keep
  /\ ~Exists(a.name) /\ KindOf(a) = "recurring" => a.timing.spec # ""
  /\ KindOf(a) = "once" => RunAtOf(a) # 0
  /\ KindOf(a) = "once" /\ Merged(a).enabled => RunAtOf(a) > now

\* UpsertFull reads the row, merges and validates ...
Upsert(c, a) ==
  /\ Enter(c)
  /\ Valid(a)
  /\ Go(c, "store", 0, Merged(a))

\* ... stores it by name (INSERT ... ON CONFLICT(name) DO UPDATE) ...
UpsertStore(c) ==
  LET row == call[c].row
      i == IF Exists(row.name) THEN IdOf(row.name) ELSE nextId
  IN /\ At(c, "store")
     /\ schedules' = [schedules EXCEPT ![i] = row]
     /\ nextId' = IF i = nextId THEN nextId + 1 ELSE nextId
     /\ Go(c, "reread", 0, row)
     /\ UNCHANGED <<now, phase, listed, memory, runs, calls, crashes, ran>>

\* ... and reads back what it will register. The row may be gone by now.
Reread(c) ==
  LET name == call[c].row.name
  IN /\ At(c, "reread")
     /\ \/ ~Exists(name) /\ Return(c)
        \/ Exists(name) /\ Go(c, "resync", IdOf(name), schedules[IdOf(name)])
     /\ UNCHANGED <<schedules, nextId, now, phase, listed, memory, runs, calls, crashes, ran>>

\* Rename reads both names, renames by id and reads the row back.
Rename(c, old, new) ==
  /\ Enter(c)
  /\ Exists(old) /\ ~Exists(new)
  /\ Go(c, "rename", IdOf(old), [schedules[IdOf(old)] EXCEPT !.name = new])

RenameStore(c) ==
  LET i == call[c].id  row == call[c].row
  IN /\ At(c, "rename")
     /\ \/ /\ schedules[i] = None \/ Exists(row.name)   \* no row, or UNIQUE(name) fails
           /\ Return(c)
           /\ UNCHANGED schedules
        \/ /\ schedules[i] # None /\ ~Exists(row.name)
           /\ schedules' = [schedules EXCEPT ![i].name = row.name]
           /\ Go(c, "reread", i, row)
     /\ UNCHANGED <<nextId, now, phase, listed, memory, runs, calls, crashes, ran>>

Delete(c, name) ==
  /\ Enter(c)
  /\ Exists(name)
  /\ Go(c, "delete", IdOf(name), schedules[IdOf(name)])

DeleteStore(c) ==
  LET i == call[c].id
  IN /\ At(c, "delete")
     /\ \/ schedules[i] = None /\ Return(c) /\ UNCHANGED schedules
        \/ /\ schedules[i] # None
           /\ schedules' = [schedules EXCEPT ![i] = None]
           /\ Go(c, "forget", i, None)
     /\ UNCHANGED <<nextId, now, phase, listed, memory, runs, calls, crashes, ran>>

\* Under the mutex: the entry is removed, the timer stopped and forgotten.
Forget(c) ==
  /\ At(c, "forget")
  /\ entries' = [entries EXCEPT ![call[c].id] = None]
  /\ timers' = [timers EXCEPT ![call[c].id] = None]
  /\ Return(c)
  /\ UNCHANGED <<schedules, nextId, now, phase, listed, strays, runs, calls, crashes, ran>>

\* Mutant. The old timer is overwritten but not stopped.
ResyncNoStop(c) ==
  LET i == call[c].id  row == call[c].row
  IN /\ At(c, "resync")
     /\ entries' = [entries EXCEPT ![i] = IF WantsEntry(row) THEN JobOf(i, row) ELSE None]
     /\ timers' = [timers EXCEPT ![i] =
          IF WantsTimer(row) THEN [job |-> JobOf(i, row), pending |-> TRUE] ELSE None]
     /\ strays' = strays \cup (IF timers[i] # None /\ timers[i].pending
                               THEN {timers[i].job} ELSE {})
     /\ DisableAll({k \in {i} : Missed(row)})
     /\ Return(c)
     /\ UNCHANGED <<nextId, now, phase, listed, runs, calls, crashes, ran>>

\* Mutant. A run time that has passed is armed all the same and fires at once.
ResyncPast(c) ==
  LET i == call[c].id  row == call[c].row
  IN /\ At(c, "resync")
     /\ entries' = [entries EXCEPT ![i] = IF WantsEntry(row) THEN JobOf(i, row) ELSE None]
     /\ timers' = [timers EXCEPT ![i] =
          IF WantsTimer(row) \/ Missed(row)
          THEN [job |-> JobOf(i, row), pending |-> TRUE] ELSE None]
     /\ Return(c)
     /\ UNCHANGED <<schedules, nextId, now, phase, listed, strays, runs, calls, crashes, ran>>

\* Under the mutex: what was registered for the id is removed and what the row
\* the call holds asks for is registered.
Resync(c) ==
  LET i == call[c].id  row == call[c].row
  IN /\ At(c, "resync")
     /\ entries' = [entries EXCEPT ![i] = IF WantsEntry(row) THEN JobOf(i, row) ELSE None]
     /\ timers' = [timers EXCEPT ![i] =
          IF WantsTimer(row) THEN [job |-> JobOf(i, row), pending |-> TRUE] ELSE None]
     /\ DisableAll({k \in {i} : Missed(row)})
     /\ Return(c)
     /\ UNCHANGED <<nextId, now, phase, listed, strays, runs, calls, crashes, ran>>

---------------------------------------------------------------------------
(* One-time jobs.                                                          *)

Launch(job) ==
  /\ job.at <= now
  /\ runs' = runs \cup {[job |-> job, step |-> "run"]}
  /\ ran' = [ran EXCEPT ![job.id][job.at] = @ + 1]
  /\ UNCHANGED <<schedules, nextId, now, phase, listed, entries, call, calls, crashes>>

\* A timer expires: its job starts, and the map keeps the expired timer.
Fire(i) ==
  /\ timers[i] # None /\ timers[i].pending
  /\ Launch(timers[i].job)
  /\ timers' = [timers EXCEPT ![i].pending = FALSE]
  /\ UNCHANGED strays

FireStray(job) ==
  /\ job \in strays /\ job.kind = "once"
  /\ Launch(job)
  /\ strays' = strays \ {job}
  /\ UNCHANGED timers

\* The task has been carried out: the row goes, whatever it says by now.
RunEnds(r) ==
  /\ r.step = "run"
  /\ schedules' = [schedules EXCEPT ![r.job.id] = None]
  /\ runs' = (runs \ {r}) \cup {[r EXCEPT !.step = "unmap"]}
  /\ UNCHANGED <<nextId, now, phase, listed, memory, call, calls, crashes, ran>>

\* The map forgets the id; a timer armed since then is not stopped.
RunForgets(r) ==
  LET t == timers[r.job.id]
  IN /\ r.step = "unmap"
     /\ timers' = [timers EXCEPT ![r.job.id] = None]
     /\ strays' = strays \cup (IF t # None /\ t.pending THEN {t.job} ELSE {})
     /\ runs' = runs \ {r}
     /\ UNCHANGED <<schedules, nextId, now, phase, listed, entries, call, calls, crashes, ran>>

---------------------------------------------------------------------------
Tick ==
  /\ now < Horizon
  /\ now' = now + 1
  /\ UNCHANGED <<schedules, nextId, phase, listed, memory, runs, call, calls, crashes, ran>>

Boot ==
  /\ phase = "down"
  /\ phase' = "new"
  /\ UNCHANGED <<schedules, nextId, now, listed, memory, runs, call, calls, crashes, ran>>

\* The process ends, by a signal or a crash: all but the table is gone.
Crash ==
  /\ phase # "down"
  /\ crashes < MaxCrashes
  /\ crashes' = crashes + 1
  /\ phase' = "down"
  /\ entries' = [i \in Id |-> None]
  /\ timers' = [i \in Id |-> None]
  /\ listed' = [i \in Id |-> None]
  /\ call' = [c \in Caller |-> Idle]
  /\ strays' = {} /\ runs' = {}
  /\ UNCHANGED <<schedules, nextId, now, calls, ran, edited, early, raced>>

Progress(c) ==
  \/ UpsertStore(c) \/ Reread(c) \/ RenameStore(c) \/ DeleteStore(c)
  \/ Forget(c) \/ Resync(c)

Request(c) ==
  \/ \E a \in Arg : Upsert(c, a)
  \/ \E old, new \in Name : Rename(c, old, new)
  \/ \E name \in Name : Delete(c, name)

RunStep == \E r \in runs : RunEnds(r) \/ RunForgets(r)
FireStep == (\E i \in Id : Fire(i)) \/ (\E job \in strays : FireStray(job))

Startup == StartList \/ StartLoad \/ Boot

Step ==
  \/ Startup \/ Tick
  \/ \E c \in Caller : Request(c) \/ Progress(c)
  \/ FireStep \/ RunStep

\* History only: the ids whose row no longer is the job that runs for it, those
\* that a call has overtaken Start with, and whether calls have overlapped.
Note ==
  /\ raced' = (raced \/ \E c, d \in Caller : c # d /\ call'[c] # Idle /\ call'[d] # Idle)
  /\ edited' = edited \cup {r.job.id : r \in {x \in runs' :
       /\ x.step = "run"
       /\ schedules'[x.job.id] = None \/ JobOf(x.job.id, schedules'[x.job.id]) # x.job}}
  /\ early' = early \cup {i \in Id :
       \/ phase' = "listed" /\ schedules'[i] # schedules[i]
       \/ /\ phase' \in {"new", "listed"}
          /\ entries'[i] # entries[i] \/ timers'[i] # timers[i]}

ScheduleNext == (Step /\ Note) \/ Crash

ScheduleSafeSpec == ScheduleInit /\ [][ScheduleNext]_scheduler

\* Timers expire, runs end within their ten minutes, store calls return and
\* the supervisor restarts the process, which loads the table.
ScheduleFairness ==
  /\ WF_scheduler(Startup /\ Note) /\ WF_scheduler(Tick /\ Note)
  /\ WF_scheduler(FireStep /\ Note) /\ WF_scheduler(RunStep /\ Note)
  /\ \A c \in Caller : WF_scheduler(Progress(c) /\ Note)
ScheduleSpec == ScheduleSafeSpec /\ ScheduleFairness

---------------------------------------------------------------------------
(* Properties.                                                             *)

\* Every variable has its type.
ScheduleTypeOK ==
  /\ schedules \in [Id -> Row \cup {None}]
  /\ nextId \in Nat /\ now \in 0..Horizon
  /\ phase \in {"down", "new", "listed", "running"}
  /\ listed \in [Id -> Row \cup {None}]
  /\ entries \in [Id -> Job \cup {None}]
  /\ timers \in [Id -> Timer \cup {None}]
  /\ strays \subseteq Job
  /\ runs \subseteq [job : Job, step : {"run", "unmap"}]
  /\ call \in [Caller -> {Idle} \cup
       [step : {"store", "reread", "resync", "rename", "delete", "forget"},
        id : Id \cup {0}, row : Row \cup {None}]]
  /\ ran \in [Id -> [Time -> Nat]] /\ edited \subseteq Id /\ early \subseteq Id /\ raced \in BOOLEAN

\* What is registered for an id and still to fire.
Live(i) ==
  {j \in strays : j.id = i}
  \cup {j \in {entries[i]} : j # None}
  \cup {t.job : t \in {x \in {timers[i]} : x # None /\ x.pending}}

Quiet == phase = "running" /\ \A c \in Caller : At(c, "idle")

\* Once no call is in flight, memory and table agree: an enabled row has the
\* one entry or timer it describes, or is being run, or is blank; any other
\* id has none. Calls that overlapped break this (see the README); set apart are
\* ids edited while their job ran (EditsSurvive) and ids with which a call has
\* overtaken Start.
Synced ==
  Quiet /\ ~raced => \A i \in Id \ (edited \cup early) :
    LET row == schedules[i]
        due == row # None /\ row.enabled /\ row.kind = "once"
        running == \E r \in runs : r.job.id = i
    IN IF WantsEntry(row) \/ (due /\ ~running) THEN Live(i) = {JobOf(i, row)}
       ELSE Live(i) = {}

\* A one-time job is started at most once for the time it is set to: neither
\* an edit that loses the race with the timer nor a restart starts it again, nor
\* a call before Start has loaded the table, unless that call overtook its row.
OnceRunsOnce == \A i \in Id \ (edited \cup early), t \in Time : ran[i][t] <= 1

\* A one-time row leaves the table only when its job has been run or a call
\* deletes it: missed runs stay visible.
MissedStaysVisible ==
  [][\A i \in Id :
       /\ schedules[i] # None /\ schedules'[i] = None
       /\ schedules[i].kind = "once" /\ i \notin edited'
       => \/ ran[i][schedules[i].at] > 0
          \/ \E c \in Caller : At(c, "delete") /\ call[c].id = i]_scheduler

Pending(i) == schedules[i] # None /\ schedules[i].kind = "once" /\ schedules[i].enabled

\* Every enabled one-time row is run and deleted, or disabled, in the end,
\* unless calls have overlapped.
OnceSettles == \A i \in Id : Pending(i) ~> (~Pending(i) \/ raced)

\* "Keeps in-memory entries in sync with the schedules table": once no call is
\* in flight, nothing that is not in the table is waiting to fire.
EditsSurvive == Quiet /\ runs = {} => \A i \in Id : Live(i) # {} => schedules[i] # None
=============================================================================
