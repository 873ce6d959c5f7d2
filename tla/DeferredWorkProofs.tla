------------------------- MODULE DeferredWorkProofs -------------------------
(***************************************************************************)
(* Theorems about work that is put off: first the scheduler, for any       *)
(* schedules, callers, calls, ticks and crashes; then the outbound queue   *)
(* of iMessage, for any number of messages, concurrent claims and faults.  *)
(***************************************************************************)
EXTENDS Scheduler, IMessageOutbound, TLAPS

(* The scheduler. *)

\* What a call holds between two of its steps.
CallsHold ==
  \A c \in Caller :
    /\ call[c].step \in {"store", "reread", "resync", "rename"} => call[c].row \in Row
    /\ call[c].step \in {"resync", "rename", "delete", "forget"} => call[c].id \in Id

LEMMA BoundsAreNumbers == MaxCalls \in Nat /\ Horizon \in Nat /\ MaxCrashes \in Nat
  BY SchedulerConstants

LEMMA ZeroIsNoTime == 0 \in 0..Horizon /\ Time \subseteq 0..Horizon /\ Time \subseteq Nat
  BY BoundsAreNumbers DEF Time

LEMMA NoneIsNone == None \notin Row /\ None \notin Job /\ None \notin Timer
  BY SchedulerConstants

\* The fields of the arguments, rows and jobs.
LEMMA TimingFields ==
  ASSUME NEW t \in Timing
  PROVE  /\ t.kind \in {"", "recurring", "once"} /\ t.spec \in {"cron", ""}
         /\ t.at \in 0..Horizon
<1>1. CASE t \in {[kind |-> "once", spec |-> "", at |-> x] : x \in Time}
  <2>1. PICK x \in Time : t = [kind |-> "once", spec |-> "", at |-> x]
    BY <1>1
  <2>2. x \in 0..Horizon
    BY ZeroIsNoTime
  <2>3. QED
    BY <2>1, <2>2
<1>2. CASE t = [kind |-> "" , spec |-> "", at |-> 0]
  BY <1>2, ZeroIsNoTime
<1>3. CASE t = [kind |-> "recurring", spec |-> "cron", at |-> 0]
  BY <1>3, ZeroIsNoTime
<1>4. CASE t = [kind |-> "recurring", spec |-> "", at |-> 0]
  BY <1>4, ZeroIsNoTime
<1>5. QED
  BY <1>1, <1>2, <1>3, <1>4 DEF Timing

LEMMA RowFields ==
  ASSUME NEW row \in Row
  PROVE  /\ row.name \in Name /\ row.task \in Task /\ row.kind \in {"recurring", "once"}
         /\ row.spec \in {"cron", ""} /\ row.at \in 0..Horizon /\ row.enabled \in BOOLEAN
         /\ row # None
  BY NoneIsNone DEF Row

LEMMA JobOfRow ==
  ASSUME NEW row \in Row, NEW i \in Id
  PROVE  /\ JobOf(i, row) \in Job /\ JobOf(i, row) # None
         /\ JobOf(i, row).id = i /\ JobOf(i, row).kind = row.kind /\ JobOf(i, row).at = row.at
<1>1. JobOf(i, row) \in Job
  BY RowFields DEF JobOf, Job
<1>2. QED
  BY <1>1, NoneIsNone DEF JobOf

LEMMA TimerOfRow ==
  ASSUME NEW row \in Row, NEW i \in Id
  PROVE  /\ [job |-> JobOf(i, row), pending |-> TRUE] \in Timer
         /\ [job |-> JobOf(i, row), pending |-> TRUE] # None
<1>1. [job |-> JobOf(i, row), pending |-> TRUE] \in Timer
  BY JobOfRow DEF Timer
<1>2. QED
  BY <1>1, NoneIsNone

\* What a look-up by name finds.
LEMMA RowOfName ==
  ASSUME NEW name, Exists(name)
  PROVE  /\ IdOf(name) \in Id /\ schedules[IdOf(name)] # None
         /\ schedules[IdOf(name)].name = name
  BY DEF Exists, IdOf

\* A valid call stores a row: what it leaves blank is a row's, or a new one's
\* whose task and timing it must give.
LEMMA MergedRow ==
  ASSUME schedules \in [Id -> Row \cup {None}], NEW a \in Arg, Valid(a)
  PROVE  Merged(a) \in Row
<1>1. /\ a.name \in Name /\ a.task \in Task \cup {Keep} /\ a.timing \in Timing
      /\ a.enabled \in {"keep", "on", "off"}
  BY DEF Arg
<1> DEFINE base == Base(a.name)
<1>2. /\ base.task \in Task \cup {Keep} /\ base.kind \in {"recurring", "once"}
      /\ base.spec \in {"cron", ""} /\ base.at \in 0..Horizon /\ base.enabled \in BOOLEAN
  <2>1. CASE Exists(a.name)
    <3>1. schedules[IdOf(a.name)] \in Row
      BY <2>1, RowOfName
    <3>2. base = schedules[IdOf(a.name)]
      BY <2>1 DEF Base
    <3>3. QED
      BY <3>1, <3>2, RowFields
  <2>2. CASE ~Exists(a.name)
    <3>1. base = [name |-> a.name, task |-> Keep, kind |-> "recurring", spec |-> "",
                  at |-> 0, enabled |-> TRUE]
      BY <2>2 DEF Base
    <3> HIDE DEF base
    <3>2. /\ base.task = Keep /\ base.kind = "recurring" /\ base.spec = ""
          /\ base.at = 0 /\ base.enabled = TRUE
      BY <3>1
    <3>3. QED
      BY <3>2, ZeroIsNoTime
  <2>3. QED
    BY <2>1, <2>2
<1>3. /\ a.timing.kind \in {"", "recurring", "once"} /\ a.timing.spec \in {"cron", ""}
      /\ a.timing.at \in 0..Horizon
  BY <1>1, TimingFields
<1>4. KindOf(a) \in {"recurring", "once"}
  BY <1>2, <1>3 DEF KindOf
<1>5. RunAtOf(a) \in 0..Horizon /\ 0 \in 0..Horizon
  BY <1>2, <1>3, ZeroIsNoTime DEF RunAtOf
<1>6. Merged(a).task # Keep
  BY DEF Valid
<1> DEFINE task == IF a.task # Keep THEN a.task ELSE base.task
           spec == IF KindOf(a) = "once" THEN ""
                   ELSE IF a.timing.spec # "" THEN a.timing.spec ELSE base.spec
           at == IF KindOf(a) = "once" THEN RunAtOf(a) ELSE 0
           on == IF a.enabled = "keep" THEN base.enabled ELSE a.enabled = "on"
<1>7. Merged(a) = [name |-> a.name, task |-> task, kind |-> KindOf(a), spec |-> spec,
                   at |-> at, enabled |-> on]
  BY DEF Merged
<1>8. task \in Task
  <2>1. Merged(a).task = task
    BY DEF Merged
  <2>2. task # Keep
    BY <1>6, <2>1
  <2>3. QED
    BY <1>1, <1>2, <2>2
<1>9. spec \in {"cron", ""} /\ at \in 0..Horizon
  BY <1>2, <1>3, <1>5
<1>10. on \in BOOLEAN
  BY <1>2
<1>11. KindOf(a) \in {"recurring", "once"} /\ a.name \in Name
  BY <1>1, <1>4
<1> HIDE DEF base, task, spec, at, on
<1>12. [name |-> a.name, task |-> task, kind |-> KindOf(a), spec |-> spec,
        at |-> at, enabled |-> on] \in Row
  BY ONLY <1>8, <1>9, <1>10, <1>11 DEF Row
<1>13. QED
  BY <1>7, <1>12

\* DisableAll changes nothing of a row but whether it is enabled.
LEMMA DisableAllRows ==
  ASSUME schedules \in [Id -> Row \cup {None}], NEW S, DisableAll(S)
  PROVE  /\ schedules' \in [Id -> Row \cup {None}]
         /\ \A i \in Id : schedules'[i] = None <=> schedules[i] = None
         /\ \A i \in Id : schedules[i] # None =>
              /\ schedules'[i].name = schedules[i].name
              /\ JobOf(i, schedules'[i]) = JobOf(i, schedules[i])
              /\ schedules'[i].kind = schedules[i].kind /\ schedules'[i].spec = schedules[i].spec
              /\ schedules'[i].at = schedules[i].at
              /\ i \in S => schedules'[i].enabled = FALSE
              /\ i \notin S => schedules'[i] = schedules[i]
<1>1. \A i \in Id : schedules'[i] = IF i \in S /\ schedules[i] # None
                                    THEN [schedules[i] EXCEPT !.enabled = FALSE] ELSE schedules[i]
  BY DEF DisableAll
<1>2. ASSUME NEW i \in Id, schedules[i] # None
      PROVE  LET row == [schedules[i] EXCEPT !.enabled = FALSE] IN
             /\ row \in Row /\ row # None /\ row.name = schedules[i].name
             /\ row.kind = schedules[i].kind /\ row.spec = schedules[i].spec
             /\ row.at = schedules[i].at /\ row.task = schedules[i].task /\ row.enabled = FALSE
  <2>1. schedules[i] \in Row
    BY <1>2
  <2>2. [schedules[i] EXCEPT !.enabled = FALSE] \in Row
    BY <2>1 DEF Row
  <2>3. QED
    BY <2>1, <2>2, NoneIsNone DEF Row
<1>3. schedules' \in [Id -> Row \cup {None}]
  BY <1>2 DEF DisableAll
<1>4. QED
  BY <1>1, <1>2, <1>3 DEF JobOf

Placed == ScheduleTypeOK /\ CallsHold

Asked == {"store", "reread", "resync", "rename", "delete", "forget"}
CallState == {Idle} \cup [step : Asked, id : Id \cup {0}, row : Row \cup {None}]

\* A call goes on, or returns: nobody else's does.
LEMMA CallTaken ==
  ASSUME Placed, NEW c \in Caller,
         NEW step \in Asked,
         NEW i \in Id \cup {0}, NEW row \in Row \cup {None},
         step \in {"store", "reread", "resync", "rename"} => row \in Row,
         step \in {"resync", "rename", "delete", "forget"} => i \in Id,
         Go(c, step, i, row)
  PROVE  /\ call' \in [Caller -> CallState]
         /\ call'[c] = [step |-> step, id |-> i, row |-> row]
         /\ \A e \in Caller : e # c => call'[e] = call[e]
         /\ CallsHold'
<1>1. /\ call' = [call EXCEPT ![c] = [step |-> step, id |-> i, row |-> row]]
      /\ call \in [Caller -> CallState]
  BY DEF Placed, ScheduleTypeOK, Go, CallState, Asked
<1>2. /\ call'[c] = [step |-> step, id |-> i, row |-> row]
      /\ \A e \in Caller : e # c => call'[e] = call[e]
  BY <1>1
<1>3. call' \in [Caller -> CallState]
  <2>1. [step |-> step, id |-> i, row |-> row] \in CallState
    BY DEF CallState
  <2>2. QED
    BY <1>1, <2>1
<1>4. CallsHold'
  BY <1>2 DEF Placed, CallsHold
<1>5. QED
  BY <1>2, <1>3, <1>4

LEMMA CallReturns ==
  ASSUME Placed, NEW c \in Caller, Return(c)
  PROVE  /\ call' \in [Caller -> CallState]
         /\ call'[c] = Idle
         /\ \A e \in Caller : e # c => call'[e] = call[e]
         /\ CallsHold'
<1>1. /\ call' = [call EXCEPT ![c] = Idle]
      /\ call \in [Caller -> CallState]
  BY DEF Placed, ScheduleTypeOK, Return, CallState, Asked
<1>2. call'[c] = Idle /\ \A e \in Caller : e # c => call'[e] = call[e]
  BY <1>1
<1>3. CallsHold'
  BY <1>2 DEF Placed, CallsHold, Idle
<1>4. Idle \in CallState
  BY DEF CallState
<1>5. QED
  BY <1>1, <1>2, <1>3, <1>4

-----------------------------------------------------------------------------
(* Types. *)

LEMMA LoadTypes ==
  ASSUME Placed, StartLoad
  PROVE  /\ schedules' \in [Id -> Row \cup {None}]
         /\ entries' \in [Id -> Job \cup {None}] /\ timers' \in [Id -> Timer \cup {None}]
         /\ strays' \subseteq Job /\ listed' \in [Id -> Row \cup {None}]
<1>a. /\ schedules \in [Id -> Row \cup {None}] /\ listed \in [Id -> Row \cup {None}]
      /\ entries \in [Id -> Job \cup {None}] /\ timers \in [Id -> Timer \cup {None}]
      /\ strays \subseteq Job
  BY DEF Placed, ScheduleTypeOK
<1>1. schedules' \in [Id -> Row \cup {None}]
  BY <1>a, DisableAllRows DEF StartLoad
<1>2. \A i \in Id : WantsEntry(listed[i]) \/ WantsTimer(listed[i]) => listed[i] \in Row
  BY <1>a DEF WantsEntry, WantsTimer
<1>3. entries' \in [Id -> Job \cup {None}]
  BY <1>a, <1>2, JobOfRow DEF StartLoad
<1>4. timers' \in [Id -> Timer \cup {None}]
  BY <1>a, <1>2, TimerOfRow DEF StartLoad
<1>5. strays' \subseteq Job
  <2>1. \A i \in Id : entries[i] # None => entries[i] \in Job
    BY <1>a
  <2>2. \A i \in Id : timers[i] # None => timers[i].job \in Job
    BY <1>a DEF Timer
  <2>3. QED
    BY <1>a, <2>1, <2>2 DEF StartLoad
<1>6. listed' \in [Id -> Row \cup {None}]
  BY DEF StartLoad
<1>7. QED
  BY <1>1, <1>3, <1>4, <1>5, <1>6

LEMMA ResyncTypes ==
  ASSUME Placed, NEW c \in Caller, Resync(c)
  PROVE  /\ schedules' \in [Id -> Row \cup {None}]
         /\ entries' \in [Id -> Job \cup {None}] /\ timers' \in [Id -> Timer \cup {None}]
         /\ call' \in [Caller -> CallState] /\ CallsHold'
<1> DEFINE i == call[c].id
           row == call[c].row
<1>a. /\ schedules \in [Id -> Row \cup {None}]
      /\ entries \in [Id -> Job \cup {None}] /\ timers \in [Id -> Timer \cup {None}]
      /\ i \in Id /\ row \in Row
  BY DEF Placed, ScheduleTypeOK, CallsHold, Resync, At
<1>1. /\ entries' = [entries EXCEPT ![i] = IF WantsEntry(row) THEN JobOf(i, row) ELSE None]
      /\ timers' = [timers EXCEPT ![i] =
           IF WantsTimer(row) THEN [job |-> JobOf(i, row), pending |-> TRUE] ELSE None]
      /\ DisableAll({k \in {i} : Missed(row)}) /\ Return(c)
  BY DEF Resync
<1> HIDE DEF i, row
<1>2. schedules' \in [Id -> Row \cup {None}]
  BY <1>a, <1>1, DisableAllRows
<1>3. entries' \in [Id -> Job \cup {None}] /\ timers' \in [Id -> Timer \cup {None}]
  BY <1>a, <1>1, JobOfRow, TimerOfRow
<1>4. QED
  BY <1>1, <1>2, <1>3, CallReturns

LEMMA StoreTypes ==
  ASSUME Placed, NEW c \in Caller,
         UpsertStore(c) \/ Reread(c) \/ RenameStore(c) \/ DeleteStore(c)
  PROVE  /\ schedules' \in [Id -> Row \cup {None}] /\ nextId' \in Nat
         /\ call' \in [Caller -> CallState] /\ CallsHold'
<1>a. /\ schedules \in [Id -> Row \cup {None}] /\ nextId \in Nat /\ call \in [Caller -> CallState]
  BY DEF Placed, ScheduleTypeOK, CallState, Asked
<1>1. CASE UpsertStore(c)
  <2> DEFINE row == call[c].row
             i == IF Exists(row.name) THEN IdOf(row.name) ELSE nextId
  <2>1. row \in Row
    BY <1>1 DEF Placed, CallsHold, UpsertStore, At
  <2>2. /\ schedules' = [schedules EXCEPT ![i] = row] /\ Go(c, "reread", 0, row)
        /\ nextId' \in {nextId, nextId + 1}
    BY <1>1 DEF UpsertStore
  <2> HIDE DEF row, i
  <2>3. schedules' \in [Id -> Row \cup {None}]
    BY <1>a, <2>1, <2>2
  <2>4. nextId' \in Nat
    BY <1>a, <2>2
  <2>5. QED
    BY <2>1, <2>2, <2>3, <2>4, CallTaken DEF Asked
<1>2. CASE Reread(c)
  <2> DEFINE name == call[c].row.name
  <2>1. UNCHANGED <<schedules, nextId>>
    BY <1>2 DEF Reread
  <2>2. CASE Return(c)
    BY <1>a, <2>1, <2>2, CallReturns
  <2>3. CASE Exists(name) /\ Go(c, "resync", IdOf(name), schedules[IdOf(name)])
    <3>1. IdOf(name) \in Id /\ schedules[IdOf(name)] # None
      BY <2>3, RowOfName
    <3>2. schedules[IdOf(name)] \in Row
      BY <1>a, <3>1
    <3> HIDE DEF name
    <3>3. QED
      BY <1>a, <2>1, <2>3, <3>1, <3>2, CallTaken DEF Asked
  <2>4. QED
    BY <1>2, <2>2, <2>3 DEF Reread
<1>3. CASE RenameStore(c)
  <2> DEFINE i == call[c].id
             row == call[c].row
  <2>1. i \in Id /\ row \in Row /\ nextId' = nextId
    BY <1>3 DEF Placed, CallsHold, RenameStore, At
  <2>2. CASE Return(c) /\ UNCHANGED schedules
    BY <1>a, <2>1, <2>2, CallReturns
  <2>3. CASE /\ schedules[i] # None /\ schedules' = [schedules EXCEPT ![i].name = row.name]
             /\ Go(c, "reread", i, row)
    <3>1. schedules[i] \in Row
      BY <1>a, <2>1, <2>3
    <3>2. row.name \in Name
      BY <2>1, RowFields
    <3>3. [schedules[i] EXCEPT !.name = row.name] \in Row
      BY <3>1, <3>2 DEF Row
    <3>4. schedules' \in [Id -> Row \cup {None}]
      BY <1>a, <2>1, <2>3, <3>3
    <3> HIDE DEF i, row
    <3>5. QED
      BY <1>a, <2>1, <2>3, <3>4, CallTaken DEF Asked
  <2>4. QED
    BY <1>3, <2>2, <2>3 DEF RenameStore
<1>4. CASE DeleteStore(c)
  <2> DEFINE i == call[c].id
  <2>1. i \in Id /\ nextId' = nextId
    BY <1>4 DEF Placed, CallsHold, DeleteStore, At
  <2>2. CASE Return(c) /\ UNCHANGED schedules
    BY <1>a, <2>1, <2>2, CallReturns
  <2>3. CASE schedules' = [schedules EXCEPT ![i] = None] /\ Go(c, "forget", i, None)
    <3>1. schedules' \in [Id -> Row \cup {None}]
      BY <1>a, <2>3
    <3> HIDE DEF i
    <3>2. QED
      BY <1>a, <2>1, <2>3, <3>1, CallTaken DEF Asked
  <2>4. QED
    BY <1>4, <2>2, <2>3 DEF DeleteStore
<1>5. QED
  BY <1>1, <1>2, <1>3, <1>4

LEMMA RequestTypes ==
  ASSUME Placed, NEW c \in Caller, Request(c)
  PROVE  call' \in [Caller -> CallState] /\ CallsHold'
<1>a. schedules \in [Id -> Row \cup {None}]
  BY DEF Placed, ScheduleTypeOK
<1>1. ASSUME NEW a \in Arg, Upsert(c, a)
      PROVE  call' \in [Caller -> CallState] /\ CallsHold'
  <2>1. Merged(a) \in Row /\ Go(c, "store", 0, Merged(a))
    BY <1>a, <1>1, MergedRow DEF Upsert
  <2>2. QED
    BY <2>1, CallTaken DEF Asked
<1>2. ASSUME NEW old \in Name, NEW new \in Name, Rename(c, old, new)
      PROVE  call' \in [Caller -> CallState] /\ CallsHold'
  <2> DEFINE row == [schedules[IdOf(old)] EXCEPT !.name = new]
  <2>1. IdOf(old) \in Id /\ schedules[IdOf(old)] # None
    BY <1>2, RowOfName DEF Rename
  <2>2. schedules[IdOf(old)] \in Row
    BY <1>a, <2>1
  <2>3. row \in Row
    BY <2>2 DEF Row
  <2>4. Go(c, "rename", IdOf(old), row)
    BY <1>2 DEF Rename
  <2> HIDE DEF row
  <2>5. QED
    BY <2>1, <2>3, <2>4, CallTaken DEF Asked
<1>3. ASSUME NEW name \in Name, Delete(c, name)
      PROVE  call' \in [Caller -> CallState] /\ CallsHold'
  <2>1. IdOf(name) \in Id /\ schedules[IdOf(name)] # None
    BY <1>3, RowOfName DEF Delete
  <2>2. schedules[IdOf(name)] \in Row
    BY <1>a, <2>1
  <2>3. Go(c, "delete", IdOf(name), schedules[IdOf(name)])
    BY <1>3 DEF Delete
  <2>4. QED
    BY <2>1, <2>2, <2>3, CallTaken DEF Asked
<1>4. QED
  BY <1>1, <1>2, <1>3 DEF Request

\* A job that is launched counts for its id and time, which is a time.
LEMMA LaunchTypes ==
  ASSUME Placed, NEW job \in Job, job.at \in Time, Launch(job)
  PROVE  /\ ran' \in [Id -> [Time -> Nat]]
         /\ runs' \subseteq [job : Job, step : {"run", "unmap"}]
         /\ ran'[job.id][job.at] = ran[job.id][job.at] + 1
         /\ \A i \in Id, t \in Time : i # job.id \/ t # job.at => ran'[i][t] = ran[i][t]
<1>a. ran \in [Id -> [Time -> Nat]] /\ runs \subseteq [job : Job, step : {"run", "unmap"}]
  BY DEF Placed, ScheduleTypeOK
<1>1. job.id \in Id
  BY DEF Job
<1>2. ran' = [ran EXCEPT ![job.id][job.at] = ran[job.id][job.at] + 1]
  BY DEF Launch
<1>3. ran[job.id][job.at] + 1 \in Nat /\ ran[job.id] \in [Time -> Nat]
  BY <1>a, <1>1
<1>4. ran' \in [Id -> [Time -> Nat]]
  BY <1>a, <1>1, <1>2, <1>3
<1>5. /\ ran'[job.id][job.at] = ran[job.id][job.at] + 1
      /\ \A i \in Id, t \in Time : i # job.id \/ t # job.at => ran'[i][t] = ran[i][t]
  BY <1>a, <1>1, <1>2, <1>3
<1>6. runs' \subseteq [job : Job, step : {"run", "unmap"}]
  BY <1>a DEF Launch
<1>7. QED
  BY <1>4, <1>5, <1>6

\* What of the invariants only history is in the way of: a name has one row,
\* jobs are registered under their id and kind, jobs that run were due, and the
\* row of an id that was not edited is the job that runs for it.
Names ==
  \A i, k \in Id : schedules[i] # None /\ schedules[k] # None
                   /\ schedules[i].name = schedules[k].name => i = k

Registered ==
  /\ \A i \in Id : entries[i] # None => entries[i].id = i /\ entries[i].kind = "recurring"
  /\ \A i \in Id : timers[i] # None =>
       timers[i].job.id = i /\ timers[i].job.kind = "once" /\ timers[i].job.at \in Time
  /\ \A j \in strays : j.kind = "once" => j.at \in Time

Ran ==
  /\ \A i \in Id, t \in Time : ran[i][t] > 0 => t <= now
  /\ \A r \in runs : /\ r.job.kind = "once" /\ r.job.at \in Time
                     /\ ran[r.job.id][r.job.at] > 0
  /\ \A r \in runs : r.step = "run" /\ r.job.id \notin edited =>
       schedules[r.job.id] # None /\ JobOf(r.job.id, schedules[r.job.id]) = r.job

LEMMA NoteTypes ==
  ASSUME edited \subseteq Id, early \subseteq Id, Note,
         runs' \subseteq [job : Job, step : {"run", "unmap"}]
  PROVE  /\ edited' \subseteq Id /\ edited \subseteq edited'
         /\ early' \subseteq Id /\ early \subseteq early' /\ raced' \in BOOLEAN
<1>1. \A r \in runs' : r.job.id \in Id
  BY DEF Job
<1>2. edited' \subseteq Id /\ edited \subseteq edited'
  BY <1>1 DEF Note
<1>3. early' \subseteq Id /\ early \subseteq early' /\ raced' \in BOOLEAN
  BY DEF Note
<1>4. QED
  BY <1>2, <1>3

\* A job that a timer or a stray starts is of a one-time schedule and due.
LEMMA FiredJob ==
  ASSUME Placed, Registered, FireStep
  PROVE  \E job \in Job : /\ job.kind = "once" /\ job.at \in Time /\ Launch(job)
                          /\ \/ /\ timers[job.id] # None /\ timers[job.id].pending
                                /\ timers[job.id].job = job
                                /\ timers' = [timers EXCEPT ![job.id].pending = FALSE]
                                /\ strays' = strays
                             \/ job \in strays /\ strays' = strays \ {job} /\ timers' = timers
<1>1. ASSUME NEW i \in Id, Fire(i)
      PROVE  /\ timers[i].job \in Job /\ timers[i].job.kind = "once" /\ timers[i].job.at \in Time
             /\ timers[i].job.id = i
  <2>1. timers[i] # None
    BY <1>1 DEF Fire
  <2>2. timers[i] \in Timer
    BY <2>1 DEF Placed, ScheduleTypeOK
  <2>3. QED
    BY <2>1, <2>2 DEF Registered, Timer
<1>2. ASSUME NEW job \in strays, FireStray(job)
      PROVE  job \in Job /\ job.kind = "once" /\ job.at \in Time
  BY <1>2 DEF FireStray, Registered, Placed, ScheduleTypeOK
<1>3. CASE \E i \in Id : Fire(i)
  <2>1. PICK i \in Id : Fire(i)
    BY <1>3
  <2>2. /\ Launch(timers[i].job) /\ timers[i] # None /\ timers[i].pending
        /\ timers' = [timers EXCEPT ![i].pending = FALSE] /\ strays' = strays
    BY <2>1 DEF Fire
  <2>3. QED
    BY <1>1, <2>1, <2>2
<1>4. CASE \E job \in strays : FireStray(job)
  <2>1. PICK job \in strays : FireStray(job)
    BY <1>4
  <2>2. Launch(job) /\ strays' = strays \ {job} /\ timers' = timers
    BY <2>1 DEF FireStray
  <2>3. QED
    BY <1>2, <2>1, <2>2
<1>5. QED
  BY <1>3, <1>4 DEF FireStep

\* A run ends: its row goes.  It is forgotten: what was armed since is a stray.
LEMMA RunTypes ==
  ASSUME Placed, NEW r \in runs, RunEnds(r) \/ RunForgets(r)
  PROVE  /\ schedules' \in [Id -> Row \cup {None}] /\ timers' \in [Id -> Timer \cup {None}]
         /\ strays' \subseteq Job /\ runs' \subseteq [job : Job, step : {"run", "unmap"}]
<1>a. /\ schedules \in [Id -> Row \cup {None}] /\ timers \in [Id -> Timer \cup {None}]
      /\ strays \subseteq Job /\ runs \subseteq [job : Job, step : {"run", "unmap"}]
  BY DEF Placed, ScheduleTypeOK
<1>1. r.job \in Job /\ r.job.id \in Id
  BY <1>a DEF Job
<1>2. CASE RunEnds(r)
  <2>1. /\ schedules' = [schedules EXCEPT ![r.job.id] = None]
        /\ runs' = (runs \ {r}) \cup {[r EXCEPT !.step = "unmap"]}
        /\ timers' = timers /\ strays' = strays
    BY <1>2 DEF RunEnds, memory
  <2>2. [r EXCEPT !.step = "unmap"] \in [job : Job, step : {"run", "unmap"}]
    BY <1>a
  <2>3. runs' \subseteq [job : Job, step : {"run", "unmap"}]
    BY <1>a, <2>1, <2>2
  <2>4. QED
    BY <1>a, <2>1, <2>3
<1>3. CASE RunForgets(r)
  <2> DEFINE t == timers[r.job.id]
  <2>1. /\ timers' = [timers EXCEPT ![r.job.id] = None]
        /\ strays' = strays \cup (IF t # None /\ t.pending THEN {t.job} ELSE {})
        /\ runs' = runs \ {r} /\ schedules' = schedules
    BY <1>3 DEF RunForgets
  <2>2. t # None => t.job \in Job
    BY <1>a, <1>1 DEF Timer
  <2> HIDE DEF t
  <2>3. strays' \subseteq Job
    BY <1>a, <2>1, <2>2
  <2>4. QED
    BY <1>a, <2>1, <2>3
<1>4. QED
  BY <1>2, <1>3

LEMMA StepPlaced ==
  ASSUME Placed, Registered, ScheduleNext
  PROVE  Placed' /\ edited \subseteq edited' /\ early \subseteq early'
<1>a. /\ schedules \in [Id -> Row \cup {None}] /\ nextId \in Nat /\ now \in 0..Horizon
      /\ phase \in {"down", "new", "listed", "running"}
      /\ listed \in [Id -> Row \cup {None}]
      /\ entries \in [Id -> Job \cup {None}] /\ timers \in [Id -> Timer \cup {None}]
      /\ strays \subseteq Job /\ runs \subseteq [job : Job, step : {"run", "unmap"}]
      /\ call \in [Caller -> CallState] /\ CallsHold
      /\ ran \in [Id -> [Time -> Nat]] /\ edited \subseteq Id /\ early \subseteq Id
      /\ raced \in BOOLEAN
  BY DEF Placed, ScheduleTypeOK, CallState, Asked
<1>b. SUFFICES ASSUME (Step /\ Note) \/ Crash
               PROVE  /\ schedules' \in [Id -> Row \cup {None}] /\ nextId' \in Nat
                      /\ now' \in 0..Horizon /\ phase' \in {"down", "new", "listed", "running"}
                      /\ listed' \in [Id -> Row \cup {None}]
                      /\ entries' \in [Id -> Job \cup {None}]
                      /\ timers' \in [Id -> Timer \cup {None}] /\ strays' \subseteq Job
                      /\ runs' \subseteq [job : Job, step : {"run", "unmap"}]
                      /\ call' \in [Caller -> CallState] /\ CallsHold'
                      /\ ran' \in [Id -> [Time -> Nat]]
  <2>1. ASSUME runs' \subseteq [job : Job, step : {"run", "unmap"}]
        PROVE  /\ edited' \subseteq Id /\ edited \subseteq edited'
               /\ early' \subseteq Id /\ early \subseteq early' /\ raced' \in BOOLEAN
    <3>1. CASE Crash
      BY <1>a, <3>1 DEF Crash
    <3>2. CASE Note
      BY <1>a, <2>1, <3>2, NoteTypes
    <3>3. QED
      BY <3>1, <3>2 DEF ScheduleNext
  <2>2. QED
    BY <2>1 DEF Placed, ScheduleTypeOK, CallState, Asked, ScheduleNext
<1>1. CASE Crash
  <2>1. UNCHANGED <<schedules, nextId, now, ran, edited, early, raced>> /\ phase' = "down"
    BY <1>1 DEF Crash
  <2>2. /\ listed' \in [Id -> Row \cup {None}] /\ entries' \in [Id -> Job \cup {None}]
        /\ timers' \in [Id -> Timer \cup {None}]
        /\ strays' \subseteq Job /\ runs' \subseteq [job : Job, step : {"run", "unmap"}]
    BY <1>1 DEF Crash
  <2>3. call' \in [Caller -> CallState] /\ \A c \in Caller : call'[c] = Idle
    BY <1>1 DEF Crash, CallState
  <2>4. CallsHold'
    BY <2>3 DEF CallsHold, Idle
  <2>5. QED
    BY <1>a, <2>1, <2>2, <2>3, <2>4
<1>2. CASE StartList \/ Boot
  <2>1. /\ UNCHANGED <<schedules, nextId, now, entries, timers, strays, runs, call, ran>>
        /\ listed' \in {listed, schedules} /\ phase' \in {"new", "listed"}
    BY <1>2 DEF StartList, Boot, memory
  <2>2. QED
    BY <1>a, <2>1 DEF CallsHold
<1>3. CASE StartLoad
  <2>1. /\ UNCHANGED <<nextId, now, runs, call, ran>> /\ phase' = "running"
    BY <1>3 DEF StartLoad
  <2>2. QED
    BY <1>a, <1>3, <2>1, LoadTypes DEF CallsHold
<1>4. CASE Tick
  <2>1. /\ UNCHANGED <<schedules, nextId, phase, listed, entries, timers, strays, runs, call, ran>>
        /\ now < Horizon /\ now' = now + 1
    BY <1>a, <1>4 DEF Tick, memory
  <2>2. now' \in 0..Horizon
    BY <1>a, <2>1, BoundsAreNumbers
  <2>3. QED
    BY <1>a, <2>1, <2>2 DEF CallsHold
<1>5. ASSUME NEW c \in Caller, Request(c)
      PROVE  /\ UNCHANGED <<schedules, nextId, now, phase, listed, entries, timers, strays,
                            runs, ran>>
             /\ call' \in [Caller -> CallState] /\ CallsHold'
  <2>1. Enter(c)
    BY <1>5 DEF Request, Upsert, Rename, Delete
  <2>2. QED
    BY <1>5, <2>1, RequestTypes DEF Enter, memory
<1>6. ASSUME NEW c \in Caller, Progress(c)
      PROVE  /\ UNCHANGED <<now, phase, listed, runs, ran>>
             /\ schedules' \in [Id -> Row \cup {None}] /\ nextId' \in Nat
             /\ entries' \in [Id -> Job \cup {None}] /\ timers' \in [Id -> Timer \cup {None}]
             /\ strays' = strays /\ call' \in [Caller -> CallState] /\ CallsHold'
  <2>1. CASE Resync(c)
    <3>1. UNCHANGED <<now, phase, listed, runs, ran, nextId, strays>>
      BY <2>1 DEF Resync
    <3>2. QED
      BY <1>a, <2>1, <3>1, ResyncTypes
  <2>2. CASE Forget(c)
    <3>1. /\ UNCHANGED <<now, phase, listed, runs, ran, nextId, strays, schedules>>
          /\ entries' = [entries EXCEPT ![call[c].id] = None]
          /\ timers' = [timers EXCEPT ![call[c].id] = None] /\ Return(c)
      BY <2>2 DEF Forget
    <3>2. entries' \in [Id -> Job \cup {None}] /\ timers' \in [Id -> Timer \cup {None}]
      BY <1>a, <3>1
    <3>3. QED
      BY <1>a, <3>1, <3>2, CallReturns
  <2>3. CASE UpsertStore(c) \/ Reread(c) \/ RenameStore(c) \/ DeleteStore(c)
    <3>1. UNCHANGED <<now, phase, listed, runs, ran, entries, timers, strays>>
      BY <2>3 DEF UpsertStore, Reread, RenameStore, DeleteStore, memory
    <3>2. QED
      BY <1>a, <2>3, <3>1, StoreTypes
  <2>4. QED
    BY <1>6, <2>1, <2>2, <2>3 DEF Progress
<1>7. CASE FireStep
  <2>1. PICK job \in Job : /\ job.kind = "once" /\ job.at \in Time /\ Launch(job)
                           /\ \/ /\ timers[job.id] # None /\ timers[job.id].pending
                                 /\ timers[job.id].job = job
                                 /\ timers' = [timers EXCEPT ![job.id].pending = FALSE]
                                 /\ strays' = strays
                              \/ job \in strays /\ strays' = strays \ {job} /\ timers' = timers
    BY <1>7, FiredJob
  <2>2. UNCHANGED <<schedules, nextId, now, phase, listed, entries, call>>
    BY <2>1 DEF Launch
  <2>3. timers' \in [Id -> Timer \cup {None}]
    <3>1. CASE timers' = timers
      BY <1>a, <3>1
    <3>2. CASE timers[job.id] # None /\ timers' = [timers EXCEPT ![job.id].pending = FALSE]
      <4>1. job.id \in Id
        BY DEF Job
      <4>2. timers[job.id] \in Timer
        BY <1>a, <3>2, <4>1
      <4>3. [timers[job.id] EXCEPT !.pending = FALSE] \in Timer
        BY <4>2 DEF Timer
      <4>4. QED
        BY <1>a, <3>2, <4>3
    <3>3. QED
      BY <2>1, <3>1, <3>2
  <2>4. strays' \subseteq Job
    BY <1>a, <2>1
  <2>5. QED
    BY <1>a, <2>1, <2>2, <2>3, <2>4, LaunchTypes DEF CallsHold
<1>8. CASE RunStep
  <2>1. PICK r \in runs : RunEnds(r) \/ RunForgets(r)
    BY <1>8 DEF RunStep
  <2>2. UNCHANGED <<nextId, now, phase, listed, entries, call, ran>>
    BY <2>1 DEF RunEnds, RunForgets, memory
  <2>3. QED
    BY <1>a, <2>1, <2>2, RunTypes DEF CallsHold
<1>9. CASE \E c \in Caller : Request(c) \/ Progress(c)
  <2>1. PICK c \in Caller : Request(c) \/ Progress(c)
    BY <1>9
  <2>2. CASE Request(c)
    BY <1>a, <1>5, <2>2
  <2>3. CASE Progress(c)
    BY <1>a, <1>6, <2>3
  <2>4. QED
    BY <2>1, <2>2, <2>3
<1>10. QED
  BY <1>b, <1>1, <1>2, <1>3, <1>4, <1>7, <1>8, <1>9 DEF Step, Startup

-----------------------------------------------------------------------------
(* Names, registrations and runs. *)

\* What each step may do to the rows.
LEMMA RowsChange ==
  ASSUME Placed, ScheduleNext
  PROVE  \/ schedules' = schedules
         \/ \E S \in SUBSET Id : DisableAll(S)
         \/ \E i \in Id : schedules' = [schedules EXCEPT ![i] = None]
         \/ \E c \in Caller : UpsertStore(c)
         \/ \E i \in Id, name \in Name :
              /\ schedules[i] # None /\ ~Exists(name)
              /\ schedules' = [schedules EXCEPT ![i].name = name]
<1>1. CASE StartLoad
  <2>1. DisableAll({i \in Id : Missed(listed[i])})
    BY <1>1 DEF StartLoad
  <2>2. {i \in Id : Missed(listed[i])} \in SUBSET Id
    OBVIOUS
  <2>3. QED
    BY <2>1, <2>2
<1>2. ASSUME NEW c \in Caller, Resync(c)
      PROVE  \E S \in SUBSET Id : DisableAll(S)
  <2>1. call[c].id \in Id
    BY <1>2 DEF Placed, CallsHold, Resync, At
  <2>2. DisableAll({k \in {call[c].id} : Missed(call[c].row)})
    BY <1>2 DEF Resync
  <2>3. {k \in {call[c].id} : Missed(call[c].row)} \in SUBSET Id
    BY <2>1
  <2>4. QED
    BY <2>2, <2>3
<1>3. ASSUME NEW c \in Caller, RenameStore(c)
      PROVE  \/ schedules' = schedules
             \/ \E i \in Id, name \in Name :
                  /\ schedules[i] # None /\ ~Exists(name)
                  /\ schedules' = [schedules EXCEPT ![i].name = name]
  <2>1. call[c].id \in Id /\ call[c].row \in Row
    BY <1>3 DEF Placed, CallsHold, RenameStore, At
  <2>2. call[c].row.name \in Name
    BY <2>1, RowFields
  <2>3. QED
    BY <1>3, <2>1, <2>2 DEF RenameStore
<1>4. ASSUME NEW c \in Caller, DeleteStore(c)
      PROVE  schedules' = schedules \/ \E i \in Id : schedules' = [schedules EXCEPT ![i] = None]
  <2>1. call[c].id \in Id
    BY <1>4 DEF Placed, CallsHold, DeleteStore, At
  <2>2. QED
    BY <1>4, <2>1 DEF DeleteStore
<1>5. ASSUME NEW r \in runs, RunEnds(r) \/ RunForgets(r)
      PROVE  schedules' = schedules \/ \E i \in Id : schedules' = [schedules EXCEPT ![i] = None]
  <2>1. r.job.id \in Id
    BY DEF Placed, ScheduleTypeOK, Job
  <2>2. QED
    BY <1>5, <2>1 DEF RunEnds, RunForgets
<1>6. ASSUME NEW c \in Caller, Request(c) \/ Reread(c) \/ Forget(c)
      PROVE  schedules' = schedules
  BY <1>6 DEF Request, Upsert, Rename, Delete, Enter, Reread, Forget
<1>7. CASE StartList \/ Boot \/ Tick \/ Crash
  BY <1>7 DEF StartList, Boot, Tick, Crash
<1>8. CASE FireStep
  BY <1>8 DEF FireStep, Fire, FireStray, Launch
<1>9. QED
  BY <1>1, <1>2, <1>3, <1>4, <1>5, <1>6, <1>7, <1>8 DEF ScheduleNext, Step, Startup, Progress, RunStep

\* A stored row: at the id of its name, or at a new one.
LEMMA StoredAt ==
  ASSUME Placed, NEW c \in Caller, UpsertStore(c)
  PROVE  \E i \in Nat : \E row \in Row :
           /\ row = call[c].row /\ schedules' = [schedules EXCEPT ![i] = row]
           /\ \/ Exists(row.name) /\ i = IdOf(row.name) /\ i \in Id
              \/ ~Exists(row.name) /\ i = nextId
           /\ nextId' = IF i = nextId THEN nextId + 1 ELSE nextId
           /\ Go(c, "reread", 0, row)
<1> DEFINE row == call[c].row
           i == IF Exists(row.name) THEN IdOf(row.name) ELSE nextId
<1>1. row \in Row
  BY DEF Placed, CallsHold, UpsertStore, At
<1>2. /\ schedules' = [schedules EXCEPT ![i] = row] /\ Go(c, "reread", 0, row)
      /\ nextId' = IF i = nextId THEN nextId + 1 ELSE nextId
  BY DEF UpsertStore
<1>3. Exists(row.name) => IdOf(row.name) \in Id
  BY RowOfName
<1>4. i \in Nat
  BY <1>3 DEF Id, Placed, ScheduleTypeOK
<1>5. \/ Exists(row.name) /\ i = IdOf(row.name) /\ i \in Id
      \/ ~Exists(row.name) /\ i = nextId
  BY <1>3
<1> HIDE DEF row, i
<1>6. QED
  BY <1>1, <1>2, <1>4, <1>5 DEF row

\* Rows are stored at their name's id and renamed to free names only.
LEMMA StepNames ==
  ASSUME Placed, Names, ScheduleNext
  PROVE  Names'
<1>a. schedules \in [Id -> Row \cup {None}]
  BY DEF Placed, ScheduleTypeOK
<1>1. CASE schedules' = schedules
  BY <1>1 DEF Names
<1>2. ASSUME NEW S \in SUBSET Id, DisableAll(S) PROVE Names'
  BY <1>a, <1>2, DisableAllRows DEF Names
<1>3. ASSUME NEW i \in Id, schedules' = [schedules EXCEPT ![i] = None] PROVE Names'
  BY <1>a, <1>3 DEF Names
<1>4. ASSUME NEW c \in Caller, UpsertStore(c) PROVE Names'
  <2>1. PICK i \in Nat : \E row \in Row :
           /\ row = call[c].row /\ schedules' = [schedules EXCEPT ![i] = row]
           /\ \/ Exists(row.name) /\ i = IdOf(row.name) /\ i \in Id
              \/ ~Exists(row.name) /\ i = nextId
    BY <1>4, StoredAt
  <2>2. PICK row \in Row :
           /\ schedules' = [schedules EXCEPT ![i] = row]
           /\ \/ Exists(row.name) /\ i = IdOf(row.name) /\ i \in Id
              \/ ~Exists(row.name) /\ i = nextId
    BY <2>1
  <2>3. \A k \in Id : k # i /\ schedules[k] # None => schedules[k].name # row.name
    <3>1. CASE Exists(row.name)
      <4>1. i = IdOf(row.name) /\ i \in Id
        BY <2>2, <3>1
      <4>2. schedules[i] # None /\ schedules[i].name = row.name
        BY <3>1, <4>1, RowOfName
      <4>3. QED
        BY <4>1, <4>2 DEF Names
    <3>2. CASE ~Exists(row.name)
      BY <3>2 DEF Exists
    <3>3. QED
      BY <3>1, <3>2
  <2>4. \A k \in Id : schedules'[k] = IF k = i THEN row ELSE schedules[k]
    BY <1>a, <2>2
  <2>5. QED
    BY <2>3, <2>4 DEF Names
<1>5. ASSUME NEW i \in Id, NEW name \in Name, schedules[i] # None, ~Exists(name),
             schedules' = [schedules EXCEPT ![i].name = name]
      PROVE  Names'
  <2>1. schedules[i] \in Row
    BY <1>a, <1>5
  <2>2. /\ schedules'[i].name = name
        /\ \A k \in Id : k # i => schedules'[k] = schedules[k]
    BY <1>a, <1>5, <2>1 DEF Row
  <2>3. \A k \in Id : schedules[k] # None => schedules[k].name # name
    BY <1>5 DEF Exists
  <2>4. QED
    BY <2>2, <2>3 DEF Names
<1>6. QED
  BY <1>1, <1>2, <1>3, <1>4, <1>5, RowsChange

\* Which rows ask for a timer, and which for an entry.
LEMMA WantsFields ==
  ASSUME NEW row \in Row \cup {None}, now \in 0..Horizon
  PROVE  /\ WantsTimer(row) => row \in Row /\ row.kind = "once" /\ row.at \in Time /\ row.at > now
         /\ WantsEntry(row) => row \in Row /\ row.kind = "recurring"
<1>1. WantsTimer(row) => row \in Row /\ row.kind = "once" /\ row.at > now
  BY DEF WantsTimer
<1>2. WantsEntry(row) => row \in Row /\ row.kind = "recurring"
  BY DEF WantsEntry
<1>3. row \in Row /\ row.at > now => row.at \in Time
  <2>1. row \in Row => row.at \in 0..Horizon
    BY RowFields
  <2>2. QED
    BY <2>1, BoundsAreNumbers DEF Time
<1>4. QED
  BY <1>1, <1>2, <1>3

LEMMA StepRegistered ==
  ASSUME Placed, Registered, ScheduleNext
  PROVE  Registered'
<1>a. /\ listed \in [Id -> Row \cup {None}] /\ now \in 0..Horizon
      /\ entries \in [Id -> Job \cup {None}] /\ timers \in [Id -> Timer \cup {None}]
  BY DEF Placed, ScheduleTypeOK
<1>1. CASE StartLoad
  <2>1. /\ entries' = [i \in Id |-> IF WantsEntry(listed[i])
                                    THEN JobOf(i, listed[i]) ELSE entries[i]]
        /\ timers' = [i \in Id |-> IF WantsTimer(listed[i])
                        THEN [job |-> JobOf(i, listed[i]), pending |-> TRUE] ELSE timers[i]]
        /\ strays' = strays
             \cup {entries[i] : i \in {k \in Id : entries[k] # None /\ WantsEntry(listed[k])}}
             \cup {timers[i].job : i \in {k \in Id : /\ timers[k] # None
                                                     /\ timers[k].pending
                                                     /\ WantsTimer(listed[k])}}
    BY <1>1 DEF StartLoad
  <2>2. \A i \in Id : /\ WantsTimer(listed[i]) =>
                           /\ JobOf(i, listed[i]).id = i /\ JobOf(i, listed[i]).kind = "once"
                           /\ JobOf(i, listed[i]).at \in Time
                      /\ WantsEntry(listed[i]) =>
                           JobOf(i, listed[i]).id = i /\ JobOf(i, listed[i]).kind = "recurring"
    BY <1>a, WantsFields, JobOfRow
  <2>3. \A i \in Id : entries'[i] # None => entries'[i].id = i /\ entries'[i].kind = "recurring"
    BY <2>1, <2>2 DEF Registered
  <2>4. \A i \in Id : timers'[i] # None =>
          timers'[i].job.id = i /\ timers'[i].job.kind = "once" /\ timers'[i].job.at \in Time
    BY <2>1, <2>2 DEF Registered
  <2>5. \A j \in strays' : j.kind = "once" => j.at \in Time
    BY <2>1 DEF Registered
  <2>6. QED
    BY <2>3, <2>4, <2>5 DEF Registered
<1>2. ASSUME NEW c \in Caller, Resync(c) PROVE Registered'
  <2> DEFINE i == call[c].id
             row == call[c].row
  <2>1. i \in Id /\ row \in Row
    BY <1>2 DEF Placed, CallsHold, Resync, At
  <2>2. /\ entries' = [entries EXCEPT ![i] = IF WantsEntry(row) THEN JobOf(i, row) ELSE None]
        /\ timers' = [timers EXCEPT ![i] =
             IF WantsTimer(row) THEN [job |-> JobOf(i, row), pending |-> TRUE] ELSE None]
        /\ strays' = strays
    BY <1>2 DEF Resync
  <2> HIDE DEF i, row
  <2>3. /\ WantsTimer(row) =>
             JobOf(i, row).id = i /\ JobOf(i, row).kind = "once" /\ JobOf(i, row).at \in Time
        /\ WantsEntry(row) => JobOf(i, row).id = i /\ JobOf(i, row).kind = "recurring"
    BY <1>a, <2>1, WantsFields, JobOfRow
  <2>4. QED
    BY <1>a, <2>1, <2>2, <2>3 DEF Registered
<1>3. ASSUME NEW c \in Caller, Forget(c) PROVE Registered'
  BY <1>a, <1>3 DEF Registered, Forget
<1>4. CASE FireStep
  <2>1. PICK job \in Job :
          /\ Launch(job)
          /\ \/ /\ timers[job.id] # None
                /\ timers' = [timers EXCEPT ![job.id].pending = FALSE]
                /\ strays' = strays
             \/ strays' = strays \ {job} /\ timers' = timers
    BY <1>4, FiredJob
  <2>2. entries' = entries /\ job.id \in Id
    BY <2>1 DEF Launch, Job
  <2>3. CASE strays' = strays \ {job} /\ timers' = timers
    BY <2>2, <2>3 DEF Registered
  <2>4. CASE /\ timers[job.id] # None /\ timers' = [timers EXCEPT ![job.id].pending = FALSE]
             /\ strays' = strays
    <3>1. timers[job.id] \in Timer
      BY <1>a, <2>2, <2>4
    <3>2. timers'[job.id].job = timers[job.id].job
      BY <1>a, <2>2, <2>4, <3>1 DEF Timer
    <3>3. \A i \in Id : i # job.id => timers'[i] = timers[i]
      BY <1>a, <2>4
    <3>4. QED
      BY <2>2, <2>4, <3>2, <3>3 DEF Registered
  <2>5. QED
    BY <2>1, <2>3, <2>4
<1>5. ASSUME NEW r \in runs, RunEnds(r) \/ RunForgets(r) PROVE Registered'
  <2>1. r.job.id \in Id
    BY DEF Placed, ScheduleTypeOK, Job
  <2>2. CASE RunEnds(r)
    BY <2>2 DEF Registered, RunEnds, memory
  <2>3. CASE RunForgets(r)
    BY <1>a, <2>1, <2>3 DEF Registered, RunForgets
  <2>4. QED
    BY <1>5, <2>2, <2>3
<1>6. ASSUME NEW c \in Caller,
             \/ Request(c) \/ Reread(c) \/ UpsertStore(c) \/ RenameStore(c) \/ DeleteStore(c)
      PROVE  Registered'
  <2>1. UNCHANGED <<entries, timers, strays>>
    BY <1>6 DEF Request, Upsert, Rename, Delete, Enter, Reread, UpsertStore, RenameStore,
                DeleteStore, memory
  <2>2. QED
    BY <2>1 DEF Registered
<1>7. CASE StartList \/ Boot \/ Tick
  <2>1. UNCHANGED <<entries, timers, strays>>
    BY <1>7 DEF StartList, Boot, Tick, memory
  <2>2. QED
    BY <2>1 DEF Registered
<1>8. CASE Crash
  BY <1>8 DEF Registered, Crash
<1>9. QED
  BY <1>1, <1>2, <1>3, <1>4, <1>5, <1>6, <1>7, <1>8 DEF ScheduleNext, Step, Startup, Progress, RunStep

\* What each step may do to the runs and their count.
LEMMA RunsChange ==
  ASSUME Placed, Registered, ScheduleNext
  PROVE  \/ runs' \subseteq runs /\ ran' = ran
         \/ \E r \in runs : RunEnds(r) /\ ran' = ran
                            /\ runs' = (runs \ {r}) \cup {[r EXCEPT !.step = "unmap"]}
         \/ FireStep
<1>1. CASE StartLoad \/ StartList \/ Boot \/ Tick \/ Crash
  BY <1>1 DEF StartLoad, StartList, Boot, Tick, Crash
<1>2. ASSUME NEW c \in Caller, Request(c) \/ Progress(c)
      PROVE  runs' = runs /\ ran' = ran
  BY <1>2 DEF Request, Upsert, Rename, Delete, Enter, Progress, UpsertStore, Reread, RenameStore,
              DeleteStore, Forget, Resync
<1>3. ASSUME NEW r \in runs, RunEnds(r) \/ RunForgets(r)
      PROVE  \/ runs' \subseteq runs /\ ran' = ran
             \/ RunEnds(r) /\ ran' = ran
                /\ runs' = (runs \ {r}) \cup {[r EXCEPT !.step = "unmap"]}
  BY <1>3 DEF RunEnds, RunForgets
<1>4. QED
  BY <1>1, <1>2, <1>3 DEF ScheduleNext, Step, Startup, RunStep

LEMMA StepRan ==
  ASSUME Placed, Registered, Ran, ScheduleNext, Placed'
  PROVE  Ran'
<1>a. /\ now \in 0..Horizon /\ runs \subseteq [job : Job, step : {"run", "unmap"}]
      /\ runs' \subseteq [job : Job, step : {"run", "unmap"}]
      /\ ran \in [Id -> [Time -> Nat]] /\ \A t \in Time : t \in Nat
  BY ZeroIsNoTime DEF Placed, ScheduleTypeOK
<1>b. now' \in Nat /\ now <= now'
  <2>1. now' = now \/ now' = now + 1
    BY DEF ScheduleNext, Step, Startup, StartList, StartLoad, Boot, Tick, Request, Upsert, Rename, Delete,
           Enter, Progress, UpsertStore, Reread, RenameStore, DeleteStore, Forget, Resync,
           FireStep, Fire, FireStray, Launch, RunStep, RunEnds, RunForgets, Crash
  <2>2. QED
    BY <1>a, <2>1
<1>1. \A r \in runs' : r.step = "run" /\ r.job.id \notin edited' =>
        schedules'[r.job.id] # None /\ JobOf(r.job.id, schedules'[r.job.id]) = r.job
  <2>1. CASE Note
    BY <2>1 DEF Note
  <2>2. CASE Crash
    BY <2>2 DEF Crash
  <2>3. QED
    BY <2>1, <2>2 DEF ScheduleNext
<1>2. CASE runs' \subseteq runs /\ ran' = ran
  <2>1. \A i \in Id, t \in Time : ran'[i][t] > 0 => t <= now'
    BY <1>a, <1>b, <1>2 DEF Ran
  <2>2. QED
    BY <1>1, <1>2, <2>1 DEF Ran
<1>3. ASSUME NEW r \in runs, runs' = (runs \ {r}) \cup {[r EXCEPT !.step = "unmap"]}, ran' = ran
      PROVE  Ran'
  <2>1. [r EXCEPT !.step = "unmap"].job = r.job
    BY <1>a
  <2>2. \A i \in Id, t \in Time : ran'[i][t] > 0 => t <= now'
    BY <1>a, <1>b, <1>3 DEF Ran
  <2>3. \A x \in runs' : /\ x.job.kind = "once" /\ x.job.at \in Time
                         /\ ran'[x.job.id][x.job.at] > 0
    BY <1>3, <2>1 DEF Ran
  <2>4. QED
    BY <1>1, <2>2, <2>3 DEF Ran
<1>4. CASE FireStep
  <2>1. PICK job \in Job : job.kind = "once" /\ job.at \in Time /\ Launch(job)
    BY <1>4, FiredJob
  <2>2. /\ ran'[job.id][job.at] = ran[job.id][job.at] + 1
        /\ \A i \in Id, t \in Time : i # job.id \/ t # job.at => ran'[i][t] = ran[i][t]
    BY <2>1, LaunchTypes
  <2>3. job.at <= now /\ runs' = runs \cup {[job |-> job, step |-> "run"]}
    BY <2>1 DEF Launch
  <2>4. ran[job.id][job.at] \in Nat /\ job.id \in Id
    BY <1>a, <2>1 DEF Job
  <2>5. \A i \in Id, t \in Time : ran'[i][t] > 0 => t <= now'
    <3>1. SUFFICES ASSUME NEW i \in Id, NEW t \in Time, ran'[i][t] > 0 PROVE t <= now'
      OBVIOUS
    <3>2. t <= now
      BY <2>2, <2>3, <3>1 DEF Ran
    <3>3. QED
      BY <1>a, <1>b, <3>2
  <2>6. ran'[job.id][job.at] > 0
    BY <2>2, <2>4
  <2>7. \A r \in runs : ran'[r.job.id][r.job.at] > 0
    <3>1. SUFFICES ASSUME NEW r \in runs PROVE ran'[r.job.id][r.job.at] > 0
      OBVIOUS
    <3>2. r.job.id \in Id /\ r.job.at \in Time /\ ran[r.job.id][r.job.at] > 0
      BY <1>a DEF Ran, Job
    <3>3. CASE r.job.id = job.id /\ r.job.at = job.at
      BY <2>6, <3>3
    <3>4. CASE r.job.id # job.id \/ r.job.at # job.at
      BY <2>2, <3>2, <3>4
    <3>5. QED
      BY <3>3, <3>4
  <2>8. \A x \in runs' : /\ x.job.kind = "once" /\ x.job.at \in Time
                         /\ ran'[x.job.id][x.job.at] > 0
    BY <2>1, <2>3, <2>6, <2>7 DEF Ran
  <2>9. QED
    BY <1>1, <2>5, <2>8 DEF Ran
<1>5. QED
  BY <1>2, <1>3, <1>4, RunsChange

JobsKept == Placed /\ Names /\ Registered /\ Ran

LEMMA InitJobs == ScheduleInit => JobsKept
<1> SUFFICES ASSUME ScheduleInit PROVE JobsKept
  OBVIOUS
<1>1. PICK row \in Preloaded \cup {None} : schedules = [i \in Id |-> IF i = 1 THEN row ELSE None]
  BY DEF ScheduleInit
<1>2. row \in Row \cup {None}
  BY SchedulerConstants
<1>3. schedules \in [Id -> Row \cup {None}] /\ Names
  BY <1>1, <1>2 DEF Names
<1>4. /\ nextId = 2 /\ now = 0 /\ phase = "new" /\ listed = [i \in Id |-> None]
      /\ entries = [i \in Id |-> None] /\ timers = [i \in Id |-> None]
      /\ strays = {} /\ runs = {} /\ call = [c \in Caller |-> Idle]
      /\ ran = [i \in Id |-> [t \in Time |-> 0]] /\ edited = {} /\ early = {} /\ raced = FALSE
  BY DEF ScheduleInit
<1>5. ran \in [Id -> [Time -> Nat]] /\ \A i \in Id, t \in Time : ran[i][t] = 0
  BY <1>4
<1>6. call \in [Caller -> CallState] /\ \A c \in Caller : call[c] = Idle
  BY <1>4 DEF CallState
<1>7. ScheduleTypeOK
  <2>1. nextId \in Nat /\ now \in 0..Horizon
    BY <1>4, ZeroIsNoTime
  <2>2. /\ listed \in [Id -> Row \cup {None}] /\ entries \in [Id -> Job \cup {None}]
        /\ timers \in [Id -> Timer \cup {None}]
    BY <1>4
  <2>3. QED
    BY <1>3, <1>4, <1>5, <1>6, <2>1, <2>2 DEF ScheduleTypeOK, CallState, Asked
<1>8. CallsHold
  BY <1>6 DEF CallsHold, Idle
<1>9. Registered /\ Ran
  BY <1>4, <1>5 DEF Registered, Ran
<1>10. QED
  BY <1>3, <1>7, <1>8, <1>9 DEF JobsKept, Placed

LEMMA StepJobs ==
  ASSUME JobsKept, [ScheduleNext]_scheduler
  PROVE  JobsKept'
<1>1. CASE ScheduleNext
  BY <1>1, StepPlaced, StepNames, StepRegistered, StepRan DEF JobsKept
<1>2. CASE UNCHANGED scheduler
  BY <1>2 DEF scheduler, memory, JobsKept, Placed, ScheduleTypeOK, CallsHold, Names, Registered,
              Ran
<1>3. QED
  BY <1>1, <1>2

\* Every step keeps the rows, the registrations and the runs in order.
THEOREM JobsInvariance == ScheduleSafeSpec => []JobsKept
<1>1. QED
  BY InitJobs, StepJobs, PTL DEF ScheduleSafeSpec

\* Rows, jobs, timers and calls keep their types: a call that registers a row
\* holds one, and ids are ids of the table.
THEOREM ScheduleTypes == ScheduleSafeSpec => []ScheduleTypeOK
<1>1. JobsKept => ScheduleTypeOK
  BY DEF JobsKept, Placed
<1>2. QED
  BY <1>1, JobsInvariance, PTL

\* No step of UpsertFull, Rename, Start or a run takes a one-time row out of the
\* table, but the end of its own job and a delete.
THEOREM MissedStays == ScheduleSafeSpec => MissedStaysVisible
<1>1. ASSUME JobsKept, ScheduleNext, NEW i \in Id, schedules[i] # None, schedules'[i] = None,
             schedules[i].kind = "once", i \notin edited'
      PROVE  \/ ran[i][schedules[i].at] > 0
             \/ \E c \in Caller : At(c, "delete") /\ call[c].id = i
  <2>a. schedules \in [Id -> Row \cup {None}] /\ edited \subseteq edited'
    BY <1>1, StepPlaced DEF JobsKept, Placed, ScheduleTypeOK
  <2>1. ASSUME NEW S, DisableAll(S) PROVE FALSE
    BY <1>1, <2>a, <2>1, DisableAllRows
  <2>2. ASSUME NEW c \in Caller, UpsertStore(c) PROVE FALSE
    <3>1. call[c].row \in Row
      BY <1>1, <2>2 DEF JobsKept, Placed, CallsHold, UpsertStore, At
    <3>2. call[c].row # None
      BY <3>1, RowFields
    <3>3. QED
      BY <1>1, <2>a, <2>2, <3>2 DEF UpsertStore
  <2>3. ASSUME NEW c \in Caller, RenameStore(c) PROVE FALSE
    <3>1. call[c].id \in Id /\ call[c].row \in Row
      BY <1>1, <2>3 DEF JobsKept, Placed, CallsHold, RenameStore, At
    <3>2. /\ schedules[call[c].id] # None
          /\ schedules' = [schedules EXCEPT ![call[c].id].name = call[c].row.name]
      BY <1>1, <2>3 DEF RenameStore
    <3>3. i = call[c].id
      BY <1>1, <2>a, <3>1, <3>2
    <3>4. schedules[i] \in Row /\ call[c].row.name \in Name
      BY <1>1, <2>a, <3>1, RowFields
    <3>5. [schedules[i] EXCEPT !.name = call[c].row.name] \in Row
      BY <3>4 DEF Row
    <3>6. schedules'[i] \in Row
      BY <2>a, <3>2, <3>3, <3>5
    <3>7. QED
      BY <1>1, <3>6, RowFields
  <2>4. ASSUME NEW c \in Caller, DeleteStore(c)
        PROVE  At(c, "delete") /\ call[c].id = i
    BY <1>1, <2>a, <2>4 DEF DeleteStore
  <2>5. ASSUME NEW r \in runs, RunEnds(r) PROVE ran[i][schedules[i].at] > 0
    <3>1. r.step = "run" /\ schedules' = [schedules EXCEPT ![r.job.id] = None]
      BY <2>5 DEF RunEnds
    <3>2. i = r.job.id
      BY <1>1, <2>a, <3>1
    <3>3. JobOf(i, schedules[i]) = r.job /\ ran[i][r.job.at] > 0
      BY <1>1, <2>a, <3>1, <3>2 DEF JobsKept, Ran
    <3>4. schedules[i].at = r.job.at
      BY <1>1, <2>a, <3>3, JobOfRow
    <3>5. QED
      BY <3>3, <3>4
  <2>6. CASE schedules' = schedules
    BY <1>1, <2>6
  <2>7. CASE StartLoad
    BY <2>1, <2>7 DEF StartLoad
  <2>8. ASSUME NEW c \in Caller, Resync(c) PROVE FALSE
    BY <2>1, <2>8 DEF Resync
  <2>9. ASSUME NEW c \in Caller, Request(c) \/ Reread(c) \/ Forget(c)
        PROVE  schedules' = schedules
    BY <2>9 DEF Request, Upsert, Rename, Delete, Enter, Reread, Forget
  <2>10. ASSUME StartList \/ Boot \/ Tick \/ Crash \/ FireStep \/ \E r \in runs : RunForgets(r)
         PROVE  schedules' = schedules
    BY <2>10 DEF StartList, Boot, Tick, Crash, FireStep, Fire, FireStray, Launch, RunForgets
  <2>11. QED
    BY <1>1, <2>2, <2>3, <2>4, <2>5, <2>6, <2>7, <2>8, <2>9, <2>10
       DEF ScheduleNext, Step, Startup, Progress, RunStep
<1>2. JobsKept /\ [ScheduleNext]_scheduler =>
        [\A i \in Id :
           /\ schedules[i] # None /\ schedules'[i] = None
           /\ schedules[i].kind = "once" /\ i \notin edited'
           => \/ ran[i][schedules[i].at] > 0
              \/ \E c \in Caller : At(c, "delete") /\ call[c].id = i]_scheduler
  BY <1>1
<1>3. QED
  BY <1>2, JobsInvariance, PTL DEF ScheduleSafeSpec, MissedStaysVisible

-----------------------------------------------------------------------------
(* One-time jobs. *)

Running(i) == \E r \in runs : r.job.id = i

\* Until Start has loaded the table nothing is registered for an id and nothing
\* of it runs, unless a call has overtaken Start with it, and what Start has
\* listed for it is still its row.
Started ==
  /\ phase = "down" =>
       /\ \A i \in Id : entries[i] = None /\ timers[i] = None
       /\ strays = {} /\ runs = {} /\ \A c \in Caller : call[c] = Idle
  /\ phase \in {"new", "listed"} => \A i \in Id \ early :
       /\ entries[i] = None /\ timers[i] = None
       /\ (\A j \in strays : j.id # i) /\ ~Running(i)
  /\ phase = "listed" => \A i \in Id \ early : listed[i] = schedules[i]

\* Ids are given out once: what is listed, registered, runs or is held by a call
\* has an id given out before, and a row that is gone while its job is a stray,
\* while its run is being forgotten or while a call forgets it, is gone for good.
\* A stray is of such a row, or of one that a call overtook Start with.
Used ==
  /\ nextId \in Nat /\ 0 < nextId
  /\ \A i \in Id : schedules[i] # None \/ listed[i] # None => i < nextId
  /\ \A i \in Id : entries[i] # None \/ timers[i] # None => i < nextId
  /\ \A j \in strays : j.id < nextId /\ (j.id \in early \/ schedules[j.id] = None)
  /\ \A r \in runs : r.job.id < nextId /\ (r.step = "unmap" => schedules[r.job.id] = None)
  /\ \A c \in Caller : /\ call[c].id < nextId
                       /\ At(c, "forget") => schedules[call[c].id] = None

\* A timer that is armed has not run for its time.
Armed ==
  \A i \in Id \ (edited \cup early) :
    /\ timers[i] # None /\ timers[i].pending => ran[i][timers[i].job.at] = 0
    /\ \A t \in Time : ran[i][t] <= 1

\* Of the runs, those of the job that fires or ends change.
LEMMA FiredRuns ==
  ASSUME NEW job, Launch(job)
  PROVE  /\ Running(job.id)'
         /\ \A k \in Id : k # job.id => (Running(k)' <=> Running(k))
<1> DEFINE new == [job |-> job, step |-> "run"]
<1>1. new.job = job
  OBVIOUS
<1>2. runs' = runs \cup {new}
  BY DEF Launch
<1> HIDE DEF new
<1>3. QED
  BY <1>1, <1>2 DEF Running

LEMMA EndedRuns ==
  ASSUME Placed, NEW r \in runs, RunEnds(r) \/ RunForgets(r)
  PROVE  \A k \in Id : k # r.job.id => (Running(k)' <=> Running(k))
<1>1. [r EXCEPT !.step = "unmap"].job = r.job
  BY DEF Placed, ScheduleTypeOK
<1>2. \/ runs' = (runs \ {r}) \cup {[r EXCEPT !.step = "unmap"]}
      \/ runs' = runs \ {r}
  BY DEF RunEnds, RunForgets
<1>3. QED
  BY <1>1, <1>2 DEF Running

\* While the process is down nothing is called, fires or runs.
LEMMA NotDown ==
  ASSUME Started,
         \/ FireStep \/ RunStep \/ \E c \in Caller : Request(c) \/ Progress(c)
  PROVE  phase # "down" /\ phase' = phase /\ listed' = listed
<1>1. CASE FireStep
  <2>1. strays # {} \/ \E i \in Id : timers[i] # None
    BY <1>1 DEF FireStep, Fire
  <2>2. phase' = phase /\ listed' = listed
    BY <1>1 DEF FireStep, Fire, FireStray, Launch
  <2>3. QED
    BY <2>1, <2>2 DEF Started
<1>2. CASE RunStep
  BY <1>2 DEF RunStep, RunEnds, RunForgets, Started
<1>3. ASSUME NEW c \in Caller, Request(c)
      PROVE  phase # "down" /\ phase' = phase /\ listed' = listed
  <2>1. Enter(c)
    BY <1>3 DEF Request, Upsert, Rename, Delete
  <2>2. QED
    BY <2>1 DEF Enter
<1>4. ASSUME NEW c \in Caller, Progress(c)
      PROVE  phase # "down" /\ phase' = phase /\ listed' = listed
  <2>1. call[c].step # "idle" /\ phase' = phase /\ listed' = listed
    BY <1>4 DEF Progress, UpsertStore, Reread, RenameStore, DeleteStore, Forget, Resync, At
  <2>2. call[c] # Idle
    BY <2>1 DEF Idle
  <2>3. QED
    BY <2>1, <2>2 DEF Started
<1>5. QED
  BY <1>1, <1>2, <1>3, <1>4

\* What has no timer, no stray and no run starts none by itself.
LEMMA NothingStarts ==
  ASSUME Placed, Registered, NEW i \in Id,
         timers[i] = None, \A j \in strays : j.id # i, ~Running(i),
         \/ FireStep \/ RunStep \/ \E c \in Caller : Request(c) \/ Progress(c)
  PROVE  (\A j \in strays' : j.id # i) /\ ~Running(i)'
<1>1. CASE FireStep
  <2>1. PICK job \in Job : /\ Launch(job)
                           /\ \/ timers[job.id] # None /\ strays' = strays
                              \/ job \in strays /\ strays' = strays \ {job}
    BY <1>1, FiredJob
  <2>2. i # job.id
    BY <2>1
  <2>3. QED
    BY <2>1, <2>2, FiredRuns
<1>2. ASSUME NEW r \in runs, RunEnds(r) \/ RunForgets(r)
      PROVE  (\A j \in strays' : j.id # i) /\ ~Running(i)'
  <2>1. r.job.id # i /\ r.job.id \in Id
    BY DEF Running, Placed, ScheduleTypeOK, Job
  <2>2. \A j \in strays' :
          j \in strays \/ (timers[r.job.id] # None /\ j = timers[r.job.id].job)
    BY <1>2 DEF RunEnds, RunForgets, memory
  <2>3. timers[r.job.id] # None => timers[r.job.id].job.id = r.job.id
    BY <2>1 DEF Registered
  <2>4. QED
    BY <1>2, <2>1, <2>2, <2>3, EndedRuns
<1>3. ASSUME NEW c \in Caller, Request(c) \/ Progress(c)
      PROVE  strays' = strays /\ runs' = runs
  BY <1>3 DEF Request, Upsert, Rename, Delete, Enter, Progress, UpsertStore, Reread, RenameStore,
              DeleteStore, Forget, Resync, memory
<1>4. QED
  BY <1>1, <1>2, <1>3 DEF RunStep, Running

LEMMA StepStarted ==
  ASSUME Placed, Registered, Started, ScheduleNext, early \subseteq early'
  PROVE  Started'
<1>1. CASE StartList
  BY <1>1 DEF StartList, Started, Running, memory
<1>2. CASE StartLoad
  BY <1>2 DEF StartLoad, Started
<1>3. CASE Boot \/ Tick
  BY <1>3 DEF Boot, Tick, Started, Running, memory
<1>4. CASE Crash
  BY <1>4 DEF Crash, Started
<1>5. CASE Note /\ (FireStep \/ RunStep \/ \E c \in Caller : Request(c) \/ Progress(c))
  <2>1. phase # "down" /\ phase' = phase /\ listed' = listed
    BY <1>5, NotDown
  <2>2. ASSUME NEW i \in Id \ early', phase \in {"new", "listed"}
        PROVE  /\ entries'[i] = None /\ timers'[i] = None
               /\ (\A j \in strays' : j.id # i) /\ ~Running(i)'
               /\ phase = "listed" => listed'[i] = schedules'[i]
    <3>1. i \in Id \ early
      BY <2>2
    <3>2. /\ entries[i] = None /\ timers[i] = None
          /\ (\A j \in strays : j.id # i) /\ ~Running(i)
          /\ phase = "listed" => listed[i] = schedules[i]
      BY <2>2, <3>1 DEF Started
    <3>3. /\ entries'[i] = entries[i] /\ timers'[i] = timers[i]
          /\ phase = "listed" => schedules'[i] = schedules[i]
      BY <1>5, <2>1, <2>2, <3>1 DEF Note
    <3>4. (\A j \in strays' : j.id # i) /\ ~Running(i)'
      BY <1>5, <3>1, <3>2, NothingStarts
    <3>5. QED
      BY <2>1, <3>2, <3>3, <3>4
  <2>3. QED
    BY <2>1, <2>2 DEF Started
<1>6. QED
  BY <1>1, <1>2, <1>3, <1>4, <1>5 DEF ScheduleNext, Step, Startup

\* AUTOINCREMENT.
LEMMA IdsGrow ==
  ASSUME Placed, ScheduleNext
  PROVE  nextId' \in {nextId, nextId + 1}
<1>1. ASSUME NEW c \in Caller, UpsertStore(c)
      PROVE  nextId' \in {nextId, nextId + 1}
  BY <1>1 DEF UpsertStore
<1>2. ASSUME ~\E c \in Caller : UpsertStore(c)
      PROVE  nextId' = nextId
  BY <1>2 DEF ScheduleNext, Step, Startup, StartList, StartLoad, Boot, Tick, Request, Upsert, Rename,
              Delete, Enter, Progress, Reread, RenameStore, DeleteStore, Forget, Resync,
              FireStep, Fire, FireStray, Launch, RunStep, RunEnds, RunForgets, Crash
<1>3. QED
  BY <1>1, <1>2

\* A row that is gone does not come back under its id.
LEMMA GoneForGood ==
  ASSUME Placed, Used, ScheduleNext
  PROVE  /\ \A i \in Id : i < nextId /\ schedules[i] = None => schedules'[i] = None
         /\ \A i \in Id : schedules'[i] # None => i < nextId'
<1>a. schedules \in [Id -> Row \cup {None}] /\ nextId \in Nat /\ \A i \in Id : i \in Nat
  BY DEF Placed, ScheduleTypeOK, Id
<1>b. nextId' \in {nextId, nextId + 1}
  BY IdsGrow
<1>c. \A i \in Id : i < nextId => i < nextId'
  BY <1>a, <1>b
<1>d. \A i \in Id : schedules[i] # None => i < nextId
  BY DEF Used
<1>1. ASSUME \A i \in Id : schedules[i] = None => schedules'[i] = None
      PROVE  /\ \A i \in Id : i < nextId /\ schedules[i] = None => schedules'[i] = None
             /\ \A i \in Id : schedules'[i] # None => i < nextId'
  BY <1>1, <1>c, <1>d
<1>2. ASSUME NEW S \in SUBSET Id, DisableAll(S)
      PROVE  \A i \in Id : schedules[i] = None => schedules'[i] = None
  BY <1>a, <1>2, DisableAllRows
<1>3. ASSUME NEW i \in Id, schedules' = [schedules EXCEPT ![i] = None]
      PROVE  \A k \in Id : schedules[k] = None => schedules'[k] = None
  BY <1>a, <1>3
<1>4. ASSUME NEW i \in Id, NEW name, schedules[i] # None,
             schedules' = [schedules EXCEPT ![i].name = name]
      PROVE  \A k \in Id : schedules[k] = None => schedules'[k] = None
  BY <1>a, <1>4
<1>5. ASSUME NEW c \in Caller, UpsertStore(c)
      PROVE  /\ \A i \in Id : i < nextId /\ schedules[i] = None => schedules'[i] = None
             /\ \A i \in Id : schedules'[i] # None => i < nextId'
  <2>1. PICK i \in Nat : \E row \in Row :
           /\ row = call[c].row /\ schedules' = [schedules EXCEPT ![i] = row]
           /\ \/ Exists(row.name) /\ i = IdOf(row.name) /\ i \in Id
              \/ ~Exists(row.name) /\ i = nextId
           /\ nextId' = IF i = nextId THEN nextId + 1 ELSE nextId
    BY <1>5, StoredAt
  <2>2. schedules[i] # None \/ i = nextId
    BY <2>1, RowOfName
  <2>3. \A k \in Id : k # i => schedules'[k] = schedules[k]
    BY <1>a, <2>1
  <2>4. i < nextId' \/ i \notin Id
    <3>1. CASE i = nextId
      BY <1>a, <2>1, <3>1
    <3>2. CASE schedules[i] # None
      BY <1>c, <1>d, <3>2
    <3>3. QED
      BY <2>2, <3>1, <3>2
  <2>5. \A k \in Id : k < nextId /\ schedules[k] = None => k # i
    BY <1>a, <2>2
  <2>6. QED
    BY <1>c, <1>d, <2>3, <2>4, <2>5
<1>6. CASE schedules' = schedules
  BY <1>1, <1>6
<1>7. QED
  BY <1>1, <1>2, <1>3, <1>4, <1>5, <1>6, RowsChange

\* Where a call is after its step.
LEMMA ReturnIsIdle ==
  ASSUME Placed, NEW c \in Caller, Return(c)
  PROVE  /\ call'[c] = Idle /\ call'[c].id = 0 /\ ~At(c, "forget")'
         /\ \A e \in Caller : e # c => call'[e] = call[e]
  BY CallReturns DEF Idle, At

LEMMA GoneTo ==
  ASSUME Placed, NEW c \in Caller, NEW step, NEW i, NEW row, Go(c, step, i, row)
  PROVE  /\ call'[c].id = i /\ call'[c].step = step /\ call'[c].row = row
         /\ \A e \in Caller : e # c => call'[e] = call[e]
  BY DEF Placed, ScheduleTypeOK, Go

LEMMA StepUsed ==
  ASSUME Placed, Registered, Started, Used, ScheduleNext, early \subseteq early'
  PROVE  Used'
<1>a. /\ schedules \in [Id -> Row \cup {None}] /\ \A i \in Id : i \in Nat
      /\ listed \in [Id -> Row \cup {None}] /\ entries \in [Id -> Job \cup {None}]
      /\ timers \in [Id -> Timer \cup {None}] /\ now \in 0..Horizon
      /\ \A r \in runs : r.job.id \in Id /\ \A j \in strays : j.id \in Id
      /\ runs \subseteq [job : Job, step : {"run", "unmap"}]
  BY DEF Placed, ScheduleTypeOK, Id, Job
<1>b. nextId' \in Nat /\ 0 < nextId' /\ nextId <= nextId'
  BY IdsGrow DEF Used
<1>c. /\ \A i \in Id : i < nextId /\ schedules[i] = None => schedules'[i] = None
      /\ \A i \in Id : schedules'[i] # None => i < nextId'
  BY GoneForGood
<1>d. \A n \in Nat : n < nextId => n < nextId'
  BY <1>b DEF Used
<1>e. \A j \in strays : j.id \in Id /\ j.id \in Nat
  BY DEF Placed, ScheduleTypeOK, Job, Id
<1>f. \A c \in Caller : call[c].id \in Nat /\ (At(c, "forget") => call[c].id \in Id)
  <2>1. \A c \in Caller : call[c] = Idle \/ call[c].id \in Id \cup {0}
    BY DEF Placed, ScheduleTypeOK
  <2>2. QED
    BY <1>a, <2>1 DEF Idle, Placed, CallsHold, At
<1>1. ASSUME \A i \in Id : listed'[i] # None \/ entries'[i] # None \/ timers'[i] # None =>
               \/ schedules[i] # None \/ listed[i] # None \/ entries[i] # None
               \/ timers[i] # None \/ i < nextId',
             \A j \in strays' :
               j \in strays \/ (j.id < nextId' /\ (j.id \in early' \/ schedules'[j.id] = None)),
             \A r \in runs' :
               \/ r \in runs
               \/ r.job.id < nextId' /\ (r.step = "unmap" => schedules'[r.job.id] = None),
             \A c \in Caller : /\ call'[c].id < nextId'
                               /\ At(c, "forget")' => schedules'[call'[c].id] = None
      PROVE  Used'
  <2>1. /\ \A i \in Id : schedules[i] # None \/ listed[i] # None => i < nextId'
        /\ \A i \in Id : entries[i] # None \/ timers[i] # None => i < nextId'
    BY <1>a, <1>d DEF Used
  <2>2. /\ \A i \in Id : schedules'[i] # None \/ listed'[i] # None => i < nextId'
        /\ \A i \in Id : entries'[i] # None \/ timers'[i] # None => i < nextId'
    BY <1>1, <1>c, <2>1
  <2>3. \A j \in strays' : j.id < nextId' /\ (j.id \in early' \/ schedules'[j.id] = None)
    BY <1>1, <1>c, <1>d, <1>e DEF Used
  <2>4. \A r \in runs' : r.job.id < nextId' /\ (r.step = "unmap" => schedules'[r.job.id] = None)
    BY <1>1, <1>a, <1>c, <1>d DEF Used
  <2>5. QED
    BY <1>1, <1>b, <2>2, <2>3, <2>4 DEF Used
<1>2. \A c \in Caller : call'[c] = call[c] =>
        /\ call'[c].id < nextId'
        /\ At(c, "forget")' => schedules'[call'[c].id] = None
  <2>1. SUFFICES ASSUME NEW c \in Caller, call'[c] = call[c]
                 PROVE  /\ call'[c].id < nextId'
                        /\ At(c, "forget")' => schedules'[call'[c].id] = None
    OBVIOUS
  <2>2. /\ call[c].id < nextId
        /\ At(c, "forget") => schedules[call[c].id] = None
    BY DEF Used
  <2>3. call[c].id < nextId'
    BY <1>d, <1>f, <2>2
  <2>4. At(c, "forget")' => At(c, "forget")
    BY <2>1 DEF At
  <2>5. At(c, "forget") => schedules'[call[c].id] = None
    BY <1>c, <1>f, <2>2
  <2>6. QED
    BY <2>1, <2>3, <2>4, <2>5
<1>3. ASSUME NEW c \in Caller, call'[c].id < nextId',
             At(c, "forget")' => schedules'[call'[c].id] = None,
             \A e \in Caller : e # c => call'[e] = call[e]
      PROVE  \A e \in Caller : /\ call'[e].id < nextId'
                               /\ At(e, "forget")' => schedules'[call'[e].id] = None
  <2>1. SUFFICES ASSUME NEW e \in Caller
                 PROVE  /\ call'[e].id < nextId'
                        /\ At(e, "forget")' => schedules'[call'[e].id] = None
    OBVIOUS
  <2>2. CASE e = c
    BY <1>3, <2>2 DEF At
  <2>3. CASE e # c
    BY <1>2, <1>3, <2>3
  <2>4. QED
    BY <2>2, <2>3
<1>4. ASSUME NEW c \in Caller, NEW step, step # "forget", NEW i, NEW row,
             i < nextId', Go(c, step, i, row)
      PROVE  \A e \in Caller : /\ call'[e].id < nextId'
                               /\ At(e, "forget")' => schedules'[call'[e].id] = None
  BY <1>3, <1>4, GoneTo DEF At
<1>5. ASSUME NEW c \in Caller, Return(c)
      PROVE  \A e \in Caller : /\ call'[e].id < nextId'
                               /\ At(e, "forget")' => schedules'[call'[e].id] = None
  <2>1. call'[c].id < nextId'
    BY <1>b, <1>5, ReturnIsIdle
  <2>2. QED
    BY <1>3, <1>5, <2>1, ReturnIsIdle
<1>6. \A name : Exists(name) => IdOf(name) \in Id /\ IdOf(name) < nextId'
  <2>1. SUFFICES ASSUME NEW name, Exists(name)
                 PROVE  IdOf(name) \in Id /\ IdOf(name) < nextId'
    OBVIOUS
  <2>2. IdOf(name) \in Id /\ schedules[IdOf(name)] # None
    BY <2>1, RowOfName
  <2>3. IdOf(name) < nextId /\ IdOf(name) \in Nat
    BY <1>a, <2>2 DEF Used
  <2>4. QED
    BY <1>d, <2>2, <2>3
<1>7. CASE StartList \/ Boot \/ Tick
  <2>1. UNCHANGED <<entries, timers, strays, runs, call>> /\ listed' \in {listed, schedules}
    BY <1>7 DEF StartList, Boot, Tick, memory
  <2>2. \A c \in Caller : /\ call'[c].id < nextId'
                          /\ At(c, "forget")' => schedules'[call'[c].id] = None
    BY <1>2, <2>1
  <2>3. QED
    BY <1>1, <2>1, <2>2
<1>8. CASE Crash
  <2>1. /\ \A i \in Id : listed'[i] = None /\ entries'[i] = None /\ timers'[i] = None
        /\ \A c \in Caller : call'[c] = Idle
    BY <1>8 DEF Crash
  <2>2. \A c \in Caller : call'[c].id = 0 /\ ~At(c, "forget")'
    BY <2>1 DEF Idle, At
  <2>3. strays' = {} /\ runs' = {}
    BY <1>8 DEF Crash
  <2>4. QED
    BY <1>1, <1>b, <2>1, <2>2, <2>3
<1>9. CASE StartLoad
  <2>1. phase = "listed" /\ UNCHANGED <<runs, call>>
    BY <1>9 DEF StartLoad
  <2>2. \A i \in Id : /\ listed'[i] = None
                      /\ entries'[i] # None => entries[i] # None \/ listed[i] # None
                      /\ timers'[i] # None => timers[i] # None \/ listed[i] # None
    BY <1>9 DEF StartLoad, WantsEntry, WantsTimer
  <2>3. \A i \in Id : entries[i] # None \/ timers[i] # None => i \in early' /\ i < nextId'
    BY <1>a, <1>d, <2>1 DEF Started, Used
  <2>4. \A j \in strays' :
          j \in strays \/ (j.id < nextId' /\ (j.id \in early' \/ schedules'[j.id] = None))
    <3>1. SUFFICES ASSUME NEW j \in strays', j \notin strays
                   PROVE  j.id < nextId' /\ j.id \in early'
      OBVIOUS
    <3>2. \/ \E i \in Id : entries[i] # None /\ j = entries[i]
          \/ \E i \in Id : timers[i] # None /\ j = timers[i].job
      BY <1>9, <3>1 DEF StartLoad
    <3>3. PICK i \in Id : j.id = i /\ (entries[i] # None \/ timers[i] # None)
      BY <3>2 DEF Registered
    <3>4. QED
      BY <2>3, <3>3
  <2>5. \A c \in Caller : /\ call'[c].id < nextId'
                          /\ At(c, "forget")' => schedules'[call'[c].id] = None
    BY <1>2, <2>1
  <2>6. QED
    BY <1>1, <2>1, <2>2, <2>4, <2>5
<1>10. ASSUME NEW c \in Caller, Request(c) PROVE Used'
  <2>1. UNCHANGED <<listed, entries, timers, strays, runs>>
    <3>1. Enter(c)
      BY <1>10 DEF Request, Upsert, Rename, Delete
    <3>2. QED
      BY <3>1 DEF Enter, memory
  <2>2. \E step, i, row : step # "forget" /\ i < nextId' /\ Go(c, step, i, row)
    <3>1. ASSUME NEW a \in Arg, Upsert(c, a)
          PROVE  \E step, i, row : step # "forget" /\ i < nextId' /\ Go(c, step, i, row)
      <4>1. Go(c, "store", 0, Merged(a))
        BY <3>1 DEF Upsert
      <4>2. QED
        BY <1>b, <4>1
    <3>2. ASSUME NEW old \in Name, NEW new \in Name, Rename(c, old, new)
          PROVE  \E step, i, row : step # "forget" /\ i < nextId' /\ Go(c, step, i, row)
      <4>1. Exists(old) /\ Go(c, "rename", IdOf(old), [schedules[IdOf(old)] EXCEPT !.name = new])
        BY <3>2 DEF Rename
      <4>2. QED
        BY <1>6, <4>1
    <3>3. ASSUME NEW name \in Name, Delete(c, name)
          PROVE  \E step, i, row : step # "forget" /\ i < nextId' /\ Go(c, step, i, row)
      <4>1. Exists(name) /\ Go(c, "delete", IdOf(name), schedules[IdOf(name)])
        BY <3>3 DEF Delete
      <4>2. QED
        BY <1>6, <4>1
    <3>4. QED
      BY <1>10, <3>1, <3>2, <3>3 DEF Request
  <2>3. PICK step, i, row : step # "forget" /\ i < nextId' /\ Go(c, step, i, row)
    BY <2>2
  <2>4. \A e \in Caller : /\ call'[e].id < nextId'
                          /\ At(e, "forget")' => schedules'[call'[e].id] = None
    BY <1>4, <2>3
  <2>5. QED
    BY <1>1, <2>1, <2>4
<1>11. ASSUME NEW c \in Caller, UpsertStore(c) \/ Reread(c) \/ RenameStore(c) \/ DeleteStore(c)
       PROVE  Used'
  <2>1. UNCHANGED <<listed, entries, timers, strays, runs>>
    BY <1>11 DEF UpsertStore, Reread, RenameStore, DeleteStore, memory
  <2> DEFINE CallsOk == \A e \in Caller : /\ call'[e].id < nextId'
                                          /\ At(e, "forget")' => schedules'[call'[e].id] = None
  <2>2. ASSUME Return(c) PROVE CallsOk
    BY <1>5, <2>2
  <2>3. ASSUME UpsertStore(c) PROVE CallsOk
    <3>1. Go(c, "reread", 0, call[c].row)
      BY <2>3 DEF UpsertStore
    <3>2. QED
      BY <1>4, <1>b, <3>1
  <2>4. ASSUME Reread(c), ~Return(c) PROVE CallsOk
    <3>1. PICK name : Exists(name) /\ Go(c, "resync", IdOf(name), schedules[IdOf(name)])
      BY <2>4 DEF Reread
    <3>2. QED
      BY <1>4, <1>6, <3>1
  <2>5. ASSUME RenameStore(c), ~Return(c) PROVE CallsOk
    <3>1. Go(c, "reread", call[c].id, call[c].row)
      BY <2>5 DEF RenameStore
    <3>2. call[c].id < nextId'
      BY <1>d, <1>f DEF Used
    <3>3. QED
      BY <1>4, <3>1, <3>2
  <2>6. ASSUME DeleteStore(c), ~Return(c) PROVE CallsOk
    <3>1. /\ Go(c, "forget", call[c].id, None) /\ call[c].id \in Id
          /\ schedules' = [schedules EXCEPT ![call[c].id] = None]
      BY <2>6 DEF DeleteStore, Placed, CallsHold, At
    <3>2. call[c].id < nextId' /\ schedules'[call[c].id] = None
      BY <1>a, <1>d, <1>f, <3>1 DEF Used
    <3>3. /\ call'[c].id = call[c].id
          /\ \A e \in Caller : e # c => call'[e] = call[e]
      BY <3>1, GoneTo
    <3>4. QED
      BY <1>3, <3>2, <3>3
  <2>7. CallsOk
    BY <1>11, <2>2, <2>3, <2>4, <2>5, <2>6
  <2>8. QED
    BY <1>1, <2>1, <2>7
<1>12. ASSUME NEW c \in Caller, Forget(c) \/ Resync(c) PROVE Used'
  <2>1. call[c].id \in Id /\ Return(c) /\ UNCHANGED <<listed, strays, runs>>
    BY <1>12 DEF Forget, Resync, Placed, CallsHold, At
  <2>2. call[c].id < nextId'
    BY <1>d, <1>f DEF Used
  <2>3. \A i \in Id : entries'[i] # None \/ timers'[i] # None =>
                      i = call[c].id \/ entries[i] # None \/ timers[i] # None
    BY <1>a, <1>12, <2>1 DEF Forget, Resync
  <2>4. \A e \in Caller : /\ call'[e].id < nextId'
                          /\ At(e, "forget")' => schedules'[call'[e].id] = None
    BY <1>5, <2>1
  <2>5. QED
    BY <1>1, <2>1, <2>2, <2>3, <2>4
<1>13. CASE FireStep
  <2>1. PICK job \in Job : /\ job.kind = "once" /\ job.at \in Time /\ Launch(job)
                           /\ \/ /\ timers[job.id] # None /\ timers[job.id].pending
                                 /\ timers[job.id].job = job
                                 /\ timers' = [timers EXCEPT ![job.id].pending = FALSE]
                                 /\ strays' = strays
                              \/ job \in strays /\ strays' = strays \ {job} /\ timers' = timers
    BY <1>13, FiredJob
  <2>2. /\ runs' = runs \cup {[job |-> job, step |-> "run"]} /\ job.id \in Id
        /\ UNCHANGED <<schedules, nextId, call, listed, entries>>
    BY <2>1 DEF Launch, Job
  <2>3. job.id < nextId'
    BY <1>a, <1>d, <2>1, <2>2 DEF Used
  <2>4. \A r \in runs' :
          \/ r \in runs
          \/ r.job.id < nextId' /\ (r.step = "unmap" => schedules'[r.job.id] = None)
    BY <2>2, <2>3
  <2>5. \A i \in Id : timers'[i] # None => timers[i] # None
    BY <1>a, <2>1, <2>2
  <2>6. \A c \in Caller : /\ call'[c].id < nextId'
                          /\ At(c, "forget")' => schedules'[call'[c].id] = None
    BY <1>2, <2>2
  <2>7. QED
    BY <1>1, <2>1, <2>2, <2>4, <2>5, <2>6
<1>14. ASSUME NEW r \in runs, RunEnds(r) PROVE Used'
  <2>1. /\ schedules' = [schedules EXCEPT ![r.job.id] = None]
        /\ runs' = (runs \ {r}) \cup {[r EXCEPT !.step = "unmap"]}
        /\ UNCHANGED <<listed, entries, timers, strays, call, nextId>>
    BY <1>14 DEF RunEnds, memory
  <2>2. [r EXCEPT !.step = "unmap"].job = r.job
    BY <1>a
  <2>3. r.job.id < nextId' /\ schedules'[r.job.id] = None
    BY <1>a, <1>d, <2>1 DEF Used
  <2>4. \A x \in runs' :
          \/ x \in runs
          \/ x.job.id < nextId' /\ (x.step = "unmap" => schedules'[x.job.id] = None)
    BY <2>1, <2>2, <2>3
  <2>5. \A c \in Caller : /\ call'[c].id < nextId'
                          /\ At(c, "forget")' => schedules'[call'[c].id] = None
    BY <1>2, <2>1
  <2>6. QED
    BY <1>1, <2>1, <2>4, <2>5
<1>15. ASSUME NEW r \in runs, RunForgets(r) PROVE Used'
  <2> DEFINE t == timers[r.job.id]
  <2>1. /\ timers' = [timers EXCEPT ![r.job.id] = None]
        /\ strays' = strays \cup (IF t # None /\ t.pending THEN {t.job} ELSE {})
        /\ runs' = runs \ {r} /\ r.step = "unmap"
        /\ UNCHANGED <<schedules, call, nextId, listed, entries>>
    BY <1>15 DEF RunForgets
  <2>2. r.job.id < nextId' /\ schedules'[r.job.id] = None
    BY <1>a, <1>d, <2>1 DEF Used
  <2>3. t # None => t.job.id = r.job.id
    BY <1>a DEF Registered
  <2> HIDE DEF t
  <2>4. \A j \in strays' :
          j \in strays \/ (j.id < nextId' /\ (j.id \in early' \/ schedules'[j.id] = None))
    BY <2>1, <2>2, <2>3
  <2>5. \A i \in Id : timers'[i] # None => timers[i] # None
    BY <1>a, <2>1
  <2>6. \A c \in Caller : /\ call'[c].id < nextId'
                          /\ At(c, "forget")' => schedules'[call'[c].id] = None
    BY <1>2, <2>1
  <2>7. QED
    BY <1>1, <2>1, <2>4, <2>5, <2>6
<1>16. QED
  BY <1>7, <1>8, <1>9, <1>10, <1>11, <1>12, <1>13, <1>14, <1>15
     DEF ScheduleNext, Step, Startup, Progress, RunStep

\* A run time still to come has not been run for.
LEMMA NotYetRun ==
  ASSUME Placed, Ran, NEW i \in Id, NEW row \in Row \cup {None}, WantsTimer(row)
  PROVE  ran[i][row.at] = 0
<1>a. now \in 0..Horizon
  BY DEF Placed, ScheduleTypeOK
<1>1. row.at \in Time /\ row.at > now
  BY <1>a, WantsFields
<1>2. ran[i][row.at] \in Nat
  BY <1>1 DEF Placed, ScheduleTypeOK
<1>3. ~(ran[i][row.at] > 0)
  <2>1. row.at \in Nat /\ now \in Nat
    BY ONLY <1>a, <1>1, BoundsAreNumbers DEF Time
  <2>2. ~(row.at <= now)
    BY <1>1, <2>1
  <2>3. QED
    BY <1>1, <2>2 DEF Ran
<1>4. QED
  BY <1>2, <1>3

\* A timer fires for a time its id has not run for; a stray fires when its row is
\* gone, which counts as an edit of the running job, or is of an id with which a
\* call overtook Start.
LEMMA StepArmed ==
  ASSUME Placed, Registered, Ran, Started, Used, Armed, ScheduleNext
  PROVE  Armed'
<1>a. /\ listed \in [Id -> Row \cup {None}] /\ timers \in [Id -> Timer \cup {None}]
      /\ runs \subseteq [job : Job, step : {"run", "unmap"}]
      /\ ran \in [Id -> [Time -> Nat]] /\ edited \subseteq edited' /\ early \subseteq early'
  BY StepPlaced DEF Placed, ScheduleTypeOK
<1>1. ASSUME ran' = ran,
             \A i \in Id : timers'[i] # None /\ timers'[i].pending =>
               timers'[i] = timers[i] \/ ran[i][timers'[i].job.at] = 0
      PROVE  Armed'
  BY <1>a, <1>1 DEF Armed
<1>2. CASE StartLoad
  <2>1. \A i \in Id : timers'[i] = IF WantsTimer(listed[i])
                                   THEN [job |-> JobOf(i, listed[i]), pending |-> TRUE]
                                   ELSE timers[i]
    BY <1>2 DEF StartLoad
  <2>2. \A i \in Id : WantsTimer(listed[i]) =>
          JobOf(i, listed[i]).at = listed[i].at /\ ran[i][listed[i].at] = 0
    BY <1>a, NotYetRun DEF JobOf
  <2>3. ran' = ran
    BY <1>2 DEF StartLoad
  <2>4. \A i \in Id : WantsTimer(listed[i]) => timers'[i].job = JobOf(i, listed[i])
    <3>1. SUFFICES ASSUME NEW i \in Id, WantsTimer(listed[i])
                   PROVE  timers'[i].job = JobOf(i, listed[i])
      OBVIOUS
    <3>2. timers'[i] = [job |-> JobOf(i, listed[i]), pending |-> TRUE]
      BY <2>1, <3>1
    <3>3. QED
      BY ONLY <3>2
  <2>5. \A i \in Id : ~WantsTimer(listed[i]) => timers'[i] = timers[i]
    BY <2>1
  <2>6. QED
    BY <1>1, <2>2, <2>3, <2>4, <2>5
<1>3. ASSUME NEW c \in Caller, Resync(c) PROVE Armed'
  <2> DEFINE i == call[c].id
             row == call[c].row
  <2>1. i \in Id /\ row \in Row
    BY <1>3 DEF Placed, CallsHold, Resync, At
  <2>2. /\ timers' = [timers EXCEPT ![i] =
             IF WantsTimer(row) THEN [job |-> JobOf(i, row), pending |-> TRUE] ELSE None]
        /\ ran' = ran
    BY <1>3 DEF Resync
  <2> HIDE DEF i, row
  <2>3. WantsTimer(row) => JobOf(i, row).at = row.at /\ ran[i][row.at] = 0
    BY <2>1, NotYetRun DEF JobOf
  <2>4. \A k \in Id : k # i => timers'[k] = timers[k]
    BY <1>a, <2>2
  <2>5. timers'[i] # None => WantsTimer(row) /\ timers'[i].job = JobOf(i, row)
    BY <1>a, <2>1, <2>2
  <2>6. QED
    BY <1>1, <2>2, <2>3, <2>4, <2>5
<1>4. CASE FireStep
  <2>1. PICK job \in Job : /\ job.at \in Time /\ Launch(job)
                           /\ \/ /\ timers[job.id] # None /\ timers[job.id].pending
                                 /\ timers[job.id].job = job
                                 /\ timers' = [timers EXCEPT ![job.id].pending = FALSE]
                              \/ job \in strays /\ timers' = timers
    BY <1>4, FiredJob
  <2>2. job.id \in Id
    BY DEF Job
  <2>3. /\ ran'[job.id][job.at] = ran[job.id][job.at] + 1
        /\ \A i \in Id, t \in Time : i # job.id \/ t # job.at => ran'[i][t] = ran[i][t]
    BY <2>1, LaunchTypes
  <2>4. \A i \in Id : timers[i] # None => timers[i].job.at \in Time
    BY DEF Registered
  <2>5. \A i \in Id \ (edited' \cup early') : i # job.id =>
          /\ timers'[i] # None /\ timers'[i].pending => ran'[i][timers'[i].job.at] = 0
          /\ \A t \in Time : ran'[i][t] <= 1
    <3>1. \A i \in Id : i # job.id => timers'[i] = timers[i]
      BY <1>a, <2>1
    <3>2. QED
      BY <1>a, <2>3, <2>4, <3>1 DEF Armed
  <2>6. CASE job \in strays
    <3>1. (job.id \in early' \/ schedules[job.id] = None) /\ schedules' = schedules
      BY <1>a, <2>1, <2>6 DEF Used, Launch
    <3>2. [job |-> job, step |-> "run"] \in runs'
      BY <2>1 DEF Launch
    <3>3. Note
      BY <1>4, NotDown DEF ScheduleNext, Crash
    <3>4. job.id \in edited' \cup early'
      BY <3>1, <3>2, <3>3 DEF Note
    <3>5. QED
      BY <2>5, <3>4 DEF Armed
  <2>7. CASE /\ timers[job.id] # None /\ timers[job.id].pending
             /\ timers[job.id].job = job
             /\ timers' = [timers EXCEPT ![job.id].pending = FALSE]
    <3>1. timers[job.id] \in Timer
      BY <1>a, <2>2, <2>7
    <3>2. timers'[job.id].pending = FALSE
      BY <1>a, <2>2, <2>7, <3>1 DEF Timer
    <3>3. job.id \notin edited' \cup early' =>
            ran[job.id][job.at] = 0 /\ \A t \in Time : ran[job.id][t] <= 1
      BY <1>a, <2>2, <2>7 DEF Armed
    <3>4. job.id \notin edited' \cup early' => \A t \in Time : ran'[job.id][t] <= 1
      BY <2>1, <2>2, <2>3, <3>3
    <3>5. QED
      BY <2>5, <3>2, <3>4 DEF Armed
  <2>8. QED
    BY <2>1, <2>6, <2>7
<1>5. ASSUME UNCHANGED <<timers, ran>> PROVE Armed'
  BY <1>1, <1>5
<1>6. ASSUME NEW c \in Caller, Forget(c) PROVE Armed'
  BY <1>a, <1>1, <1>6 DEF Forget
<1>7. ASSUME NEW r \in runs, RunForgets(r) PROVE Armed'
  BY <1>a, <1>1, <1>7 DEF RunForgets
<1>8. CASE Crash
  BY <1>1, <1>8 DEF Crash
<1>9. CASE StartList \/ Boot \/ Tick
  BY <1>5, <1>9 DEF StartList, Boot, Tick, memory
<1>10. ASSUME NEW c \in Caller,
              \/ Request(c) \/ Reread(c) \/ UpsertStore(c) \/ RenameStore(c) \/ DeleteStore(c)
       PROVE  Armed'
  BY <1>5, <1>10 DEF Request, Upsert, Rename, Delete, Enter, Reread, UpsertStore, RenameStore,
                     DeleteStore, memory
<1>11. ASSUME NEW r \in runs, RunEnds(r) PROVE Armed'
  BY <1>5, <1>11 DEF RunEnds, memory
<1>12. QED
  BY <1>2, <1>3, <1>4, <1>6, <1>7, <1>8, <1>9, <1>10, <1>11
     DEF ScheduleNext, Step, Startup, Progress, RunStep

\* The invariant of the times a one-time job is started.
OnceKept == JobsKept /\ Started /\ Used /\ Armed

LEMMA InitOnce == ScheduleInit => OnceKept
<1> SUFFICES ASSUME ScheduleInit PROVE OnceKept
  OBVIOUS
<1>1. JobsKept
  BY InitJobs
<1>2. /\ nextId = 2 /\ phase = "new"
      /\ entries = [i \in Id |-> None] /\ timers = [i \in Id |-> None]
      /\ strays = {} /\ runs = {} /\ call = [c \in Caller |-> Idle]
      /\ ran = [i \in Id |-> [t \in Time |-> 0]] /\ listed = [i \in Id |-> None]
      /\ \A i \in Id : i # 1 => schedules[i] = None
  BY DEF ScheduleInit
<1>3. Started
  BY <1>2 DEF Started, Running
<1>4. Used
  BY <1>2 DEF Used, Idle, At
<1>5. Armed
  BY <1>2 DEF Armed
<1>6. QED
  BY <1>1, <1>3, <1>4, <1>5 DEF OnceKept

LEMMA StepOnce ==
  ASSUME OnceKept, [ScheduleNext]_scheduler
  PROVE  OnceKept'
<1>1. JobsKept'
  BY StepJobs DEF OnceKept
<1>2. CASE ScheduleNext
  BY <1>1, <1>2, StepPlaced, StepStarted, StepUsed, StepArmed DEF OnceKept, JobsKept
<1>3. CASE UNCHANGED scheduler
  BY <1>1, <1>3 DEF scheduler, memory, OnceKept, Started, Running, Used, Armed, At
<1>4. QED
  BY <1>2, <1>3

\* The invariant behind OnceRunsOnce, wherever Start stands when a call comes.
THEOREM OnceInvariance == ScheduleSafeSpec => []OnceKept
<1>1. OnceKept /\ [ScheduleNext]_scheduler => OnceKept'
  BY StepOnce
<1>2. QED
  BY <1>1, InitOnce, PTL DEF ScheduleSafeSpec

\* fireOnce starts a one-time job at most once for the time it is set to, for any
\* number of overlapping calls, before and after Start has loaded the table, ticks
\* and crashes, unless the row was edited while its job ran or a call overtook
\* Start with it.
THEOREM RunsOnce == ScheduleSafeSpec => []OnceRunsOnce
<1>1. OnceKept => OnceRunsOnce
  BY DEF OnceKept, Armed, OnceRunsOnce
<1>2. QED
  BY <1>1, OnceInvariance, PTL
-----------------------------------------------------------------------------
(* Memory and table agree once no call is in flight. *)

\* What is registered for an id, given the strays, its entry and its timer.
LiveAmong(S, e, t, i) ==
  {j \in S : j.id = i}
  \cup {j \in {e} : j # None}
  \cup {x.job : x \in {x \in {t} : x # None /\ x.pending}}

\* What of that is left when the rest is nothing.
LEMMA NothingLive ==
  ASSUME NEW S, NEW i, NEW t, \A j \in S : j.id # i, t # None => ~t.pending
  PROVE  LiveAmong(S, None, t, i) = {}
  BY DEF LiveAmong

LEMMA EntryLive ==
  ASSUME NEW S, NEW i, NEW e, \A j \in S : j.id # i, e # None
  PROVE  LiveAmong(S, e, None, i) = {e}
  BY DEF LiveAmong

LEMMA TimerLive ==
  ASSUME NEW S, NEW i, NEW t, \A j \in S : j.id # i, t # None, t.pending
  PROVE  LiveAmong(S, None, t, i) = {t.job}
  BY DEF LiveAmong

Due(row) == row # None /\ row.enabled /\ row.kind = "once"
Matches(i) ==
  /\ WantsEntry(schedules[i]) \/ (Due(schedules[i]) /\ ~Running(i)) =>
       LiveAmong(strays, entries[i], timers[i], i) = {JobOf(i, schedules[i])}
  /\ ~WantsEntry(schedules[i]) /\ ~(Due(schedules[i]) /\ ~Running(i)) =>
       LiveAmong(strays, entries[i], timers[i], i) = {}

\* A call that has written the row of an id, or read it, and has yet to register it.
Dirty(i) ==
  \E c \in Caller :
    \/ At(c, "reread") /\ schedules[i] # None /\ schedules[i].name = call[c].row.name
    \/ At(c, "resync") /\ call[c].id = i
    \/ At(c, "forget") /\ call[c].id = i

\* An id has an entry or a timer, never both, unless Start has loaded one beside
\* the other that a call had registered.
Exclusive == \A i \in Id \ early : entries[i] = None \/ timers[i] = None

Single == \A c, d \in Caller : c # d => call[c] = Idle \/ call[d] = Idle

\* What holds of an id nobody edited while its job ran or overtook Start with, as
\* long as calls have not overlapped: no stray is of it, while its job runs
\* nothing is armed for it, a call registers the row as it is, or as it was
\* before its job was run or Start disabled it, its time having passed, and once
\* Start has loaded the table the id is as its row wants it or a call is about to
\* make it so.
Kept(i) ==
  /\ \A j \in strays : j.id # i
  /\ Running(i) => entries[i] = None /\ (timers[i] # None => ~timers[i].pending)
  /\ \A c \in Caller : At(c, "resync") /\ call[c].id = i =>
       \/ schedules[i] = call[c].row
       \/ /\ schedules[i] = None \/ ~schedules[i].enabled
          /\ call[c].row.kind = "once" /\ call[c].row.at <= now
  /\ phase = "running" => Dirty(i) \/ Matches(i)

\* A step that leaves an id's row and registrations alone keeps it, as long as
\* no call loses track of it.
LEMMA KeptUntouched ==
  ASSUME Placed, NEW i \in Id, Kept(i),
         schedules'[i] = schedules[i], entries'[i] = entries[i], timers'[i] = timers[i],
         \A j \in strays' : j.id = i => j \in strays,
         Running(i)' <=> Running(i),
         now' = now \/ now' = now + 1,
         \A c \in Caller : At(c, "resync")' /\ call'[c].id = i => call'[c] = call[c],
         phase' = "running" => phase = "running" /\ (Dirty(i) => Dirty(i)')
  PROVE  Kept(i)'
<1>1. \A j \in strays' : j.id # i
  BY DEF Kept
<1>2. Running(i)' => entries'[i] = None /\ (timers'[i] # None => ~timers'[i].pending)
  BY DEF Kept
<1>3. \A c \in Caller : At(c, "resync")' /\ call'[c].id = i =>
        \/ schedules'[i] = call'[c].row
        \/ /\ schedules'[i] = None \/ ~schedules'[i].enabled
           /\ call'[c].row.kind = "once" /\ call'[c].row.at <= now'
  <2>1. SUFFICES ASSUME NEW c \in Caller, At(c, "resync")', call'[c].id = i
                 PROVE  \/ schedules'[i] = call'[c].row
                        \/ /\ schedules'[i] = None \/ ~schedules'[i].enabled
                           /\ call'[c].row.kind = "once" /\ call'[c].row.at <= now'
    OBVIOUS
  <2>2. call'[c] = call[c] /\ At(c, "resync") /\ call[c].id = i
    BY <2>1 DEF At
  <2>3. call[c].row \in Row
    BY <2>2 DEF Placed, CallsHold, At
  <2>4. call[c].row.at \in 0..Horizon /\ now \in 0..Horizon
    BY <2>3, RowFields DEF Placed, ScheduleTypeOK
  <2>5. call[c].row.at <= now => call[c].row.at <= now'
    BY <2>4, BoundsAreNumbers
  <2>6. QED
    BY <2>2, <2>5 DEF Kept
<1>4. phase' = "running" => Dirty(i)' \/ Matches(i)'
  <2>1. SUFFICES ASSUME phase' = "running", ~Dirty(i) PROVE Matches(i)'
    OBVIOUS
  <2>2. Matches(i)
    BY <2>1 DEF Kept
  <2>3. LiveAmong(strays', entries'[i], timers'[i], i) = LiveAmong(strays, entries[i], timers[i], i)
    BY <1>1 DEF Kept, LiveAmong
  <2>4. QED
    BY <2>2, <2>3 DEF Matches
<1>5. QED
  BY <1>1, <1>2, <1>3, <1>4 DEF Kept

\* An id with nothing registered and no row to register agrees.
LEMMA NothingMatches ==
  ASSUME NEW i \in Id, \A j \in strays : j.id # i, entries[i] = None,
         timers[i] # None => ~timers[i].pending,
         ~WantsEntry(schedules[i]), ~Due(schedules[i]) \/ Running(i)
  PROVE  Matches(i)
  BY NothingLive DEF Matches

LEMMA NothingMatchesNext ==
  ASSUME NEW i \in Id, \A j \in strays' : j.id # i, entries'[i] = None,
         timers'[i] # None => ~timers'[i].pending,
         ~WantsEntry(schedules'[i]), ~Due(schedules'[i]) \/ Running(i)'
  PROVE  Matches(i)'
<1>1. LiveAmong(strays', entries'[i], timers'[i], i) = {}
  BY NothingLive
<1>2. QED
  BY <1>1 DEF Matches

\* The call that takes a step is the only one in flight.
LEMMA OneCaller ==
  ASSUME Placed, Single, NEW c \in Caller, Progress(c)
  PROVE  /\ call[c].step # "idle"
         /\ \A e \in Caller : e # c => call[e] = Idle /\ call'[e] = Idle
<1>1. call[c].step # "idle"
  BY DEF Progress, UpsertStore, Reread, RenameStore, DeleteStore, Forget, Resync, At
<1>2. call[c] # Idle
  BY <1>1 DEF Idle
<1>3. Return(c) \/ \E step, i, row : Go(c, step, i, row)
  BY DEF Progress, UpsertStore, Reread, RenameStore, DeleteStore, Forget, Resync
<1>4. \A e \in Caller : e # c => call'[e] = call[e]
  BY <1>3, GoneTo, ReturnIsIdle
<1>5. QED
  BY <1>1, <1>2, <1>4 DEF Single

\* The row is stored, renamed or deleted: the call will register its id.
LEMMA KeptStore ==
  ASSUME OnceKept, Single, NEW i \in Id, Kept(i), NEW c \in Caller,
         UpsertStore(c) \/ RenameStore(c) \/ DeleteStore(c)
  PROVE  Kept(i)'
<1>a. /\ Placed /\ Names /\ schedules \in [Id -> Row \cup {None}]
      /\ \A r \in runs : r.job.id \in Id
  BY DEF OnceKept, JobsKept, Placed, ScheduleTypeOK, Job
<1>b. \A e \in Caller : e # c => call[e] = Idle /\ call'[e] = Idle
  BY <1>a, OneCaller DEF Progress
<1>c. UNCHANGED <<now, phase, entries, timers, strays, runs>>
  BY DEF UpsertStore, RenameStore, DeleteStore, memory
<1>d. call[c].step \in {"store", "rename", "delete"}
  BY DEF UpsertStore, RenameStore, DeleteStore, At
<1>e. \A k \in Id : ~Dirty(k)
  BY <1>b, <1>d DEF Dirty, At, Idle
<1>1. ASSUME ~At(c, "resync")', schedules'[i] = schedules[i]
      PROVE  Kept(i)'
  <2>1. \A e \in Caller : ~At(e, "resync")'
    BY <1>1, <1>b DEF At, Idle
  <2>2. Running(i)' <=> Running(i)
    BY <1>c DEF Running
  <2>3. QED
    BY <1>1, <1>a, <1>c, <1>e, <2>1, <2>2, KeptUntouched
<1>2. ASSUME ~At(c, "resync")', Dirty(i)'
      PROVE  Kept(i)'
  <2>1. \A e \in Caller : ~At(e, "resync")'
    BY <1>2, <1>b DEF At, Idle
  <2>2. Running(i)' <=> Running(i)
    BY <1>c DEF Running
  <2>3. QED
    BY <1>2, <1>c, <2>1, <2>2 DEF Kept
<1>3. CASE Return(c) /\ schedules' = schedules
  <2>1. ~At(c, "resync")'
    BY <1>a, <1>3, ReturnIsIdle DEF At, Idle
  <2>2. QED
    BY <1>1, <1>3, <2>1
<1>4. CASE UpsertStore(c)
  <2>1. PICK k \in Nat : \E row \in Row :
           /\ row = call[c].row /\ schedules' = [schedules EXCEPT ![k] = row]
           /\ Go(c, "reread", 0, row)
    BY <1>4, <1>a, StoredAt
  <2>2. call[c].row \in Row /\ call[c].row # None
    BY <2>1, RowFields
  <2>3. /\ call'[c].step = "reread" /\ call'[c].row = call[c].row
    BY <2>1, <1>a, GoneTo
  <2>4. CASE i = k
    <3>1. schedules'[i] = call[c].row
      BY <1>a, <2>1, <2>4
    <3>2. Dirty(i)'
      BY <2>2, <2>3, <3>1 DEF Dirty, At
    <3>3. QED
      BY <1>2, <2>3, <3>2 DEF At
  <2>5. CASE i # k
    <3>1. schedules'[i] = schedules[i]
      BY <1>a, <2>1, <2>5
    <3>2. QED
      BY <1>1, <2>3, <3>1 DEF At
  <2>6. QED
    BY <2>4, <2>5
<1>5. CASE RenameStore(c) /\ ~(Return(c) /\ schedules' = schedules)
  <2> DEFINE k == call[c].id
             row == call[c].row
  <2>1. /\ schedules[k] # None /\ schedules' = [schedules EXCEPT ![k].name = row.name]
        /\ Go(c, "reread", k, row) /\ k \in Id /\ row \in Row
    BY <1>5, <1>a DEF RenameStore, Placed, CallsHold, At
  <2>2. /\ call'[c].step = "reread" /\ call'[c].row = row
    BY <2>1, <1>a, GoneTo
  <2>3. row.name \in Name
    BY <2>1, RowFields
  <2>4. CASE i = k
    <3>1. schedules[k] \in Row
      BY <1>a, <2>1
    <3>2. [schedules[k] EXCEPT !.name = row.name] \in Row
          /\ [schedules[k] EXCEPT !.name = row.name].name = row.name
      BY <3>1, <2>3 DEF Row
    <3>3. schedules'[i] # None /\ schedules'[i].name = row.name
      BY <1>a, <2>1, <2>4, <3>2, NoneIsNone
    <3>4. Dirty(i)'
      BY <2>2, <3>3 DEF Dirty, At
    <3>5. QED
      BY <1>2, <2>2, <3>4 DEF At
  <2>5. CASE i # k
    <3>1. schedules'[i] = schedules[i]
      BY <1>a, <2>1, <2>5
    <3>2. QED
      BY <1>1, <2>2, <3>1 DEF At
  <2>6. QED
    BY <2>4, <2>5
<1>6. CASE DeleteStore(c) /\ ~(Return(c) /\ schedules' = schedules)
  <2> DEFINE k == call[c].id
  <2>1. /\ schedules' = [schedules EXCEPT ![k] = None]
        /\ Go(c, "forget", k, None) /\ k \in Id
    BY <1>6, <1>a DEF DeleteStore, Placed, CallsHold, At
  <2>2. call'[c].step = "forget" /\ call'[c].id = k
    BY <2>1, <1>a, GoneTo
  <2>3. CASE i = k
    <3>1. Dirty(i)'
      BY <2>2, <2>3 DEF Dirty, At
    <3>2. QED
      BY <1>2, <2>2, <3>1 DEF At
  <2>4. CASE i # k
    <3>1. schedules'[i] = schedules[i]
      BY <1>a, <2>1, <2>4
    <3>2. QED
      BY <1>1, <2>2, <3>1 DEF At
  <2>5. QED
    BY <2>3, <2>4
<1>7. QED
  BY <1>3, <1>4, <1>5, <1>6

\* What is read back is what will be registered, unless the row is gone.
LEMMA KeptReread ==
  ASSUME OnceKept, Single, NEW i \in Id, Kept(i), NEW c \in Caller, Reread(c)
  PROVE  Kept(i)'
<1> DEFINE name == call[c].row.name
<1>a. /\ Placed /\ Names /\ schedules \in [Id -> Row \cup {None}]
  BY DEF OnceKept, JobsKept, Placed, ScheduleTypeOK
<1>b. \A e \in Caller : e # c => call[e] = Idle /\ call'[e] = Idle
  BY <1>a, OneCaller DEF Progress
<1>c. UNCHANGED <<schedules, now, phase, entries, timers, strays, runs>> /\ call[c].step = "reread"
  BY DEF Reread, memory, At
<1>d. Running(i)' <=> Running(i)
  BY <1>c DEF Running
<1>e. Dirty(i) => schedules[i] # None /\ schedules[i].name = name
  BY <1>b, <1>c DEF Dirty, At, Idle
<1>1. CASE ~Exists(name) /\ Return(c)
  <2>1. ~Dirty(i)
    BY <1>1, <1>e DEF Exists
  <2>2. \A e \in Caller : ~At(e, "resync")'
    BY <1>1, <1>a, <1>b, ReturnIsIdle DEF At, Idle
  <2>3. QED
    BY <1>a, <1>c, <1>d, <2>1, <2>2, KeptUntouched
<1>2. CASE Exists(name) /\ Go(c, "resync", IdOf(name), schedules[IdOf(name)])
  <2>1. /\ call'[c].step = "resync" /\ call'[c].id = IdOf(name)
        /\ call'[c].row = schedules[IdOf(name)]
    BY <1>2, <1>a, GoneTo
  <2>2. IdOf(name) \in Id /\ schedules[IdOf(name)] # None /\ schedules[IdOf(name)].name = name
    BY <1>2, RowOfName
  <2>3. CASE i = IdOf(name)
    <3>1. Dirty(i)'
      BY <2>1, <2>3 DEF Dirty, At
    <3>2. \A e \in Caller : At(e, "resync")' /\ call'[e].id = i => schedules'[i] = call'[e].row
      BY <1>b, <1>c, <2>1, <2>3 DEF At, Idle
    <3>3. QED
      BY <1>c, <1>d, <3>1, <3>2 DEF Kept
  <2>4. CASE i # IdOf(name)
    <3>1. ~Dirty(i)
      BY <1>a, <1>e, <2>2, <2>4 DEF Names
    <3>2. \A e \in Caller : ~(At(e, "resync")' /\ call'[e].id = i)
      BY <1>b, <2>1, <2>4 DEF At, Idle
    <3>3. QED
      BY <1>a, <1>c, <1>d, <3>1, <3>2, KeptUntouched
  <2>5. QED
    BY <2>3, <2>4
<1>3. QED
  BY <1>1, <1>2 DEF Reread

\* A deleted row loses what is registered for it.
LEMMA KeptForget ==
  ASSUME OnceKept, Single, NEW i \in Id, Kept(i), NEW c \in Caller, Forget(c)
  PROVE  Kept(i)'
<1> DEFINE k == call[c].id
<1>a. /\ Placed /\ Used /\ schedules \in [Id -> Row \cup {None}]
      /\ entries \in [Id -> Job \cup {None}] /\ timers \in [Id -> Timer \cup {None}]
  BY DEF OnceKept, JobsKept, Placed, ScheduleTypeOK
<1>b. \A e \in Caller : e # c => call[e] = Idle /\ call'[e] = Idle
  BY <1>a, OneCaller DEF Progress
<1>c. /\ UNCHANGED <<schedules, now, phase, strays, runs>> /\ At(c, "forget") /\ k \in Id
      /\ entries' = [entries EXCEPT ![k] = None] /\ timers' = [timers EXCEPT ![k] = None]
      /\ Return(c)
  BY <1>a DEF Forget, Placed, CallsHold, At
<1>d. Running(i)' <=> Running(i)
  BY <1>c DEF Running
<1>e. \A e \in Caller : ~At(e, "resync")'
  BY <1>a, <1>b, <1>c, ReturnIsIdle DEF At, Idle
<1>1. CASE i = k
  <2>1. entries'[i] = None /\ timers'[i] = None
    BY <1>a, <1>c, <1>1
  <2>2. schedules'[i] = None
    BY <1>a, <1>c, <1>1 DEF Used
  <2>3. \A j \in strays' : j.id # i
    BY <1>c DEF Kept
  <2>4. Matches(i)'
    BY <2>1, <2>2, <2>3, NothingMatchesNext DEF WantsEntry, Due
  <2>5. QED
    BY <1>e, <2>1, <2>3, <2>4 DEF Kept
<1>2. CASE i # k
  <2>1. ~Dirty(i)
    BY <1>b, <1>c, <1>2 DEF Dirty, At, Idle
  <2>2. entries'[i] = entries[i] /\ timers'[i] = timers[i]
    BY <1>a, <1>c, <1>2
  <2>3. QED
    BY <1>a, <1>c, <1>d, <1>e, <2>1, <2>2, KeptUntouched
<1>3. QED
  BY <1>1, <1>2

\* A row whose job is being run, or has been, asks for nothing.
LEMMA RunWantsNothing ==
  ASSUME OnceKept, NEW i \in Id, i \notin edited, Running(i), NEW row \in Row,
         \/ schedules[i] = row
         \/ row.kind = "once" /\ row.at <= now
  PROVE  row.kind = "once" /\ ~WantsEntry(row) /\ ~WantsTimer(row)
<1>1. PICK r \in runs : r.job.id = i
  BY DEF Running
<1>a. /\ Ran /\ Used /\ runs \subseteq [job : Job, step : {"run", "unmap"}] /\ now \in 0..Horizon
      /\ ran \in [Id -> [Time -> Nat]]
  BY DEF OnceKept, JobsKept, Placed, ScheduleTypeOK
<1>2. /\ r.job.kind = "once" /\ r.job.at \in Time /\ r.job.at <= now
  BY <1>1, <1>a DEF Ran
<1>3. row.kind = "once" /\ row.at <= now
  <2>1. CASE schedules[i] # row
    BY <2>1
  <2>2. CASE schedules[i] = row
    <3>a. schedules[i] # None
      BY <2>2, RowFields
    <3>1. r.step = "run"
      BY <1>1, <1>a, <3>a DEF Used
    <3>2. JobOf(i, schedules[i]) = r.job /\ schedules[i] = row
      BY <1>1, <1>a, <2>2, <3>1 DEF Ran
    <3>3. row.kind = r.job.kind /\ row.at = r.job.at
      BY <3>2, JobOfRow
    <3>4. QED
      BY <1>2, <3>3
  <2>3. QED
    BY <2>1, <2>2
<1>4. ~(row.at > now)
  <2>1. row.at \in 0..Horizon
    BY RowFields
  <2>2. QED
    BY <1>3, <1>a, <2>1, BoundsAreNumbers
<1>5. QED
  BY <1>3, <1>4 DEF WantsEntry, WantsTimer

\* The id is brought into line with the row the call holds.
LEMMA KeptResync ==
  ASSUME OnceKept, Single, NEW i \in Id, i \notin edited, Kept(i), NEW c \in Caller, Resync(c)
  PROVE  Kept(i)'
<1> DEFINE k == call[c].id
           row == call[c].row
           new == [job |-> JobOf(k, row), pending |-> TRUE]
<1>a. /\ Placed /\ schedules \in [Id -> Row \cup {None}] /\ now \in 0..Horizon
      /\ entries \in [Id -> Job \cup {None}] /\ timers \in [Id -> Timer \cup {None}]
  BY DEF OnceKept, JobsKept, Placed, ScheduleTypeOK
<1>b. \A e \in Caller : e # c => call[e] = Idle /\ call'[e] = Idle
  BY <1>a, OneCaller DEF Progress
<1>c. /\ UNCHANGED <<now, phase, strays, runs>> /\ At(c, "resync") /\ k \in Id /\ row \in Row
      /\ entries' = [entries EXCEPT ![k] = IF WantsEntry(row) THEN JobOf(k, row) ELSE None]
      /\ timers' = [timers EXCEPT ![k] = IF WantsTimer(row) THEN new ELSE None]
      /\ DisableAll({x \in {k} : Missed(row)})
      /\ Return(c)
  BY <1>a DEF Resync, Placed, CallsHold, At
<1>d. Running(i)' <=> Running(i)
  BY <1>c DEF Running
<1>e. \A e \in Caller : ~At(e, "resync")'
  BY <1>a, <1>b, <1>c, ReturnIsIdle DEF At, Idle
<1>f. PICK S \in SUBSET Id : DisableAll(S) /\ (k \in S <=> Missed(row)) /\ \A x \in S : x = k
  BY <1>c
<1>g. row.at \in 0..Horizon /\ row # None
  BY <1>c, RowFields
<1>1. CASE i = k
  <2>1. \/ schedules[i] = row
        \/ /\ schedules[i] = None \/ ~schedules[i].enabled
           /\ row.kind = "once" /\ row.at <= now
    BY <1>1, <1>c DEF Kept
  <2>2. /\ entries'[i] = IF WantsEntry(row) THEN JobOf(i, row) ELSE None
        /\ timers'[i] = IF WantsTimer(row) THEN [job |-> JobOf(i, row), pending |-> TRUE] ELSE None
    BY <1>1, <1>a, <1>c
  <2>3. \A j \in strays' : j.id # i
    BY <1>c DEF Kept
  <2>4. Running(i) => ~WantsEntry(row) /\ ~WantsTimer(row)
    BY <1>c, <2>1, RunWantsNothing
  <2>5. Running(i)' => entries'[i] = None /\ (timers'[i] # None => ~timers'[i].pending)
    BY <1>d, <2>2, <2>4
  <2>6. Matches(i)'
    <3>a. /\ schedules[i] = None => schedules'[i] = None
          /\ schedules[i] # None /\ ~Missed(row) => schedules'[i] = schedules[i]
          /\ schedules[i] # None /\ Missed(row) =>
               schedules'[i].enabled = FALSE /\ schedules'[i].kind = schedules[i].kind
      BY <1>1, <1>a, <1>f, DisableAllRows
    <3>b. row # None
      BY <1>g
    <3>1. CASE WantsEntry(row)
      <4>1. row.kind = "recurring" /\ ~WantsTimer(row) /\ ~Missed(row)
        BY <3>1 DEF WantsEntry, WantsTimer, Missed
      <4>2. schedules'[i] = row
        BY <2>1, <3>a, <3>b, <4>1
      <4>3. JobOf(i, row) # None
        BY <1>c, JobOfRow
      <4>4. entries'[i] = JobOf(i, row) /\ timers'[i] = None
        BY <2>2, <3>1, <4>1
      <4>5. LiveAmong(strays', entries'[i], timers'[i], i) = {JobOf(i, row)}
        BY <2>3, <4>3, <4>4, EntryLive
      <4>6. QED
        BY <3>1, <4>2, <4>5 DEF Matches
    <3>2. CASE WantsTimer(row)
      <4>1. row.kind = "once" /\ row.enabled /\ row.at > now /\ ~WantsEntry(row)
        BY <3>2 DEF WantsEntry, WantsTimer
      <4>2. ~(row.at <= now)
        BY <1>a, <1>g, <4>1, BoundsAreNumbers
      <4>3. schedules'[i] = row
        BY <2>1, <3>a, <3>b, <4>2 DEF Missed
      <4> DEFINE t == [job |-> JobOf(i, row), pending |-> TRUE]
      <4>4. t # None /\ t.pending /\ t.job = JobOf(i, row)
        BY <1>c, TimerOfRow
      <4>5. entries'[i] = None /\ timers'[i] = t
        BY <2>2, <3>2, <4>1
      <4> HIDE DEF t
      <4>6. LiveAmong(strays', entries'[i], timers'[i], i) = {JobOf(i, row)}
        BY <2>3, <4>4, <4>5, TimerLive
      <4>7. Due(schedules'[i]) /\ ~Running(i)'
        BY <1>d, <2>4, <3>2, <3>b, <4>1, <4>3 DEF Due
      <4>8. QED
        BY <4>3, <4>6, <4>7 DEF Matches
    <3>3. CASE ~WantsEntry(row) /\ ~WantsTimer(row)
      <4>1. entries'[i] = None /\ timers'[i] = None
        BY <2>2, <3>3
      <4>2. ~WantsEntry(schedules'[i]) /\ ~Due(schedules'[i])
        <5>1. CASE schedules[i] = None
          BY <3>a, <5>1 DEF WantsEntry, Due
        <5>2. CASE schedules[i] # None /\ Missed(row)
          BY <3>a, <5>2 DEF WantsEntry, Due
        <5>3. CASE schedules[i] # None /\ ~Missed(row)
          <6>1. schedules'[i] = schedules[i]
            BY <3>a, <5>3
          <6>2. row.at > now \/ row.at <= now
            BY <1>a, <1>g, BoundsAreNumbers
          <6>3. CASE schedules[i] = row
            BY <3>3, <5>3, <6>1, <6>2, <6>3 DEF WantsTimer, Missed, Due
          <6>4. CASE ~schedules[i].enabled
            BY <6>1, <6>4 DEF WantsEntry, Due
          <6>5. QED
            BY <2>1, <5>3, <6>3, <6>4
        <5>4. QED
          BY <5>1, <5>2, <5>3
      <4>3. QED
        BY <2>3, <4>1, <4>2, NothingMatchesNext
    <3>4. QED
      BY <3>1, <3>2, <3>3
  <2>7. QED
    BY <1>e, <2>3, <2>5, <2>6 DEF Kept
<1>2. CASE i # k
  <2>1. ~Dirty(i)
    BY <1>b, <1>c, <1>2 DEF Dirty, At, Idle
  <2>2. entries'[i] = entries[i] /\ timers'[i] = timers[i]
    BY <1>a, <1>c, <1>2
  <2>3. schedules'[i] = schedules[i]
    <3>1. i \notin S
      BY <1>2, <1>f
    <3>2. CASE schedules[i] = None
      BY <1>a, <1>f, <3>2, DisableAllRows
    <3>3. CASE schedules[i] # None
      BY <1>a, <1>f, <3>1, <3>3, DisableAllRows
    <3>4. QED
      BY <3>2, <3>3
  <2>4. QED
    BY <1>a, <1>c, <1>d, <1>e, <2>1, <2>2, <2>3, KeptUntouched
<1>3. QED
  BY <1>1, <1>2

\* Start finds nothing registered for an id it was not overtaken with, and its
\* row as it has listed it, and brings it into line.
LEMMA KeptLoad ==
  ASSUME OnceKept, NEW i \in Id, i \notin early, Kept(i), StartLoad
  PROVE  Kept(i)'
<1>a. /\ schedules \in [Id -> Row \cup {None}] /\ now \in 0..Horizon /\ Started
      /\ listed \in [Id -> Row \cup {None}] /\ Registered
  BY DEF OnceKept, JobsKept, Placed, ScheduleTypeOK
<1>b. /\ phase = "listed" /\ UNCHANGED <<now, runs, call>>
      /\ entries'[i] = IF WantsEntry(listed[i]) THEN JobOf(i, listed[i]) ELSE entries[i]
      /\ timers'[i] = IF WantsTimer(listed[i])
                      THEN [job |-> JobOf(i, listed[i]), pending |-> TRUE] ELSE timers[i]
      /\ DisableAll({k \in Id : Missed(listed[k])})
  BY DEF StartLoad
<1>c. /\ entries[i] = None /\ timers[i] = None /\ listed[i] = schedules[i]
      /\ (\A j \in strays : j.id # i) /\ ~Running(i)
  BY <1>a, <1>b DEF Started
<1>d. \A j \in strays' : j.id # i
  <2>1. SUFFICES ASSUME NEW j \in strays', j \notin strays PROVE j.id # i
    BY <1>c
  <2>2. \/ \E k \in Id : entries[k] # None /\ j = entries[k]
        \/ \E k \in Id : timers[k] # None /\ j = timers[k].job
    BY <2>1 DEF StartLoad
  <2>3. PICK k \in Id : j.id = k /\ (entries[k] # None \/ timers[k] # None)
    BY <1>a, <2>2 DEF Registered
  <2>4. QED
    BY <1>c, <2>3
<1>e. ~Running(i)'
  BY <1>b, <1>c DEF Running
<1> DEFINE row == schedules[i]
<1>i. PICK S \in SUBSET Id : DisableAll(S) /\ \A k \in Id : k \in S <=> Missed(listed[k])
  BY <1>b
<1>f. /\ row = None => schedules'[i] = None
      /\ row # None /\ ~Missed(row) => schedules'[i] = row
      /\ row # None /\ Missed(row) =>
           schedules'[i].enabled = FALSE /\ schedules'[i].kind = row.kind
  BY <1>a, <1>c, <1>i, DisableAllRows
<1>g. row # None => row \in Row /\ row.at \in 0..Horizon
  BY <1>a, RowFields
<1>h. /\ entries'[i] = IF WantsEntry(row) THEN JobOf(i, row) ELSE None
      /\ timers'[i] = IF WantsTimer(row) THEN [job |-> JobOf(i, row), pending |-> TRUE] ELSE None
  BY <1>b, <1>c
<1>j. \A c \in Caller : At(c, "resync")' /\ call'[c].id = i =>
        \/ schedules'[i] = call'[c].row
        \/ /\ schedules'[i] = None \/ ~schedules'[i].enabled
           /\ call'[c].row.kind = "once" /\ call'[c].row.at <= now'
  <2>1. SUFFICES ASSUME NEW c \in Caller, At(c, "resync"), call[c].id = i
                 PROVE  \/ schedules'[i] = call[c].row
                        \/ /\ schedules'[i] = None \/ ~schedules'[i].enabled
                           /\ call[c].row.kind = "once" /\ call[c].row.at <= now
    BY <1>b DEF At
  <2>2. \/ row = call[c].row
        \/ /\ row = None \/ ~row.enabled
           /\ call[c].row.kind = "once" /\ call[c].row.at <= now
    BY <2>1 DEF Kept
  <2>3. CASE row = None \/ ~Missed(row)
    BY <1>f, <2>2, <2>3
  <2>4. CASE row # None /\ Missed(row)
    <3>1. row.kind = "once" /\ row.at <= now /\ ~schedules'[i].enabled
      BY <1>f, <2>4 DEF Missed
    <3>2. QED
      BY <2>2, <3>1
  <2>5. QED
    BY <2>3, <2>4
<1> HIDE DEF row
<1>1. Matches(i)'
  <2>1. CASE WantsEntry(row)
    <3>1. row # None /\ ~WantsTimer(row) /\ ~Missed(row)
      BY <2>1 DEF WantsEntry, WantsTimer, Missed
    <3>2. schedules'[i] = row /\ JobOf(i, row) # None
      BY <1>f, <1>g, <3>1, JobOfRow
    <3>3. LiveAmong(strays', entries'[i], timers'[i], i) = {JobOf(i, row)}
      BY <1>d, <1>h, <2>1, <3>1, <3>2, EntryLive
    <3>4. QED
      BY <2>1, <3>2, <3>3 DEF Matches
  <2>2. CASE WantsTimer(row)
    <3>1. row # None /\ row.kind = "once" /\ row.enabled /\ row.at > now /\ ~WantsEntry(row)
      BY <2>2 DEF WantsEntry, WantsTimer
    <3>2. ~(row.at <= now)
      BY <1>a, <1>g, <3>1, BoundsAreNumbers
    <3>3. schedules'[i] = row
      BY <1>f, <3>1, <3>2 DEF Missed
    <3> DEFINE t == [job |-> JobOf(i, row), pending |-> TRUE]
    <3>4. t # None /\ t.pending /\ t.job = JobOf(i, row)
      BY <1>g, <3>1, TimerOfRow
    <3>5. entries'[i] = None /\ timers'[i] = t
      BY <1>h, <2>2, <3>1
    <3> HIDE DEF t
    <3>6. LiveAmong(strays', entries'[i], timers'[i], i) = {JobOf(i, row)}
      BY <1>d, <3>4, <3>5, TimerLive
    <3>7. QED
      BY <1>e, <3>1, <3>3, <3>6 DEF Matches, Due
  <2>3. CASE ~WantsEntry(row) /\ ~WantsTimer(row)
    <3>1. entries'[i] = None /\ timers'[i] = None
      BY <1>h, <2>3
    <3>2. ~WantsEntry(schedules'[i]) /\ ~Due(schedules'[i])
      <4>1. CASE row = None
        BY <1>f, <4>1 DEF WantsEntry, Due
      <4>2. CASE row # None /\ Missed(row)
        BY <1>f, <4>2 DEF WantsEntry, Due
      <4>3. CASE row # None /\ ~Missed(row)
        <5>1. row.at > now \/ row.at <= now
          BY <1>a, <1>g, <4>3, BoundsAreNumbers
        <5>2. QED
          BY <1>f, <2>3, <4>3, <5>1 DEF WantsTimer, Missed, Due
      <4>4. QED
        BY <4>1, <4>2, <4>3
    <3>3. QED
      BY <1>d, <3>1, <3>2, NothingMatchesNext
  <2>4. QED
    BY <2>1, <2>2, <2>3
<1>2. QED
  BY <1>d, <1>e, <1>j, <1>1 DEF Kept

\* A call begins only where none is in flight, or the two overlap from here on.
LEMMA KeptRequest ==
  ASSUME OnceKept, NEW i \in Id, Kept(i), Note, ~raced', NEW c \in Caller, Request(c)
  PROVE  Kept(i)'
<1>a. Placed
  BY DEF OnceKept, JobsKept
<1>b. Enter(c)
  BY DEF Request, Upsert, Rename, Delete
<1>c. /\ UNCHANGED <<schedules, now, phase, entries, timers, strays, runs>>
      /\ At(c, "idle")
  BY <1>b DEF Enter, memory
<1>1. PICK step \in {"store", "rename", "delete"} : \E k, row : Go(c, step, k, row)
  BY DEF Request, Upsert, Rename, Delete
<1>2. call'[c].step = step /\ \A e \in Caller : e # c => call'[e] = call[e]
  BY <1>a, <1>1, GoneTo
<1>3. \A e \in Caller : e # c => call[e] = Idle
  <2>1. SUFFICES ASSUME NEW e \in Caller, e # c, call[e] # Idle PROVE FALSE
    OBVIOUS
  <2>2. call'[c] # Idle
    BY <1>1, <1>2 DEF Idle
  <2>3. call'[e] # Idle
    BY <1>2, <2>1
  <2>4. QED
    BY <2>1, <2>2, <2>3 DEF Note
<1>4. ~Dirty(i)
  BY <1>3, <1>c DEF Dirty, At, Idle
<1>5. \A e \in Caller : ~At(e, "resync")'
  BY <1>1, <1>2, <1>3 DEF At, Idle
<1>6. Running(i)' <=> Running(i)
  BY <1>c DEF Running
<1>7. QED
  BY <1>a, <1>c, <1>4, <1>5, <1>6, KeptUntouched

\* The job that fires is its row's, which asks for nothing while it runs.
LEMMA KeptFire ==
  ASSUME OnceKept, Exclusive, NEW i \in Id, i \notin early, Kept(i), FireStep
  PROVE  Kept(i)'
<1>a. /\ Placed /\ Registered /\ Started /\ Used /\ timers \in [Id -> Timer \cup {None}]
  BY DEF OnceKept, JobsKept, Placed, ScheduleTypeOK
<1>1. PICK job \in Job : /\ job.kind = "once" /\ job.at \in Time /\ Launch(job)
                         /\ \/ /\ timers[job.id] # None /\ timers[job.id].pending
                               /\ timers[job.id].job = job
                               /\ timers' = [timers EXCEPT ![job.id].pending = FALSE]
                               /\ strays' = strays
                            \/ job \in strays /\ strays' = strays \ {job} /\ timers' = timers
  BY <1>a, FiredJob
<1>2. /\ UNCHANGED <<schedules, now, phase, entries, call>> /\ job.id \in Id
      /\ runs' = runs \cup {[job |-> job, step |-> "run"]}
  BY <1>1 DEF Launch, Job
<1>3. /\ Running(job.id)' /\ \A k \in Id : k # job.id => (Running(k)' <=> Running(k))
  BY <1>1, FiredRuns
<1>4. strays' \subseteq strays
  BY <1>1
<1>5. Dirty(i) => Dirty(i)'
  BY <1>2 DEF Dirty, At
<1>6. \A c \in Caller : At(c, "resync")' => call'[c] = call[c]
  BY <1>2
<1>7. CASE i # job.id
  <2>1. timers'[i] = timers[i]
    BY <1>a, <1>1, <1>7
  <2>2. Running(i)' <=> Running(i)
    BY <1>3, <1>7
  <2>3. \A j \in strays' : j.id = i => j \in strays
    BY <1>4
  <2>4. QED
    BY <1>a, <1>2, <1>5, <1>6, <2>1, <2>2, <2>3, KeptUntouched
<1>8. CASE i = job.id
  <2>1. job \notin strays
    BY <1>8 DEF Kept
  <2>2. /\ timers[i] # None /\ timers[i].pending /\ timers[i].job = job
        /\ timers' = [timers EXCEPT ![i].pending = FALSE] /\ strays' = strays
    BY <1>1, <1>8, <2>1
  <2>3. timers[i] \in Timer
    BY <1>a, <2>2
  <2>4. timers'[i].pending = FALSE
    BY <1>a, <2>2, <2>3 DEF Timer
  <2>5. entries'[i] = None
    BY <1>2, <2>2 DEF Exclusive
  <2>6. \A j \in strays' : j.id # i
    BY <1>4 DEF Kept
  <2>7. Matches(i) => Matches(i)'
    <3>1. SUFFICES ASSUME Matches(i) PROVE Matches(i)'
      OBVIOUS
    <3>2. LiveAmong(strays, entries[i], timers[i], i) = {job}
      <4>1. entries[i] = None
        BY <1>2, <2>5
      <4>2. QED
        BY <1>2, <2>2, <2>6, <4>1, TimerLive
    <3>3. WantsEntry(schedules[i]) \/ Due(schedules[i])
      BY <3>1, <3>2 DEF Matches
    <3>4. LiveAmong(strays, entries[i], timers[i], i) = {JobOf(i, schedules[i])}
      BY <3>1, <3>2 DEF Matches
    <3>5. JobOf(i, schedules[i]) = job
      BY <3>2, <3>4
    <3>6. schedules[i].kind = "once"
      BY <1>1, <3>5 DEF JobOf
    <3>7. ~WantsEntry(schedules'[i])
      BY <1>2, <3>6 DEF WantsEntry
    <3>8. QED
      BY <1>3, <1>8, <2>4, <2>5, <2>6, <3>7, NothingMatchesNext
  <2>8. QED
    BY <1>2, <1>5, <2>4, <2>5, <2>6, <2>7 DEF Kept, At
<1>9. QED
  BY <1>7, <1>8

\* The row goes with its job, and what is registered for it is gone already.
LEMMA KeptRun ==
  ASSUME OnceKept, NEW i \in Id, i \notin edited, Kept(i), NEW r \in runs,
         RunEnds(r) \/ RunForgets(r)
  PROVE  Kept(i)'
<1>a. /\ Placed /\ Registered /\ Ran /\ Used /\ timers \in [Id -> Timer \cup {None}]
      /\ schedules \in [Id -> Row \cup {None}]
      /\ runs \subseteq [job : Job, step : {"run", "unmap"}]
  BY DEF OnceKept, JobsKept, Placed, ScheduleTypeOK
<1> DEFINE k == r.job.id
<1>b. k \in Id /\ r \in [job : Job, step : {"run", "unmap"}]
  BY <1>a DEF Job
<1>c. UNCHANGED <<now, phase, entries, call>>
  BY DEF RunEnds, RunForgets, memory
<1>d. \A c \in Caller : At(c, "resync")' => call'[c] = call[c] /\ At(c, "resync")
  BY <1>c DEF At
<1>e. /\ schedules'[k] = None /\ \A x \in Id : x # k => schedules'[x] = schedules[x]
      /\ \A x \in Id : x # k => timers'[x] = timers[x]
      /\ timers'[k] \in {None, timers[k]}
      /\ \A j \in strays' : j \in strays \/ (j.id = k /\ timers[k] # None /\ timers[k].pending)
  <2>1. CASE RunEnds(r)
    BY <1>a, <1>b, <2>1 DEF RunEnds, memory
  <2>2. CASE RunForgets(r)
    <3>1. /\ schedules' = schedules /\ timers' = [timers EXCEPT ![k] = None] /\ r.step = "unmap"
          /\ \A j \in strays' :
               j \in strays \/ (j = timers[k].job /\ timers[k] # None /\ timers[k].pending)
      BY <2>2 DEF RunForgets
    <3>2. schedules[k] = None
      BY <1>a, <3>1 DEF Used
    <3>3. timers[k] # None => timers[k].job.id = k
      BY <1>a, <1>b DEF Registered
    <3>4. QED
      BY <1>a, <1>b, <3>1, <3>2, <3>3
  <2>3. QED
    BY <2>1, <2>2
<1>f. \A x \in Id : x # k => (Running(x)' <=> Running(x))
  BY <1>a, EndedRuns
<1>1. CASE i # k
  <2>1. Dirty(i) => Dirty(i)'
    BY <1>c, <1>e, <1>1 DEF Dirty, At
  <2>2. \A j \in strays' : j.id = i => j \in strays
    BY <1>e, <1>1
  <2>3. /\ schedules'[i] = schedules[i] /\ timers'[i] = timers[i] /\ (Running(i)' <=> Running(i))
    BY <1>e, <1>f, <1>1
  <2>4. QED
    BY <1>a, <1>c, <1>d, <2>1, <2>2, <2>3, KeptUntouched
<1>2. CASE i = k
  <2>1. Running(i)
    BY <1>2 DEF Running
  <2>2. entries[i] = None /\ (timers[i] # None => ~timers[i].pending)
    BY <2>1 DEF Kept
  <2>3. entries'[i] = None /\ (timers'[i] # None => ~timers'[i].pending)
    BY <1>c, <1>e, <1>2, <2>2
  <2>4. \A j \in strays' : j.id # i
    BY <1>e, <1>2, <2>2 DEF Kept
  <2>5. \A c \in Caller : At(c, "resync")' /\ call'[c].id = i =>
          schedules'[i] = None /\ call'[c].row.kind = "once" /\ call'[c].row.at <= now'
    <3>1. SUFFICES ASSUME NEW c \in Caller, At(c, "resync"), call[c].id = i
                   PROVE  call[c].row.kind = "once" /\ call[c].row.at <= now
      BY <1>c, <1>d, <1>e, <1>2
    <3>2. CASE schedules[i] # call[c].row
      BY <3>1, <3>2 DEF Kept
    <3>3. CASE schedules[i] = call[c].row
      <4>1. call[c].row \in Row /\ call[c].row # None
        BY <1>a, <3>1, RowFields DEF Placed, CallsHold, At
      <4>2. r.step = "run"
        BY <1>a, <1>b, <1>2, <3>3, <4>1 DEF Used
      <4>3. JobOf(i, schedules[i]) = r.job
        BY <1>a, <1>2, <4>2 DEF Ran
      <4>4. r.job.kind = "once" /\ r.job.at <= now
        BY <1>a, <1>b DEF Ran
      <4>5. QED
        BY <3>3, <4>1, <4>3, <4>4, JobOfRow
    <3>4. QED
      BY <3>2, <3>3
  <2>6. Matches(i)'
    BY <1>e, <1>2, <2>3, <2>4, NothingMatchesNext DEF WantsEntry, Due
  <2>7. QED
    BY <2>3, <2>4, <2>5, <2>6 DEF Kept
<1>3. QED
  BY <1>1, <1>2

\* The rest: the listing, the clock, the supervisor; and a crash.
LEMMA KeptQuiet ==
  ASSUME OnceKept, NEW i \in Id, Kept(i), StartList \/ Boot \/ Tick
  PROVE  Kept(i)'
<1>a. Placed
  BY DEF OnceKept, JobsKept
<1>1. /\ UNCHANGED <<schedules, entries, timers, strays, runs, call>>
      /\ now' = now \/ now' = now + 1
  BY DEF StartList, Boot, Tick, memory
<1>2. phase' = "running" => phase = "running"
  BY DEF StartList, Boot, Tick
<1>3. Running(i)' <=> Running(i)
  BY <1>1 DEF Running
<1>4. Dirty(i) => Dirty(i)'
  BY <1>1 DEF Dirty, At
<1>5. QED
  BY <1>a, <1>1, <1>2, <1>3, <1>4, KeptUntouched

LEMMA KeptCrash ==
  ASSUME OnceKept, NEW i \in Id, Crash
  PROVE  Kept(i)'
<1>1. /\ strays' = {} /\ runs' = {} /\ phase' = "down" /\ \A c \in Caller : call'[c] = Idle
  BY DEF Crash
<1>2. ~Running(i)' /\ \A c \in Caller : ~At(c, "resync")'
  BY <1>1 DEF Running, At, Idle
<1>3. QED
  BY <1>1, <1>2 DEF Kept

\* A row is of one kind, and what an id had is removed when it changes.
LEMMA StepExclusive ==
  ASSUME OnceKept, Exclusive, ScheduleNext, early \subseteq early'
  PROVE  Exclusive'
<1>a. /\ Placed /\ Registered /\ Started /\ now \in 0..Horizon
      /\ entries \in [Id -> Job \cup {None}] /\ timers \in [Id -> Timer \cup {None}]
      /\ listed \in [Id -> Row \cup {None}]
  BY DEF OnceKept, JobsKept, Placed, ScheduleTypeOK
<1>b. \A row : ~WantsEntry(row) \/ ~WantsTimer(row)
  BY DEF WantsEntry, WantsTimer
<1>1. CASE StartLoad
  <2>1. \A i \in Id \ early : entries[i] = None /\ timers[i] = None
    BY <1>1, <1>a DEF StartLoad, Started
  <2>2. \A i \in Id \ early : /\ ~WantsEntry(listed[i]) => entries'[i] = None
                              /\ ~WantsTimer(listed[i]) => timers'[i] = None
    BY <1>1, <2>1 DEF StartLoad
  <2>3. QED
    BY <1>b, <2>2 DEF Exclusive
<1>2. ASSUME NEW c \in Caller, Resync(c) PROVE Exclusive'
  <2> DEFINE k == call[c].id
             row == call[c].row
             e == IF WantsEntry(row) THEN JobOf(k, row) ELSE None
             t == IF WantsTimer(row) THEN [job |-> JobOf(k, row), pending |-> TRUE] ELSE None
  <2>1. /\ entries' = [entries EXCEPT ![k] = e] /\ timers' = [timers EXCEPT ![k] = t]
    BY <1>2 DEF Resync
  <2>2. e = None \/ t = None
    BY <1>b
  <2> HIDE DEF e, t, k
  <2>3. QED
    BY <1>a, <2>1, <2>2 DEF Exclusive
<1>3. ASSUME \A i \in Id : /\ entries[i] = None => entries'[i] = None
                           /\ timers[i] = None => timers'[i] = None
      PROVE  Exclusive'
  BY <1>3 DEF Exclusive
<1>4. CASE FireStep
  <2>1. PICK job \in Job : /\ Launch(job)
                           /\ \/ /\ timers[job.id] # None
                                 /\ timers' = [timers EXCEPT ![job.id].pending = FALSE]
                              \/ timers' = timers
    BY <1>4, <1>a, FiredJob
  <2>2. entries' = entries
    BY <2>1 DEF Launch
  <2>3. \A i \in Id : timers[i] = None => timers'[i] = None
    BY <1>a, <2>1
  <2>4. QED
    BY <1>3, <2>2, <2>3
<1>5. ASSUME NEW c \in Caller, Forget(c) PROVE Exclusive'
  BY <1>a, <1>3, <1>5 DEF Forget
<1>6. ASSUME NEW r \in runs, RunForgets(r) PROVE Exclusive'
  BY <1>a, <1>3, <1>6 DEF RunForgets
<1>7. CASE Crash
  BY <1>3, <1>7 DEF Crash
<1>8. ASSUME UNCHANGED <<entries, timers>> PROVE Exclusive'
  BY <1>3, <1>8
<1>9. ASSUME NEW c \in Caller,
             \/ Request(c) \/ Reread(c) \/ UpsertStore(c) \/ RenameStore(c) \/ DeleteStore(c)
      PROVE  Exclusive'
  BY <1>8, <1>9 DEF Request, Upsert, Rename, Delete, Enter, Reread, UpsertStore, RenameStore,
                    DeleteStore, memory
<1>10. ASSUME StartList \/ Boot \/ Tick \/ \E r \in runs : RunEnds(r) PROVE Exclusive'
  BY <1>8, <1>10 DEF StartList, Boot, Tick, RunEnds, memory
<1>11. QED
  BY <1>1, <1>2, <1>4, <1>5, <1>6, <1>7, <1>9, <1>10
     DEF ScheduleNext, Step, Startup, Progress, RunStep

\* As long as calls have not overlapped one call at most is in flight, and an id
\* nobody edited while its job ran or overtook Start with is kept.
InStep ==
  /\ OnceKept /\ Exclusive
  /\ ~raced => Single /\ \A i \in Id \ (edited \cup early) : Kept(i)

LEMMA InitInStep == ScheduleInit => InStep
<1> SUFFICES ASSUME ScheduleInit PROVE InStep
  OBVIOUS
<1>1. /\ phase = "new" /\ strays = {} /\ runs = {} /\ call = [c \in Caller |-> Idle]
      /\ entries = [i \in Id |-> None]
  BY DEF ScheduleInit
<1>2. Exclusive /\ Single
  BY <1>1 DEF Exclusive, Single
<1>3. \A i \in Id : Kept(i)
  BY <1>1 DEF Kept, Running, At, Idle
<1>4. QED
  BY <1>2, <1>3, InitOnce DEF InStep

LEMMA StepInStep ==
  ASSUME InStep, [ScheduleNext]_scheduler
  PROVE  InStep'
<1>a. OnceKept' /\ OnceKept /\ Exclusive
  BY StepOnce DEF InStep
<1>1. CASE UNCHANGED scheduler
  <2>1. UNCHANGED <<schedules, now, phase, entries, timers, strays, runs, call, edited, early,
                   raced>>
    BY <1>1 DEF scheduler, memory
  <2>2. \A i \in Id : Kept(i) => Kept(i)'
    BY <2>1 DEF Kept, Running, Dirty, Matches, At
  <2>3. Exclusive'
    BY <1>a, <2>1 DEF Exclusive
  <2>4. ~raced => Single'
    BY <2>1 DEF InStep, Single
  <2>5. QED
    BY <1>a, <2>1, <2>2, <2>3, <2>4 DEF InStep
<1>2. CASE ScheduleNext
  <2>a. edited \subseteq edited' /\ early \subseteq early'
    BY <1>a, <1>2, StepPlaced DEF OnceKept, JobsKept
  <2>1. Exclusive'
    BY <1>a, <1>2, <2>a, StepExclusive
  <2>2. SUFFICES ASSUME ~raced'
                 PROVE  Single' /\ \A i \in Id \ (edited' \cup early') : Kept(i)'
    BY <1>a, <2>1 DEF InStep
  <2>3. ~raced
    <3>1. CASE Note
      BY <2>2, <3>1 DEF Note
    <3>2. CASE Crash
      BY <2>2, <3>2 DEF Crash
    <3>3. QED
      BY <1>2, <3>1, <3>2 DEF ScheduleNext
  <2>4. Single'
    <3>1. CASE Note
      <4>1. ~\E c, d \in Caller : c # d /\ call'[c] # Idle /\ call'[d] # Idle
        BY <2>2, <3>1 DEF Note
      <4>2. QED
        BY <4>1 DEF Single
    <3>2. CASE Crash
      <4>1. \A c \in Caller : call'[c] = Idle
        BY <3>2 DEF Crash
      <4>2. QED
        BY <4>1 DEF Single
    <3>3. QED
      BY <1>2, <3>1, <3>2 DEF ScheduleNext
  <2>5. ASSUME NEW i \in Id \ (edited' \cup early') PROVE Kept(i)'
    <3>1. i \in Id /\ i \notin edited /\ i \notin early /\ Kept(i) /\ Single
      BY <2>a, <2>3, <2>5 DEF InStep
    <3>2. CASE Crash
      BY <1>a, <3>1, <3>2, KeptCrash
    <3>3. ASSUME Note, NEW c \in Caller, Request(c) PROVE Kept(i)'
      BY <1>a, <2>2, <3>1, <3>3, KeptRequest
    <3>4. ASSUME NEW c \in Caller, Progress(c) PROVE Kept(i)'
      BY <1>a, <3>1, <3>4, KeptStore, KeptReread, KeptForget, KeptResync DEF Progress
    <3>5. CASE StartLoad
      BY <1>a, <3>1, <3>5, KeptLoad
    <3>6. CASE StartList \/ Boot \/ Tick
      BY <1>a, <3>1, <3>6, KeptQuiet
    <3>7. CASE FireStep
      BY <1>a, <3>1, <3>7, KeptFire
    <3>8. CASE RunStep
      BY <1>a, <3>1, <3>8, KeptRun DEF RunStep
    <3>9. QED
      BY <1>2, <3>2, <3>3, <3>4, <3>5, <3>6, <3>7, <3>8 DEF ScheduleNext, Step, Startup
  <2>6. QED
    BY <2>4, <2>5
<1>3. QED
  BY <1>1, <1>2

\* The invariant behind Synced.
THEOREM InStepInvariance == ScheduleSafeSpec => []InStep
<1>1. InStep /\ [ScheduleNext]_scheduler => InStep'
  BY StepInStep
<1>2. QED
  BY <1>1, InitInStep, PTL DEF ScheduleSafeSpec

\* "Keeps in-memory entries in sync": between calls that did not overlap, what
\* resync and Start have registered is what the rows ask for, while jobs run,
\* end and are forgotten, across crashes and whatever Start had yet to do when a
\* call came, for every id that no call overtook it with.
THEOREM MemoryAndTable == ScheduleSafeSpec => []Synced
<1>1. ASSUME InStep PROVE Synced
  <2>1. SUFFICES ASSUME Quiet, ~raced, NEW i \in Id \ (edited \cup early)
                 PROVE  LET row == schedules[i]
                            due == row # None /\ row.enabled /\ row.kind = "once"
                            running == \E r \in runs : r.job.id = i
                        IN IF WantsEntry(row) \/ (due /\ ~running) THEN Live(i) = {JobOf(i, row)}
                           ELSE Live(i) = {}
    BY DEF Synced
  <2>2. ~Dirty(i)
    BY <2>1 DEF Quiet, Dirty, At
  <2>3. Matches(i)
    BY <1>1, <2>1, <2>2 DEF InStep, Kept, Quiet
  <2>4. Live(i) = LiveAmong(strays, entries[i], timers[i], i)
    BY DEF Live, LiveAmong
  <2>5. QED
    BY <2>3, <2>4 DEF Matches, Due, Running
<1>2. QED
  BY <1>1, InStepInvariance, PTL

-----------------------------------------------------------------------------
(* The outbound queue. *)

Gone == {"picked", "deleted"}

\* Rows leave "absent" and "pending" in the order of their ids.
Ordered ==
  \A m, k \in Msg :
    /\ table[m] \in Gone /\ table[k] \notin Gone => m < k
    /\ table[m] = "pending" /\ table[k] = "absent" => m < k

\* What a claim read is still the oldest pending row while its snapshot is
\* current.
Current ==
  \A q \in Req : claim[q] = "read" =>
    /\ found[q] \in Msg
    /\ q \notin stale => Oldest(found[q], With("pending"))

\* At most one claim is awaited, and only by a poller that waits for it.
Awaiting ==
  /\ \A p, q \in awaited : p = q
  /\ awaited # {} => bridge = "claiming"

InDelivered(m) == \E i \in DOMAIN delivered : delivered[i] = m

\* What the poller is about to send is newer than everything sent; what it is
\* about to acknowledge was sent.
Holding ==
  /\ bridge = "sending" =>
       /\ hand \in Msg
       /\ table[hand] \in Gone
       /\ \A i \in DOMAIN delivered : delivered[i] < hand
  /\ bridge \in {"acking", "ackwait"} => hand \in Msg /\ InDelivered(hand)

DeliveredGone == \A i \in DOMAIN delivered : table[delivered[i]] \in Gone
AcksDelivered == \A m \in acks : InDelivered(m)

IInv ==
  /\ TypeOK
  /\ Ordered
  /\ Current
  /\ Awaiting
  /\ Holding
  /\ DeliveredGone
  /\ AcksDelivered
  /\ DeletedWasDelivered
  /\ DeliveredInOrder

-----------------------------------------------------------------------------
LEMMA InitInv == Init => IInv
BY NType, NoMsgIsNew
   DEF Init, IInv, TypeOK, Ordered, Current, Awaiting, Holding, DeliveredGone,
       AcksDelivered, DeletedWasDelivered, DeliveredInOrder, With, Gone, Msg

LEMMA EnqueueInv == IInv /\ Enqueue => IInv'
<1> SUFFICES ASSUME IInv, Enqueue PROVE IInv'
  OBVIOUS
<1> USE DEF IInv
<1>1. PICK m \in Msg : /\ Oldest(m, With("absent"))
                       /\ table' = [table EXCEPT ![m] = "pending"]
  BY DEF Enqueue
<1>2. /\ stale' = {q \in Req : claim[q] = "read"}
      /\ UNCHANGED <<clark, claim, found, awaited, acks, bridge, hand, delivered, faults>>
  BY DEF Enqueue, Outdate, bridgeVars
<1>3. table[m] = "absent" /\ \A k \in Msg : table[k] = "absent" => m <= k
  BY <1>1 DEF Oldest, With
<1>4. \A k \in Msg : (table'[k] \in Gone <=> table[k] \in Gone)
  BY <1>1, <1>3 DEF Gone, TypeOK
<1>5. TypeOK'
  BY <1>1, <1>2 DEF TypeOK
<1>6. Ordered'
  <2> SUFFICES ASSUME NEW j \in Msg, NEW k \in Msg
               PROVE  /\ table'[j] \in Gone /\ table'[k] \notin Gone => j < k
                      /\ table'[j] = "pending" /\ table'[k] = "absent" => j < k
    BY DEF Ordered
  <2>1. table'[j] \in Gone /\ table'[k] \notin Gone => j < k
    BY <1>4 DEF Ordered
  <2>2. table'[j] = "pending" /\ table'[k] = "absent" => j < k
    BY <1>1, <1>3, NType DEF Ordered, TypeOK, Msg
  <2> QED BY <2>1, <2>2
<1>7. Current'
  BY <1>2 DEF Current
<1>8. Awaiting' /\ AcksDelivered' /\ DeliveredInOrder'
  BY <1>2 DEF Awaiting, AcksDelivered, DeliveredInOrder, InDelivered
<1>9. Holding' /\ DeliveredGone'
  BY <1>2, <1>4 DEF Holding, DeliveredGone, InDelivered, TypeOK
<1>10. DeletedWasDelivered'
  BY <1>1, <1>2, <1>3 DEF DeletedWasDelivered, With, TypeOK
<1> QED BY <1>5, <1>6, <1>7, <1>8, <1>9, <1>10

\* What Answer(q, m) does to the bridge, in the words of the invariant.
LEMMA AnswerAwaiting ==
  ASSUME IInv, NEW q \in Req, NEW m \in Msg \cup {NoMsg}, Answer(q, m)
  PROVE  /\ Awaiting'
         /\ awaited' \subseteq Req
         /\ bridge' \in {"down", "idle", "claiming", "sending", "acking", "ackwait"}
         /\ hand' \in Msg \cup {NoMsg}
         /\ claim' = [claim EXCEPT ![q] = "free"]
         /\ found' = [found EXCEPT ![q] = NoMsg]
         /\ \/ UNCHANGED <<bridge, hand>>
            \/ bridge' = "idle"
            \/ bridge' = "sending" /\ hand' = m /\ m # NoMsg
BY DEF Answer, bridgeVars, IInv, Awaiting, TypeOK

LEMMA ClaimReadInv == ASSUME IInv, NEW q \in Req, ClaimRead(q) PROVE IInv'
<1> USE DEF IInv
<1>1. CASE With("pending") = {}
  <2>1. Answer(q, NoMsg) /\ stale' = stale \ {q}
        /\ UNCHANGED <<table, clark, acks, delivered, faults>>
    BY <1>1 DEF ClaimRead
  <2>2. TypeOK' /\ Awaiting'
    BY <2>1, AnswerAwaiting DEF TypeOK
  <2>3. Current'
    BY <2>1, AnswerAwaiting DEF Current, With, Oldest, TypeOK
  <2>4. Holding'
    BY <2>1, AnswerAwaiting DEF Holding, InDelivered
  <2> QED
    BY <2>1, <2>2, <2>3, <2>4
       DEF Ordered, DeliveredGone, AcksDelivered, InDelivered, DeletedWasDelivered,
           DeliveredInOrder, With
<1>2. CASE With("pending") # {}
  <2>1. PICK m \in Msg : Oldest(m, With("pending")) /\ found' = [found EXCEPT ![q] = m]
    BY <1>2 DEF ClaimRead
  <2>2. /\ claim' = [claim EXCEPT ![q] = "read"]
        /\ stale' = stale \ {q}
        /\ UNCHANGED <<table, clark, acks, delivered, faults, awaited, bridge, hand>>
    BY <1>2 DEF ClaimRead, bridgeVars
  <2>3. TypeOK'
    BY <2>1, <2>2 DEF TypeOK
  <2>4. Current'
    BY <2>1, <2>2 DEF Current, With, Oldest, TypeOK
  <2> QED
    BY <2>2, <2>3, <2>4
       DEF Ordered, Awaiting, Holding, DeliveredGone, AcksDelivered, InDelivered,
           DeletedWasDelivered, DeliveredInOrder, With
<1> QED BY <1>1, <1>2

LEMMA ClaimCommitInv == ASSUME IInv, NEW q \in Req, ClaimCommit(q) PROVE IInv'
<1> USE DEF IInv
<1> DEFINE Rest == UNCHANGED <<clark, acks, delivered, faults>>
<1>0. PICK f : f = found[q]
  OBVIOUS
<1>1. /\ claim[q] = "read" /\ q \notin stale
      /\ table' = [table EXCEPT ![f] = "picked"]
      /\ stale' = {p \in Req : claim[p] = "read"} \ {q}
      /\ Answer(q, f)
      /\ Rest
  BY <1>0 DEF ClaimCommit
<1>2. f \in Msg /\ table[f] = "pending" /\ \A k \in Msg : table[k] = "pending" => f <= k
  BY <1>0, <1>1 DEF Current, Oldest, With
<1>3. /\ Awaiting'
      /\ awaited' \subseteq Req
      /\ bridge' \in {"down", "idle", "claiming", "sending", "acking", "ackwait"}
      /\ hand' \in Msg \cup {NoMsg}
      /\ claim' = [claim EXCEPT ![q] = "free"]
      /\ found' = [found EXCEPT ![q] = NoMsg]
      /\ \/ UNCHANGED <<bridge, hand>>
         \/ bridge' = "idle"
         \/ bridge' = "sending" /\ hand' = f
  BY <1>1, <1>2, AnswerAwaiting
<1>4. TypeOK'
  BY <1>1, <1>2, <1>3 DEF TypeOK
<1>5. \A k \in Msg : table'[k] \in Gone <=> (table[k] \in Gone \/ k = f)
  BY <1>1, <1>2 DEF Gone, TypeOK
<1>6. Ordered'
  <2> SUFFICES ASSUME NEW j \in Msg, NEW k \in Msg
               PROVE  /\ table'[j] \in Gone /\ table'[k] \notin Gone => j < k
                      /\ table'[j] = "pending" /\ table'[k] = "absent" => j < k
    BY DEF Ordered
  <2>1. table'[j] = "pending" /\ table'[k] = "absent" => j < k
    BY <1>1, <1>2 DEF Ordered, TypeOK
  <2>2. ASSUME table'[j] \in Gone, table'[k] \notin Gone PROVE j < k
    <3>1. table[k] \notin Gone /\ k # f
      BY <2>2, <1>5
    <3>2. CASE table[j] \in Gone
      BY <3>1, <3>2 DEF Ordered
    <3>3. CASE j = f
      <4>1. table[k] = "pending" \/ table[k] = "absent"
        BY <3>1 DEF Gone, TypeOK
      <4>2. CASE table[k] = "pending"
        BY <4>2, <3>1, <3>3, <1>2, NType DEF Msg
      <4>3. CASE table[k] = "absent"
        BY <4>3, <3>3, <1>2 DEF Ordered
      <4> QED BY <4>1, <4>2, <4>3
    <3> QED BY <2>2, <1>5, <3>2, <3>3
  <2> QED BY <2>1, <2>2
<1>7. Current'
  BY <1>1, <1>2, <1>3 DEF Current, TypeOK
<1>8. \A i \in DOMAIN delivered : delivered[i] \in Msg /\ delivered[i] < f
  <2> TAKE i \in DOMAIN delivered
  <2>1. delivered[i] \in Msg /\ table[delivered[i]] \in Gone
    BY DEF TypeOK, DeliveredGone
  <2> QED BY <2>1, <1>2 DEF Ordered, Gone
<1>9. Holding'
  <2>1. CASE UNCHANGED <<bridge, hand>>
    BY <2>1, <1>1, <1>5 DEF Holding, InDelivered, TypeOK
  <2>2. CASE bridge' = "idle"
    BY <2>2 DEF Holding
  <2>3. CASE bridge' = "sending" /\ hand' = f
    BY <2>3, <1>1, <1>2, <1>5, <1>8 DEF Holding
  <2> QED BY <1>3, <2>1, <2>2, <2>3
<1>10. DeliveredGone'
  BY <1>1, <1>5 DEF DeliveredGone, TypeOK
<1>11. AcksDelivered' /\ DeliveredInOrder'
  BY <1>1 DEF AcksDelivered, InDelivered, DeliveredInOrder
<1>12. DeletedWasDelivered'
  BY <1>1, <1>2 DEF DeletedWasDelivered, With, TypeOK
<1> QED BY <1>3, <1>4, <1>6, <1>7, <1>9, <1>10, <1>11, <1>12

LEMMA ClaimFailsInv == ASSUME IInv, NEW q \in Req, ClaimFails(q) PROVE IInv'
<1> USE DEF IInv
<1>1. /\ Answer(q, NoMsg) /\ stale' = stale \ {q} /\ faults' \in 0..MaxFaults
      /\ UNCHANGED <<table, clark, acks, delivered>>
  BY NType DEF ClaimFails, Fault, TypeOK
<1>2. TypeOK' /\ Awaiting'
  BY <1>1, AnswerAwaiting DEF TypeOK
<1>3. Current'
  BY <1>1, AnswerAwaiting DEF Current, With, Oldest, TypeOK
<1>4. Holding'
  BY <1>1, AnswerAwaiting DEF Holding, InDelivered
<1> QED
  BY <1>1, <1>2, <1>3, <1>4
     DEF Ordered, DeliveredGone, AcksDelivered, InDelivered, DeletedWasDelivered,
         DeliveredInOrder, With

LEMMA ServeAckInv == ASSUME IInv, NEW m \in Msg, ServeAck(m) PROVE IInv'
<1> USE DEF IInv
<1>1. /\ m \in acks /\ acks' = acks \ {m}
      /\ \/ bridge' = "idle" /\ hand' = NoMsg /\ bridge = "ackwait"
         \/ UNCHANGED <<bridge, hand>>
      /\ UNCHANGED <<clark, claim, found, awaited, delivered>>
  BY DEF ServeAck, bridgeVars
<1>2. faults' \in 0..MaxFaults
  BY NType DEF ServeAck, Fault, TypeOK
<1>3. \/ /\ table' = [table EXCEPT ![m] = "deleted"]
         /\ stale' = {q \in Req : claim[q] = "read"}
      \/ UNCHANGED <<table, stale>>
  BY DEF ServeAck, Outdate
<1>4. InDelivered(m) /\ table[m] \in Gone
  BY <1>1 DEF AcksDelivered, InDelivered, DeliveredGone
<1>5. \A k \in Msg : /\ table'[k] \in Gone <=> table[k] \in Gone
                     /\ table'[k] \in {"pending", "absent"} => table'[k] = table[k]
                     /\ table'[k] = "deleted" => table[k] = "deleted" \/ k = m
  BY <1>3, <1>4 DEF Gone, TypeOK
<1>6. TypeOK'
  BY <1>1, <1>2, <1>3 DEF TypeOK
<1>7. Ordered'
  BY <1>5 DEF Ordered
<1>8. Current'
  BY <1>1, <1>3 DEF Current, With
<1>9. Awaiting'
  BY <1>1 DEF Awaiting
<1>10. Holding' /\ DeliveredGone'
  BY <1>1, <1>5 DEF Holding, InDelivered, DeliveredGone, TypeOK
<1>11. AcksDelivered' /\ DeliveredInOrder'
  BY <1>1 DEF AcksDelivered, InDelivered, DeliveredInOrder
<1>12. DeletedWasDelivered'
  BY <1>1, <1>4, <1>5 DEF DeletedWasDelivered, InDelivered, With
<1> QED BY <1>6, <1>7, <1>8, <1>9, <1>10, <1>11, <1>12

LEMMA DeliverInv == ASSUME IInv, Deliver PROVE IInv'
<1> USE DEF IInv
<1>0. PICK h : h = hand
  OBVIOUS
<1>1. /\ bridge = "sending"
      /\ h \in Msg /\ table[h] \in Gone
      /\ \A i \in DOMAIN delivered : delivered[i] < h
  BY <1>0 DEF Deliver, Holding
<1>2. /\ delivered' = delivered \/ delivered' = Append(delivered, h)
      /\ \/ bridge' = "acking" /\ hand' = h /\ delivered' = Append(delivered, h)
         \/ bridge' = "idle" /\ hand' = NoMsg
      /\ UNCHANGED <<table, clark, claim, found, stale, awaited, acks, faults>>
  BY <1>0 DEF Deliver, queueVars
<1>3. awaited = {}
  BY <1>1 DEF Awaiting
<1>4. delivered \in Seq(Msg)
  BY DEF TypeOK
<1>5. \A i \in DOMAIN delivered : i \in DOMAIN delivered' /\ delivered'[i] = delivered[i]
  BY <1>2, <1>4
<1>6. \A i \in DOMAIN delivered' :
        \/ i \in DOMAIN delivered /\ delivered'[i] = delivered[i]
        \/ /\ i = Len(delivered) + 1 /\ delivered'[i] = h
           /\ \A j \in DOMAIN delivered' : j # i => j \in DOMAIN delivered /\ j < i
  BY <1>2, <1>4
<1>7. delivered' = Append(delivered, h) => InDelivered(h)'
  BY <1>4, <1>1 DEF InDelivered
<1>8. TypeOK'
  <2>1. delivered' \in Seq(Msg)
    BY <1>1, <1>2, <1>4
  <2>2. hand' \in Msg \cup {NoMsg} /\ bridge' \in {"acking", "idle"}
    BY <1>1, <1>2
  <2> QED BY <1>2, <2>1, <2>2 DEF TypeOK
<1>9. Ordered' /\ Current'
  BY <1>2 DEF Ordered, Current, With
<1>10. Awaiting'
  BY <1>2, <1>3 DEF Awaiting
<1>11. Holding'
  BY <1>1, <1>2, <1>7 DEF Holding, InDelivered
<1>12. DeliveredGone'
  BY <1>1, <1>2, <1>6 DEF DeliveredGone
<1>13. AcksDelivered' /\ DeletedWasDelivered'
  BY <1>2, <1>5 DEF AcksDelivered, InDelivered, DeletedWasDelivered, With
<1>14. DeliveredInOrder'
  <2> SUFFICES ASSUME NEW i \in DOMAIN delivered', NEW j \in DOMAIN delivered', i < j
               PROVE  delivered'[i] < delivered'[j]
    BY DEF DeliveredInOrder
  <2>0. i \in Nat /\ j \in Nat /\ Len(delivered) \in Nat
        /\ DOMAIN delivered = 1..Len(delivered)
    BY <1>2, <1>4
  <2>1. i \in DOMAIN delivered /\ delivered'[i] = delivered[i]
    BY <1>6, <2>0
  <2>2. CASE j \in DOMAIN delivered /\ delivered'[j] = delivered[j]
    BY <2>1, <2>2 DEF DeliveredInOrder
  <2>3. CASE delivered'[j] = h
    BY <2>1, <2>3, <1>1
  <2> QED BY <2>2, <2>3, <1>6
<1> QED BY <1>8, <1>9, <1>10, <1>11, <1>12, <1>13, <1>14

\* The other steps leave the table and the deliveries alone and never give the
\* poller a message.
LEMMA QuietInv ==
  ASSUME IInv,
         \/ ClarkCrash \/ ClarkStart \/ Poll \/ Ack \/ Timeout \/ BridgeCrash
         \/ BridgeStart \/ UNCHANGED vars
  PROVE  IInv'
<1> USE DEF IInv
<1>1. UNCHANGED <<table, delivered>>
  BY DEF ClarkCrash, ClarkStart, Poll, Ack, Timeout, BridgeCrash, BridgeStart, vars
<1>2. TypeOK'
  BY NType, NoMsgIsNew
     DEF TypeOK, Holding, Fault, ClarkCrash, ClarkStart, Poll, Ack, Timeout, BridgeCrash,
         BridgeStart, vars, queueVars, bridgeVars
<1>3. Current'
  BY <1>1 DEF Current, With, Oldest, TypeOK, ClarkCrash, ClarkStart, Poll, Ack, Timeout,
              BridgeCrash, BridgeStart, vars, queueVars
<1>4. Awaiting'
  BY DEF Awaiting, ClarkCrash, ClarkStart, Poll, Ack, Timeout, BridgeCrash, BridgeStart,
         vars, queueVars, bridgeVars
<1>5. Holding'
  BY <1>1 DEF Holding, InDelivered, ClarkCrash, ClarkStart, Poll, Ack, Timeout, BridgeCrash,
              BridgeStart, vars, queueVars, bridgeVars
<1>6. AcksDelivered'
  BY <1>1 DEF AcksDelivered, InDelivered, Holding, ClarkCrash, ClarkStart, Poll, Ack, Timeout,
              BridgeCrash, BridgeStart, vars
<1> QED
  BY <1>1, <1>2, <1>3, <1>4, <1>5, <1>6
     DEF Ordered, DeliveredGone, DeletedWasDelivered, DeliveredInOrder, With

\* The invariant of the queue holds at every moment.
THEOREM Invariance == SafeSpec => []IInv
<1>1. IInv /\ [Next]_vars => IInv'
  <2> SUFFICES ASSUME IInv, [Next]_vars PROVE IInv'
    OBVIOUS
  <2>1. CASE Enqueue
    BY <2>1, EnqueueInv
  <2>2. CASE Serve
    BY <2>2, ClaimReadInv, ClaimCommitInv, ClaimFailsInv, ServeAckInv DEF Serve
  <2>3. CASE Deliver
    BY <2>3, DeliverInv
  <2>4. CASE \/ ClarkCrash \/ ClarkStart \/ Poll \/ Ack \/ Timeout \/ BridgeCrash
             \/ BridgeStart \/ UNCHANGED vars
    BY <2>4, QuietInv
  <2> QED BY <2>1, <2>2, <2>3, <2>4 DEF Next
<1> QED BY <1>1, InitInv, PTL DEF SafeSpec

\* Recipients see messages in the order in which clark queued them.
THEOREM InOrder == SafeSpec => []DeliveredInOrder
<1>1. IInv => DeliveredInOrder
  BY DEF IInv
<1> QED BY <1>1, Invariance, PTL

\* No message is sent twice, through crashes, timeouts and concurrent claims.
THEOREM NeverTwice == SafeSpec => []AtMostOnce
<1>1. IInv => AtMostOnce
  <2> SUFFICES ASSUME IInv, NEW i \in DOMAIN delivered, NEW j \in DOMAIN delivered,
                      delivered[i] = delivered[j], i # j
               PROVE  FALSE
    BY DEF AtMostOnce
  <2>1. i \in Nat /\ j \in Nat /\ delivered[i] \in Nat
    BY NType DEF IInv, TypeOK, Msg
  <2>2. i < j \/ j < i
    BY <2>1
  <2> QED BY <2>1, <2>2 DEF IInv, DeliveredInOrder
<1> QED BY <1>1, Invariance, PTL

\* A row is deleted only after its message was sent.
THEOREM KeptUntilDelivered == SafeSpec => []DeletedWasDelivered
<1>1. IInv => DeletedWasDelivered
  BY DEF IInv
<1> QED BY <1>1, Invariance, PTL

=============================================================================
