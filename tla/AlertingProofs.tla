--------------------------- MODULE AlertingProofs ---------------------------
(* Theorems about what the Master is told: of the health monitor, for any    *)
(* set of checkers and any intervals, and of alerts and relays, for any      *)
(* number of them at once and any consoles, while channels come up and the   *)
(* process ends.                                                             *)
EXTENDS Alerts, HealthMonitor, TLAPS

(* Alerts and relays. *)

\* The channels that a delivery at this stage has not come to yet.
Ahead(stage) ==
  CASE stage \in {"render", "wa"} -> Channel
    [] stage = "im" -> {"im", "web"}
    [] stage = "web" -> {"web"}
    [] OTHER -> {}

Shape ==
  [stage : Stages, relay : BOOLEAN, via : SUBSET Channel, owed : SUBSET Channel,
   silent : BOOLEAN, loud : SUBSET {"spoken", "rung"}]

\* What is owed can still be asked: it is ahead, meant, and wired, since a
\* hook that was set stays set.
Owing(j) == job[j].owed \subseteq wired \cap job[j].via \cap Ahead(job[j].stage)

\* Nothing is heard before the consoles are told; then either they speak or
\* the Mac rings.
Heard(j) ==
  /\ job[j].stage \notin {"ring", "done"} => job[j].loud = {}
  /\ job[j].stage = "ring" => job[j].silent /\ job[j].loud = {}
  /\ job[j].stage = "done" =>
       job[j].loud \in IF job[j].silent THEN {{"rung"}} ELSE {{}, {"spoken"}}

IInv == TypeOK /\ \A j \in Job : Owing(j) /\ Heard(j)

\* A step of the life of the process leaves the deliveries alone and takes no
\* channel back.
LEMMA LifeStep ==
  ASSUME TypeOK, Lifecycle \/ SetAlertMode
  PROVE  TypeOK' /\ job' = job /\ wired \subseteq wired'
<1>1. CASE Signal  BY <1>1 DEF Signal, TypeOK, Running
<1>2. CASE RunConsoles  BY <1>2, ConsoleAssumption DEF RunConsoles, TypeOK, Channel
<1>3. CASE WebNew  BY <1>3 DEF WebNew, TypeOK, Channel
<1>4. CASE FirstConsoleEnded  BY <1>4 DEF FirstConsoleEnded, TypeOK
<1>5. CASE Exit  BY <1>5 DEF Exit, TypeOK
<1>6. CASE WaHook  BY <1>6 DEF WaHook, TypeOK, Channel
<1>7. CASE WaSteps  BY <1>7 DEF WaSteps, TypeOK
<1>8. ASSUME NEW c \in Console, ListenFails(c) \/ ConsoleCloses(c) \/ ConsoleStops(c)
      PROVE  TypeOK' /\ job' = job /\ wired \subseteq wired'
  BY <1>8 DEF ListenFails, ConsoleCloses, ConsoleStops, TypeOK
<1>9. CASE SetAlertMode  BY <1>9 DEF SetAlertMode, life, TypeOK
<1> QED  BY <1>1, <1>2, <1>3, <1>4, <1>5, <1>6, <1>7, <1>8, <1>9 DEF Lifecycle

\* A step of a delivery changes that delivery only.
LEMMA JobStep ==
  ASSUME IInv, NEW j \in Job,
         Deliver(j) \/ Alert(j) \/ \E via \in SUBSET Channel : Relay(j, via)
  PROVE  /\ job' \in [Job -> Shape]
         /\ \A k \in Job \ {j} : job'[k] = job[k]
         /\ Owing(j)' /\ Heard(j)'
         /\ UNCHANGED <<life, wired, mode>>
<1>t. job[j] \in Shape
      /\ wired \subseteq Channel /\ DOMAIN job = Job
  BY DEF IInv, TypeOK, Shape
<1>i. Owing(j) /\ Heard(j)  BY DEF IInv
<1>w. ASSUME NEW r \in Shape, job' = [job EXCEPT ![j] = r]
      PROVE  /\ job' \in [Job -> Shape] /\ job'[j] = r
             /\ \A k \in Job \ {j} : job'[k] = job[k]
  BY <1>t, <1>w DEF IInv, TypeOK, Shape
<1>1. ASSUME NEW relay \in BOOLEAN, NEW via \in SUBSET Channel, Begin(j, relay, via),
             UNCHANGED <<life, wired, mode>>
      PROVE  job' \in [Job -> Shape] /\ (\A k \in Job \ {j} : job'[k] = job[k]) /\ Owing(j)' /\ Heard(j)'
  <2> DEFINE r == [NoJob EXCEPT !.relay = relay, !.via = via, !.owed = wired \cap via,
                                !.stage = IF relay THEN "wa" ELSE "render"]
  <2>1. job' = [job EXCEPT ![j] = r]  BY <1>1 DEF Begin
  <2>2. NoJob \in Shape /\ NoJob.loud = {}  BY DEF NoJob, Shape, Stages
  <2>3. /\ r \in Shape /\ r.stage \in {"wa", "render"} /\ r.loud = {}
        /\ r.owed = wired \cap r.via /\ r.via \subseteq Channel
    BY <2>2, <1>t DEF Shape, Stages
  <2>4. job'[j] = r  BY <2>1, <2>3, <1>w
  <2>5. Owing(j)' /\ Heard(j)'  BY <1>1, <2>3, <2>4 DEF Owing, Heard, Ahead
  <2> QED  BY <2>1, <2>3, <2>5, <1>w
<1>2. CASE Alert(j)  BY <1>2, <1>1 DEF Alert
<1>3. CASE \E via \in SUBSET Channel : Relay(j, via)  BY <1>3, <1>1 DEF Relay
<1>4. CASE Rendered(j)
  <2> DEFINE r == [job[j] EXCEPT !.stage = "wa", !.silent = (mode = "silent")]
  <2>1. job' = [job EXCEPT ![j] = r] /\ job[j].stage = "render" /\ UNCHANGED <<life, wired, mode>>
    BY <1>4, <1>t DEF Rendered
  <2>2. r \in Shape  BY <1>t DEF Shape, Stages
  <2>3. Owing(j)' /\ Heard(j)'  BY <2>1, <2>2, <1>w, <1>t, <1>i DEF Owing, Heard, Ahead, Shape
  <2> QED  BY <2>1, <2>2, <2>3, <1>w
<1>5. CASE Message(j)
  <2> DEFINE c == job[j].stage
             r == [job[j] EXCEPT !.stage = After(c), !.owed = Asked(j, c)]
  <2>1. job' = [job EXCEPT ![j] = r] /\ c \in {"wa", "im"} /\ UNCHANGED <<life, wired, mode>>
    BY <1>5, <1>t DEF Message
  <2>2. /\ After(c) \in Stages /\ After(c) \in {"im", "web"}
        /\ Asked(j, c) \subseteq wired \cap job[j].via \cap Ahead(After(c))
    BY <2>1, <1>i DEF After, Asked, Owing, Ahead, Channel, Stages
  <2>3. r \in Shape  BY <2>2, <1>t DEF Shape, Asked
  <2>4. Owing(j)' /\ Heard(j)'  BY <2>1, <2>2, <2>3, <1>w, <1>t, <1>i DEF Owing, Heard, Shape
  <2> QED  BY <2>1, <2>3, <2>4, <1>w
<1>6. CASE Broadcast(j)
  <2> DEFINE silent == job[j].silent
             loud == IF (~job[j].relay /\ ~silent) /\ "web" \in wired THEN {"spoken"} ELSE {}
             r == [job[j] EXCEPT !.stage = IF silent THEN "ring" ELSE "done",
                                 !.owed = Asked(j, "web"), !.via = {}, !.loud = loud]
  <2>1. job' = [job EXCEPT ![j] = r] /\ job[j].stage = "web" /\ UNCHANGED <<life, wired, mode>>
    BY <1>6, <1>t DEF Broadcast, Tell
  <2>2. Asked(j, "web") = {}  BY <2>1, <1>i DEF Asked, Owing, Ahead
  <2>3. r \in Shape  BY <2>2, <1>t DEF Shape, Stages
  <2>4. Owing(j)' /\ Heard(j)'  BY <2>1, <2>2, <2>3, <1>w, <1>t DEF Owing, Heard, Ahead, Shape
  <2> QED  BY <2>1, <2>3, <2>4, <1>w
<1>7. CASE Ring(j)
  <2> DEFINE r == [job[j] EXCEPT !.stage = "done", !.loud = job[j].loud \cup {"rung"}]
  <2>1. job' = [job EXCEPT ![j] = r] /\ job[j].stage = "ring" /\ UNCHANGED <<life, wired, mode>>
    BY <1>7, <1>t DEF Ring
  <2>2. r \in Shape  BY <1>t DEF Shape, Stages
  <2>3. Owing(j)' /\ Heard(j)'  BY <2>1, <2>2, <1>w, <1>t, <1>i DEF Owing, Heard, Ahead, Shape
  <2> QED  BY <2>1, <2>2, <2>3, <1>w
<1>8. UNCHANGED <<life, wired, mode>>
  BY DEF Deliver, Rendered, Message, Broadcast, Tell, Ring, Alert, Relay
<1> QED  BY <1>2, <1>3, <1>4, <1>5, <1>6, <1>7, <1>8 DEF Deliver

LEMMA InvStep == IInv /\ [Next]_vars => IInv'
<1> SUFFICES ASSUME IInv, [Next]_vars PROVE IInv'  OBVIOUS
<1>1. CASE Lifecycle \/ SetAlertMode
  <2>1. TypeOK' /\ job' = job /\ wired \subseteq wired'  BY <1>1, LifeStep DEF IInv
  <2> QED  BY <2>1 DEF IInv, Owing, Heard
<1>2. ASSUME NEW j \in Job,
             Deliver(j) \/ Alert(j) \/ \E via \in SUBSET Channel : Relay(j, via)
      PROVE  IInv'
  <2>1. /\ job' \in [Job -> Shape]
        /\ \A k \in Job \ {j} : job'[k] = job[k]
        /\ Owing(j)' /\ Heard(j)'
        /\ UNCHANGED <<life, wired, mode>>
    BY <1>2, JobStep
  <2>2. TypeOK'  BY <2>1 DEF IInv, TypeOK, life, Shape
  <2>3. \A k \in Job \ {j} : Owing(k)' /\ Heard(k)'  BY <2>1 DEF IInv, Owing, Heard
  <2> QED  BY <2>1, <2>2, <2>3 DEF IInv
<1>3. CASE UNCHANGED vars  BY <1>3 DEF vars, life, IInv, TypeOK, Owing, Heard
<1> QED  BY <1>1, <1>2, <1>3 DEF Next

LEMMA InitInv == Init => IInv
<1> SUFFICES ASSUME Init PROVE IInv  OBVIOUS
<1>1. TypeOK
  <2>1. NoJob \in Shape  BY DEF NoJob, Shape, Stages
  <2> QED  BY <2>1 DEF Init, TypeOK, Shape
<1>2. ASSUME NEW j \in Job PROVE Owing(j) /\ Heard(j)
  <2>1. job[j].stage = "none" /\ job[j].owed = {} /\ job[j].loud = {}  BY DEF Init, NoJob
  <2> QED  BY <2>1 DEF Owing, Heard
<1> QED  BY <1>1, <1>2 DEF IInv

\* The inductive invariant of the deliveries holds throughout.
THEOREM Invariance == Spec => []IInv
  BY InitInv, InvStep, PTL DEF Spec

\* Every variable keeps its type.
THEOREM TypeCorrect == Spec => []TypeOK
<1>1. IInv => TypeOK  BY DEF IInv
<1> QED  BY <1>1, Invariance, PTL

\* "redundancy" (alert.go:155): whatever fails, comes up or dies meanwhile, a
\* delivery that has ended has asked every channel wired when it began.
THEOREM EveryChannelAsked == Spec => []EveryWiredChannel
<1>1. IInv => EveryWiredChannel  BY DEF IInv, EveryWiredChannel, Owing, Ahead
<1> QED  BY <1>1, Invariance, PTL

\* However often the mode is changed meanwhile, an alert either rings the
\* Master or is spoken by the consoles, as the mode was when it was rendered.
THEOREM OneModeHeard == Spec => []OneMode
<1>1. ASSUME IInv, NEW j \in Job
      PROVE  /\ job[j].loud # {"spoken", "rung"}
             /\ job[j].stage = "done" => ("rung" \in job[j].loud <=> job[j].silent)
  <2>1. "rung" # "spoken" /\ job[j].silent \in BOOLEAN  BY <1>1 DEF IInv, TypeOK
  <2>2. Heard(j)  BY <1>1 DEF IInv
  <2>3. CASE job[j].stage # "done"
    <3>1. job[j].loud = {}  BY <2>2, <2>3 DEF Heard
    <3> QED  BY <2>3, <3>1
  <2>4. CASE job[j].stage = "done" /\ job[j].silent
    <3>1. job[j].loud = {"rung"}  BY <2>2, <2>4 DEF Heard
    <3> QED  BY <2>1, <2>4, <3>1
  <2>5. CASE job[j].stage = "done" /\ ~job[j].silent
    <3>1. job[j].loud = {} \/ job[j].loud = {"spoken"}  BY <2>2, <2>5 DEF Heard
    <3> QED  BY <2>1, <2>5, <3>1
  <2> QED  BY <2>1, <2>3, <2>4, <2>5
<1>2. IInv => OneMode  BY <1>1 DEF OneMode
<1> QED  BY <1>2, Invariance, PTL

-----------------------------------------------------------------------------
(* The health monitor. *)

\* Ages stay ages, and age at least as fast as they should.
LEMMA LaterType ==
  ASSUME NEW age \in Age \cup {None}, NEW d \in 1..Gap
  PROVE  /\ Later(age, d) \in Age \cup {None}
         /\ age = None <=> Later(age, d) = None
  BY MonitorConstants DEF Later, Age

LEMMA OutcomeType ==
  ASSUME NEW res \in [Checker -> Reply], NEW c \in Checker
  PROVE  Outcome(res, c) \in Reply
  BY DEF Outcome, Reply

LEMMA DownForType ==
  ASSUME MonitorTypeOK, NEW c \in Checker, NEW d \in 1..Gap, NEW o \in Reply
  PROVE  /\ DownFor(o, c, d) \in Age \cup {None}
         /\ o = "healthy" => DownFor(o, c, d) = None
         /\ Failing(o) => DownFor(o, c, d) # None
         /\ o = "unknown" => (DownFor(o, c, d) = None <=> downFor[c] = None)
<1>1. downFor[c] \in Age \cup {None}  BY DEF MonitorTypeOK
<1>2. /\ Later(downFor[c], d) \in Age \cup {None}
      /\ downFor[c] = None <=> Later(downFor[c], d) = None
  BY <1>1, LaterType
<1>3. 0 \in Age /\ 0 # None  BY MonitorConstants DEF Age
<1> QED  BY <1>2, <1>3 DEF DownFor, Failing, Reply

\* One step for one checker: what a poll makes of its part of the state.
LEMMA PollStep ==
  ASSUME NEW d \in 1..Gap, NEW res \in [Checker -> Reply], Poll(d, res),
         NEW c \in Checker
  PROVE  LET o == Outcome(res, c)
             push == Push(o, c, d, (hour + d) % DayLength)
         IN /\ prev'[c] = Prev(o, c)
            /\ downFor'[c] = DownFor(o, c, d)
            /\ since'[c] = IF push # "none" THEN 0 ELSE Later(since[c], d)
            /\ told'[c] = IF push # "none" THEN push ELSE told[c]
            /\ probe' = res
            /\ Outcome(probe', c) = o
  BY DEF Poll, Outcome

LEMMA TypeStep ==
  ASSUME MonitorTypeOK, NEW d \in 1..Gap, NEW res \in [Checker -> Reply], Poll(d, res)
  PROVE  MonitorTypeOK'
<1>1. hour' \in 0..(DayLength - 1)
  <2>1. hour' = (hour + d) % DayLength  BY DEF Poll
  <2>2. hour \in Int /\ d \in Int  BY MonitorConstants DEF MonitorTypeOK
  <2> QED  BY <2>1, <2>2, MonitorConstants
<1>2. probe' \in [Checker -> Reply]  BY DEF Poll
<1>3. ASSUME NEW c \in Checker
      PROVE  /\ Prev(Outcome(res, c), c) \in {"none", "healthy", "unhealthy"}
             /\ DownFor(Outcome(res, c), c, d) \in Age \cup {None}
             /\ (IF Push(Outcome(res, c), c, d, (hour + d) % DayLength) # "none"
                 THEN 0 ELSE Later(since[c], d)) \in Age \cup {None}
             /\ Push(Outcome(res, c), c, d, (hour + d) % DayLength) \in {"none", "up", "down"}
             /\ Prev(Outcome(res, c), c) = "unhealthy"
                  <=> DownFor(Outcome(res, c), c, d) # None
  <2>1. Outcome(res, c) \in Reply  BY OutcomeType
  <2>2. prev[c] \in {"none", "healthy", "unhealthy"}  BY DEF MonitorTypeOK
  <2>3. prev[c] = "unhealthy" <=> downFor[c] # None  BY DEF MonitorTypeOK
  <2>4. Later(since[c], d) \in Age \cup {None}
    <3>1. since[c] \in Age \cup {None}  BY DEF MonitorTypeOK
    <3> QED  BY <3>1, LaterType
  <2>5. 0 \in Age  BY MonitorConstants DEF Age
  <2>6. Prev(Outcome(res, c), c) \in {"none", "healthy", "unhealthy"}
    BY <2>2 DEF Prev
  <2>7. Push(Outcome(res, c), c, d, (hour + d) % DayLength) \in {"none", "up", "down"}
    BY DEF Push
  <2>8. Prev(Outcome(res, c), c) = "unhealthy" <=> DownFor(Outcome(res, c), c, d) # None
    BY <2>1, <2>3, DownForType DEF Prev, Failing, Reply
  <2> QED  BY <2>1, <2>4, <2>5, <2>6, <2>7, <2>8, DownForType
<1>4. /\ prev' \in [Checker -> {"none", "healthy", "unhealthy"}]
      /\ downFor' \in [Checker -> Age \cup {None}]
      /\ since' \in [Checker -> Age \cup {None}]
  BY <1>3 DEF Poll
<1>5. told' \in [Checker -> {"none", "up", "down"}]
  <2>1. told \in [Checker -> {"none", "up", "down"}]  BY DEF MonitorTypeOK
  <2> QED  BY <1>3, <2>1 DEF Poll
<1>6. \A c \in Checker : prev'[c] = "unhealthy" <=> downFor'[c] # None
  BY <1>3, PollStep
<1> QED  BY <1>1, <1>2, <1>4, <1>5, <1>6 DEF MonitorTypeOK

-----------------------------------------------------------------------------
\* The variables keep their types, for any checkers and intervals.
THEOREM MonitorTypes == MonitorSpec => []MonitorTypeOK
<1>1. MonitorInit => MonitorTypeOK  BY MonitorConstants DEF MonitorInit, MonitorTypeOK, Reply
<1>2. MonitorTypeOK /\ [MonitorNext]_monitor => MonitorTypeOK'
  <2> SUFFICES ASSUME MonitorTypeOK, [MonitorNext]_monitor PROVE MonitorTypeOK'  OBVIOUS
  <2>1. CASE MonitorNext  BY <2>1, TypeStep DEF MonitorNext
  <2>2. CASE UNCHANGED monitor  BY <2>2 DEF monitor, MonitorTypeOK
  <2> QED  BY <2>1, <2>2
<1> QED  BY <1>1, <1>2, PTL DEF MonitorSpec

\* The Master never goes on believing that something is down which the monitor
\* has seen recover.
THEOREM RecoveryIsReported == MonitorSpec => []RecoveryReported
<1>1. MonitorInit => RecoveryReported  BY DEF MonitorInit, RecoveryReported
<1>2. MonitorTypeOK /\ RecoveryReported /\ [MonitorNext]_monitor => RecoveryReported'
  <2> SUFFICES ASSUME MonitorTypeOK, RecoveryReported, [MonitorNext]_monitor,
                      NEW c \in Checker, told'[c] = "down"
               PROVE  prev'[c] = "unhealthy"
    BY DEF RecoveryReported
  <2>1. ASSUME NEW d \in 1..Gap, NEW res \in [Checker -> Reply], Poll(d, res)
        PROVE  prev'[c] = "unhealthy"
    <3> DEFINE o == Outcome(res, c)
    <3>1. o \in Reply  BY OutcomeType
    <3>2. prev'[c] = Prev(o, c)  BY <2>1, PollStep
    <3>3. told'[c] = IF Push(o, c, d, (hour + d) % DayLength) # "none"
                     THEN Push(o, c, d, (hour + d) % DayLength) ELSE told[c]
      BY <2>1, PollStep
    <3>4. told[c] = "down" => prev[c] = "unhealthy"  BY DEF RecoveryReported
    <3>5. CASE Failing(o)  BY <3>2, <3>5 DEF Prev, Failing
    <3>6. CASE o = "unknown"
      <4>1. Push(o, c, d, (hour + d) % DayLength) = "none"
        BY <3>6 DEF Push, Failing
      <4> QED  BY <4>1, <3>2, <3>3, <3>4, <3>6 DEF Prev
    <3>7. CASE o = "healthy"
      <4>1. Push(o, c, d, (hour + d) % DayLength) # "down"
        BY <3>7 DEF Push, Failing
      <4>2. told[c] = "down" /\ Push(o, c, d, (hour + d) % DayLength) = "none"
        BY <4>1, <3>3
      <4>3. prev[c] = "unhealthy"  BY <4>2, <3>4
      <4> QED  BY <4>2, <4>3, <3>7 DEF Push
    <3> HIDE DEF o
    <3> QED  BY <3>1, <3>5, <3>6, <3>7 DEF Reply, Failing
  <2>2. CASE MonitorNext  BY <2>1, <2>2 DEF MonitorNext
  <2>3. CASE UNCHANGED monitor  BY <2>3 DEF monitor, RecoveryReported
  <2> QED  BY <2>2, <2>3
<1> QED  BY <1>1, <1>2, MonitorTypes, PTL DEF MonitorSpec

\* No outage is silent for longer than a reminder interval once it has lasted
\* one.
THEOREM OutageIsReported == MonitorSpec => []OutageReported
<1>1. MonitorInit => OutageReported
  BY DEF MonitorInit, OutageReported, Outcome, Failing
<1>2. MonitorTypeOK /\ OutageReported /\ [MonitorNext]_monitor => OutageReported'
  <2> SUFFICES ASSUME MonitorTypeOK, OutageReported, [MonitorNext]_monitor, NEW c \in Checker,
                      Failing(Outcome(probe', c)), AtLeast(downFor'[c], Remind)
               PROVE  since'[c] # None /\ ~AtLeast(since'[c], Remind)
    BY DEF OutageReported, Outcome, AtLeast
  <2>1. ASSUME NEW d \in 1..Gap, NEW res \in [Checker -> Reply], Poll(d, res)
        PROVE  since'[c] # None /\ ~AtLeast(since'[c], Remind)
    <3> DEFINE o == Outcome(res, c)
               push == Push(o, c, d, (hour + d) % DayLength)
    <3>1. Failing(o)  BY <2>1, PollStep
    <3>2. o \in Reply  BY OutcomeType
    <3>3. AtLeast(DownFor(o, c, d), Remind)  BY <2>1, PollStep
    <3>4. since'[c] = IF push # "none" THEN 0 ELSE Later(since[c], d)
      BY <2>1, PollStep
    <3>5. CASE push # "none"
      BY <3>4, <3>5, MonitorConstants DEF AtLeast
    <3>6. CASE push = "none"
      <4>1. ~Due(o, DownFor(o, c, d), Later(since[c], d), (hour + d) % DayLength)
        BY <3>1, <3>6 DEF Push, Failing
      <4>2. DownFor(o, c, d) \in Age  BY <3>1, <3>2, DownForType
      <4>3. DownFor(o, c, d) >= Grace
        BY <3>3, <4>2, MonitorConstants DEF AtLeast, Age
      <4>4. ~(Later(since[c], d) = None \/ AtLeast(Later(since[c], d), Remind))
        BY <4>1, <4>3, <3>1, <3>3 DEF Due, Failing, AtLeast
      <4> QED  BY <4>4, <3>4, <3>6
    <3> QED  BY <3>5, <3>6
  <2>2. CASE MonitorNext  BY <2>1, <2>2 DEF MonitorNext
  <2>3. CASE UNCHANGED monitor
    BY <2>3 DEF monitor, OutageReported, Outcome, AtLeast
  <2> QED  BY <2>2, <2>3
<1> QED  BY <1>1, <1>2, MonitorTypes, PTL DEF MonitorSpec

\* One root cause yields one alert: while the checker it depends on fails,
\* nothing is pushed about a checker.
THEOREM OneAlert == MonitorSpec => OneAlertPerCause
<1>1. MonitorTypeOK /\ [MonitorNext]_monitor =>
        [\A c \in Checker :
           DependsOn[c] # None /\ Failing(probe'[DependsOn[c]]) => since'[c] # 0]_monitor
  <2> SUFFICES ASSUME MonitorTypeOK, MonitorNext, NEW c \in Checker,
                      DependsOn[c] # None, Failing(probe'[DependsOn[c]])
               PROVE  since'[c] # 0
    OBVIOUS
  <2>1. PICK d \in 1..Gap, res \in [Checker -> Reply] : Poll(d, res)  BY DEF MonitorNext
  <2>2. probe' = res  BY <2>1 DEF Poll
  <2>3. Outcome(res, c) = "unknown"  BY <2>2 DEF Outcome, Failing
  <2>4. Push("unknown", c, d, (hour + d) % DayLength) = "none"  BY DEF Push, Failing
  <2>5. since'[c] = Later(since[c], d)  BY <2>1, <2>3, <2>4, PollStep
  <2>6. since[c] \in Age \cup {None}  BY DEF MonitorTypeOK
  <2> QED  BY <2>5, <2>6, MonitorConstants DEF Later, Age
<1> QED  BY <1>1, MonitorTypes, PTL DEF MonitorSpec, OneAlertPerCause
=============================================================================
