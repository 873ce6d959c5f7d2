# Verification of clark

TLA+ specifications of clark, the TLC configurations that check them on small
instances, and the TLAPS proofs about them. Every definition is translated from
the Go source; `PROJECT.json` says which lines each one stands for, which runs
check which properties, and which plausible bug of the code (a mutant) makes
each property fail.

Contents: [the system](#1-the-system) ·
[the modules](#2-the-modules-and-how-they-correspond-to-the-code) ·
[the runs](#3-the-runs) · [the proofs](#4-the-proofs) ·
[where the code differs from what is said of it](#5-where-the-code-differs-from-what-is-said-of-it) ·
[what is not modelled](#6-what-is-not-modelled) · [the plan](#7-the-plan) ·
[how to run it](#8-how-to-run-it)

## 1. The system

clark is a self-hosted personal assistant. One Go process, `clark run`, answers
the WhatsApp and iMessage messages of a Master and of the people he has admitted
(VIPs) with a local language model, runs scheduled jobs, watches the health of
its own tools and serves a web console. A second program, the iMessage bridge,
runs on a Mac, because only there the Messages database can be read. One-shot
commands (`clark toggle`, `clark vip`, ...) write to the same SQLite file.

### Components

| component | state it keeps | operations | correct when |
|---|---|---|---|
| Reply dispatcher `gateway/handler.go` | map sender → channel, one goroutine per sender, a shared context | enqueue, receive, retire when idle, close | per sender: nothing lost, repeated or reordered; one worker; close drains |
| Front door `gateway/handler.go`, `echo.go`, `whatsapp/handler.go` | dedup map, last-alert map, ids of Clark's own messages | OnEvent, Handle (dedup, echo, gate, urgent phrase, fast path, acknowledge, enqueue) | each message handled once, no loop on Clark's own words, nobody left without an answer |
| iMessage inbound `cmd/imessage-bridge/watcher.go`, `state.go`, `imessage/server.go` | ROWID watermark in memory and in a file, clark's dedup map | scan, POST, persist, serve, restart of either side | no row is skipped, none enters twice |
| iMessage outbound `imessage/queue.go`, `store/imessage.go`, `poller.go` | `imessage_outbound` table, requests in flight | enqueue, claim, send, acknowledge | at most once, in order, not deleted before sent |
| Scheduler `scheduler/scheduler.go`, `store/schedules.go` | `schedules` table, cron entries, timers | Start, UpsertFull, Rename, Delete, fire | memory follows the table, a one-time job runs once |
| Tool health `health/health.go`, `app/health.go` | what was last seen and last pushed, per checker | Poll | recoveries and long outages are told, once per cause |
| Status, circle, grants `assistant.go`, `vip.go`, `commands.go` | five tables; each process's cached status, settings, members and overrides; the model client's flag; a default list | SetStatus, SetThinking and its like, SetVIPStatus, Add/Delete/Clear VIP, grants, Reload | what is stored is what the service acts on |
| Assistant turn `assistant.go` | history, paused iterations, loaded protocols | reply: disclosure, tool loop, nudges, continue | a turn ends, and says truly what it did |
| Alerts `alert/alert.go` | the hook of each channel, the alert mode | Deliver, RelayVia, SetAlertMode | every channel wired is asked, one reading of the mode decides the noise |
| Process lifecycle `app/app.go`, `whatsapp/run.go`, `web/server.go`, `imessage/adapter.go` | context, transports, error channels, pidfile | Run, runConsoles, shutdown | the process ends when it should, whoever is still at work |
| Web chat sessions `store/sessions.go`, `web/rest.go`, `chat.go`, `hub.go`, `app.js` | session table, histories, sockets, each console's list and choice | list, create, rename, delete, chat turn, notices | a session's history is its own, a console is on a session that exists |
| Voice daemons `voice/*`, `web/voice.go` | child process, its pipes, back-off, failure counter, transcription slots | start, synthesize, transcribe, time out, fail over | everybody hears his own words, every call returns |
| Hands-free loop `app.js` | `voiceOn`, the toggle as shown, recogniser, recorder, clips, chain of sentences, chat frames | wake word, record, speak, alert, type | one voice at a time, `voiceOn` is the Master's after every alert, the loop never wedges |
| Web console: authentication, throttles, views | logins, token buckets | login, REST | limits hold |
| Model clients, media, search, bridge actions, configuration, logging, installation | none worth a property | | |

### How they interact

A transport (WhatsApp's event goroutines, or the bridge's HTTP requests) calls
`Handler.Handle`; after the filters the message goes to the dispatcher's channel
for its sender, whose worker calls the assistant, which calls the model and the
tools, and the reply goes back through the transport's messenger. Tools write
the tables of the scheduler, the circle and the outbound queue; the bridge's
poller takes messages from that queue by HTTP. The scheduler starts assistant
turns of its own; the health monitor and the urgent phrase go to the alert
service, which sends over both transports and through the console's hub to every
open page. The page's scripts talk to the process by REST, by one chat socket and
by the speech endpoints, behind which Python daemons hold the voice models. A
one-shot command changes the tables and sends SIGHUP to the running process, whose
reload goroutine reads them again.

### What is hard

Goroutines meet in the dispatcher, the dedup and alert maps, the scheduler and
the setters; between two critical sections, and around every call to a store, a
transport or the model, anything else may run. Both iMessage processes crash and
restart with state on two disks, and HTTP requests time out while the other side
still works on them. WhatsApp delivers again after a reconnect and brings
Clark's own messages back as the Master's. One-time jobs race with edits and
with the clock. Status and members live in tables, in the service's memory and
in the command's memory. A page of the console runs dozens of callbacks that
share a few flags: media that ends or is cut, recognisers that stop, timers,
frames, answers to requests overtaken by later ones. A voice daemon may die, hang,
or be killed while the reader of an earlier call still holds its pipe.
`PROJECT.json` lists each such place under `hazards`, with the properties aimed
at it.

## 2. The modules and how they correspond to the code

### OrderedReplies (abstract) and Dispatcher

`OrderedReplies` is what the dispatcher promises: a bounded mailbox per sender,
one message in service at a time, and a close that refuses new messages and ends
when everything accepted has been served. Nothing else is visible to a sender.

`Dispatcher` is `handler.go` from `enqueue` to `close`. Each `d.mu` section is one
action: `Enqueue` (look up or create the channel, start the worker, the
non-blocking send with its acknowledgement or apology when the buffer is full),
`Retire`/`KeepWorking` (the idle timer, which re-checks the buffer under the
lock), `StopAccepting`, `Cancel` (after the wait group). `Receive`, `Exit` and
the steps of `Process` (busy note, urgent alert, model, reply) run outside it.
Channels are identities that are never used again (`Chan`); `queues[s]` is the
registered one. `Implements` maps a mailbox to the buffer of the registered
channel: workers, retirement and recreation disappear. The empty-message branch
of `enqueue` is unreachable, since `Handle` never enqueues one, and is left out.

### Gateway

The front door as WhatsApp drives it: staleness filter, the tracker of Clark's
own message ids (capacity and sweep), the dedup map with its stamps, the prefix check, the gate
(status or Master), the urgent phrase with its cooldown, the fast path, the
acknowledgement and the queue. A goroutine holds an item and a program counter;
each lock is one step. The dispatcher appears as the mailboxes of
`OrderedReplies`, which `Dispatcher` is shown to implement. What Clark sends to
the Master's chat may come back, before or after its id is tracked, twice, and
after a restart. A message has the same contents however often it is delivered (`form`).
`Dedup` looks up and inserts under one lock, `Evict` takes it again, reads the clock again
and drops what is older than `DedupTTL`; so a message delivered again in the same life can
enter again after that time, and `OnceInWindow` says exactly when. An attachment without
a caption is acknowledged at the door when its bytes could not be had (`Collected`), and by
the worker when it cannot be read.

### IMessageInbound

Rows appear in `chat.db`; the watcher scans above the watermark, posts row by
row and persists the watermark; clark's server drops stale rows, holds a request
while media is converted, and hands it to a handler that remembers ids for a
while: `Remember` looks an id up and stores it in one lock section, `Evict` drops the
old ones in a second, as `Handle` does, so requests meet between the two. A request
knows whether the bridge has given it up (`lost`). Faults: either process dies, a POST is given up while clark works on it,
the state file cannot be written. Rows are of a few kinds (text, no handle,
unreadable attachment, the Master's own chat, filtered out by the query). Time is
counted in units of the staleness limit.

### IMessageOutbound

The outbound table, and claims as SQLite transactions in two steps (read the
oldest pending row; upgrade to a write, which fails when another commit has
made the snapshot stale). A request the bridge has given up may still commit.

### Scheduler

Rows, cron entries and timers. A call takes its real steps: read and validate,
store, re-read, and only then register under the mutex (`Resync`), while other
calls, the clock, a firing timer and the end of a job come between. `strays` are
timers that no map holds any more and that fire all the same. `app.go:798` starts `Start` on a
goroutine of its own, and nothing keeps a console or a model's tool from calling before it has listed
the rows, or between the listing and the mutex: calls come in every phase. `Note` keeps the history
the properties need: ids whose row changed while its job ran (`edited`), ids that a call registered
before `Start` had loaded them or whose row it changed after `Start` had listed it (`early`), and
whether two calls have been in flight at once (`raced`). Goroutines are alike, so a call is taken by the
first idle caller. Here, in Circle and in HandsFree the initial predicate, the
next-state relation and the specification carry the component's name (`ScheduleInit`,
`LoopNext`, ...), since one module of proofs extends two components.

### HealthMonitor

One poll is one action, as in the code, where a single goroutine polls. Ages
replace times: only how long a checker has been down, and how long ago it was
last pushed, matter, up to the reminder interval.

### Circle

Status, a scalar setting, members, overrides and grants, in the tables and in two
processes' memories. The setting stands for thinking, context, alert mode and
history limit, which are stored and shown alike; thinking is also told to the model's
client, after the lock is released (`think`). A setter is a sequence of steps with no
lock around it, as in the code (`SetStatus` reads the cached status, writes the row,
deletes the overrides, empties the map, sets the cache, keeps the away window and,
where the digest's sender is wired, starts a digest when the window closes).
`VIP.Load` reads the rows, empties the maps and fills them one by one. The command loads when it
starts and signals when it ends: before the pidfile nobody hears it, between the
pidfile and `signal.Notify` the signal kills the service, afterwards the channel
holds one. `raced` and `muddled` remember that calls have overlapped.

### Turn

One reply. A worker's turn takes its steps between the locks and transactions of the
code: save the message, look for a paused iteration, abandon or resume it, decide
whether the excuse is due, one action per round of the tool loop, repair the excuse,
save the reply. What the model returns is one of the cases the loop tells apart. A
WhatsApp or iMessage chat has one worker, as `Dispatcher` shows; a chat of the web
console may have several (`Serial` sets them apart). `runToolLoopStream` and
`replyStream` are the same control a second time. Histories: `since` counts the entries saved
since a visitor was last given the excuse in any form, up to the window; a turn is `owed`
it if by that count none is left in the window when the turn looks; `unexcused` are the
answers said although it was owed; `last` is how a chat's last turn ended. The Master's
context does not change; views and offers to continue count as no answer.

### Alerts

App.Run around the transports, and what alerts and relays do meanwhile. The process:
WhatsApp on its goroutine (store, hook, connection, drain), the consoles started after
the voices are warm, the first result that ends Run and cancels the context, the exit
that waits for nobody. A delivery goes channel by channel; each hook is looked at when
its turn comes and is "owed" if it was wired when the delivery began. The hooks are
plain fields written once, while others read them without synchronisation; a one-word
function value is taken as wired once its writing is visible.

### Speech

A call on a resident daemon (`piper.go` or `fasterwhisper.go`, or Kokoro with piper behind
it, told apart by `engine`), made by a speech endpoint, by a binary frame of the chat
socket or for a voice note in a message, which takes no slot: the slot, the mutex, the
start with its back-off, the write, the frame read by a goroutine that outlives the
call when the call is abandoned, the kill. A process is an identity; what it has written
is a sequence of the calls it answers. Nondeterminism stands for undefined
behaviour: an orphan reader follows the engine's field without the mutex and may see the old
process, the next one, or none (`Deref`, `Steal`). Each call's
context may end at any time and takes the process started under it along
(`Reap`).

### HandsFree

The voice half of `app.js`: one action per callback or frame handler, run to its next
await, as a page's single thread does. Sentences are chained promises: a link waits for
the link before it, looks at the generation, decodes, looks again, plays. A stopped
clip reports later (`pause` is at once, `error` and `onend` are events of their own), and an
old recogniser may report after a new one has been started. `wish` is what the Master last
set voice to, `voiceOn` the variable, `checked` and `disabled` the toggle as it is shown:
drawn off when the page loads, changed by a click, by a refusal of the microphone and by an
alert, and redrawn from `voiceOn` by every state frame, poll and change of the settings
(`RenderVoiceMeta`; a state may also name no engine, as the page outlives the server).

### WebChat

The sessions of the web chat, from the table to the page. The REST handlers take one
statement of the store at a time (`EnsureDefaultWebSession` is four, without a
transaction), a chat turn looks at its session, names it, saves and, up to two minutes
later, answers; the hub queues a notice per page; a page asks for the list, and each
answer may move it. Several requests of one page may be answered in any
order. `excused` remembers pages that could not know: they missed a notice, saw a
request fail, or had two list answers cross. `cut` remembers sessions deleted
under a turn or an adoption at work.

## 3. The runs

Passing runs. The bounds are the smallest at which every action fires and every
mutant is found; larger ones tried while the models were written are given where
they were feasible.

| run | what it shows | instance | why that is enough |
|---|---|---|---|
| dispatcher | `NothingLostOrReordered`, `OneWorkerPerSender`, `CloseDrains`, `CloseReturns`, and the refinement of `OrderedReplies` with its fairness (`Implements`) | 2 senders, 3 messages, 2 channels, a queue of 1 | a sender retires and is recreated while another is served and close comes; the proofs cover all sizes; no symmetry under liveness |
| imessage_inbound | `NothingSkipped`, `EnteredOnce`, `EveryRowSettled` | 5 rows, one there before the bridge, one the query leaves out, 4 ticks, 1 fault of any kind | a row is posted twice, in two lives of a process, and the dedup entry and the staleness limit both expire; 290 000 states; the proofs cover all sizes |
| imessage_outbound | `DeliveredInOrder` (and with it at most once), `DeletedWasDelivered`, `QueueDrains` | 3 messages, 2 overlapping claims, 4 faults | a claim that was given up meets its successor; the proofs cover all sizes |
| gateway | `OnceInWindow`, `EchoesIgnored`, `AlertSpacing`, `NobodyGhosted` | 2 goroutines, Master and a VIP, 2 messages and 2 entries of them past the dedup, a restart, an echo, 2 ticks; queue, tracker, cooldown and dedup window of 1 | every limit is reached; two deliveries of one message interleave at every lock, and a message enters again once a later eviction has dropped it; the proofs cover all sizes |
| scheduler | `Synced`, `OnceRunsOnce`, `MissedStaysVisible`, `OnceSettles` | 2 names, 2 callers, 2 calls, the first of them possibly before `Start` has loaded the table (`MaxEarly`), a row from an earlier life, 2 ticks, a crash | an edit meets the timer, the end of the job, the restart and the loading; 376 000 states; with both calls early the safety properties hold too (1.26 million); the proofs cover all sizes |
| health_monitor | `RecoveryReported`, `OutageReported` | 2 checkers, one suppressed by the other, a day of 6 hours | all answers at all hours; the state is finite without a bound on time |
| circle | `ChangesGoLive`, `AwayPaired`, `ChangesArrive` | 2 people, 1 goroutine besides reload and start, the command; 2 calls, 2 starts | two processes and a signal need two calls; a second goroutine of the service with calls about status, setting and members was also checked (1.1 million states), as were 3 calls with 1 person; the proofs cover all sizes |
| turn | `WaitsIffPaused`, `FreshExcused`, `TurnEnds` | a VIP's chat and a web chat, 3 messages, 3 rounds, 1 nudge, a window of 2 entries, a restart | an iteration pauses, is resumed and pauses again; the excuse leaves the window; 400 000 states; the proofs cover all sizes |
| speech | `OwnAudio`, `OneDaemon`, `CallsReturn` | 2 calls, 2 processes, 1 slot, 1 fault, a primary given up after 2 failures | a call is abandoned and its reader meets the next call's process; 570 000 states; the proofs cover all sizes |
| handsfree | `OneVoice`, `RestoresToggle`, `WakeLetsGo`, `AlertsEnd` | 3 sentences of replies or alerts, 3 events from outside | an alert in an alert, a new turn in a reply, a wake word in either, a redraw anywhere; 530 000 states; the proofs cover all sizes |
| webchat | `NoOrphans`, `OnALiveSession`, `FreshIsEmpty` | 2 pages, 3 sessions ever, 2 events of the user or failures, 1 request ahead of its answer | both pages act on one session, also on a server without any; 1.1 million states up to symmetry; the proofs cover all sizes |
| alerts | `EveryWiredChannel`, `OneMode`, `ProcessEnds` | 1 alert or relay, both consoles | everything may happen between any two channels; 2 alerts (900 000 states) were also checked; the proofs cover all sizes |

The type invariants (`TypeOK` and its like) are in no run: the proofs have them, but for
a part of Circle's and of Gateway's (the granted lists and the tracker, section 4), where a
violation would stop the evaluation of the properties. Every run also passes with `TypeOK` added to its invariants. The same holds of a few
properties that follow from those above or show less:
`AnswersInOrder`, `AcceptedIsFinished`, `SeenInOrder`, `AtMostOnce`,
`OneAlertPerCause`, `SpawnSpacing` and `OnlyRacesRename`.

`CHECK_DEADLOCK FALSE` appears where the bounds on calls, rows or time let a model
stop: the system itself is then idle, not stuck. `EveryRowSettled`, `QueueDrains`,
`Implements`, `CloseReturns`, `OnceSettles`, `ChangesArrive`, `CallsReturn`, `WakeLetsGo`,
`AlertsEnd` and `ProcessEnds` say that idle means finished.

### Fairness

Goroutines are scheduled, so every step a goroutine can take by itself is weakly
fair. Other assumptions:

* Dispatcher: strong fairness of `Receive(c) \/ Exit(c)`. The worker's `select`
  competes with its own idle timer; it is ready infinitely often, not
  continuously, and Go's `select` chooses at random. The model's and the
  transport's calls return (the code gives them deadlines).
* IMessageInbound, IMessageOutbound: a crashed process is started again (launchd,
  Docker's restart policy), and the tickers tick. Nothing is assumed of faults
  except that their number is bounded.
* Scheduler: the clock advances, timers fire, jobs end (each has a deadline).
* Turn: model calls and tools return or meet the turn's deadline. Nobody has to write.
* Circle: calls, the command and the reload run to their end. Nobody has to call,
  start or crash.
* Speech: goroutines run, timers fire, a killed process dies. A daemon need never answer.
* HandsFree: clips end, a stopped clip or recogniser reports, a request for speech is answered
  or fails. Nobody has to speak, type or be answered in the chat.
* Alerts: the sends, the voices' start and the shutdowns have limits, and the iMessage handler's
  close returns (`CloseReturns` of Dispatcher). Nothing is assumed of WhatsApp.

## 4. The proofs

TLAPS proves these for every value of the constants that satisfies the named
assumptions, on the specifications the runs check (without the fairness, which
safety does not need).

**ServiceProofs**, the dispatcher (assumptions: the sets' special values are new, `Capacity` is a
positive number, `From` maps messages to senders). `NothingLostOrReordered` is not
inductive: it speaks of the registered channel only. `IInv` adds that a live
worker's channel is the registered channel of its owner (`LiveRegistered`), that
a registered channel has a live worker (`Registered`), that an unused or retired
channel is empty (`UnusedEmpty`), that a worker holds a message exactly while it
is processing (`HoldsWhileBusy`) and that close closes every registered channel
(`Closing`). `TypeCorrect`, `NothingLost`, `SingleWorker` and `DrainedAtClose` follow.
`Refinement` shows that the safety part implements `OrderedReplies`: an enqueue maps to
an accept, a receive to a take, the end of processing to a finish, `Cancel` to the
end of closing, everything else to a stutter.

**ServiceProofs**, the inner circle (any people, callers, tools, defaults, calls and starts). `ChangesGoLive`
and `AwayPaired` speak of quiet states; `CircleInv` says what each step of each call leads there
with. `Tuned`: where calls have not overlapped or a reload runs alone (`Steady`), and no
reload is due (`Owed`: a signal waits, or a command has written and will send one),
the memory is what the tables say, except for what the one call in flight still has to show
(`Midway`, by its step). `Solo` is why there is one such call only, and why a reload
that began alone and was overtaken by nobody ends with `raced` put back. `Paired` follows a status
change through reading, storing and keeping the window (`InStatus`) and a reload through
its re-reading (`InReload`): while status changes do not overlap, the cached status that decides
which edge of the window is meant is the stored one when it is read. `Callers` and `Stages` say which
call may be at which step in which phase, through crashes and the signal that kills.
The types of status, members, overrides and caches are part of the invariant; what the
granted lists and the digests may be (the rest of `CircleTypeOK`) stays with TLC, since
`Recycled` sorts with `SortSeq`, of which the proof system knows nothing, and the digests are counted.

**DeferredWorkProofs**, the outbound queue (any number of messages, claims and faults). The argument for
`AtMostOnce` is that ids leave the queue in order: `IInv` says that every row older than one
that has left has left too (`Ordered`), that a claim whose snapshot is not stale has read
the oldest pending row (`Current`), that only the awaited claim's answer reaches the poller
(`Awaiting`), and that what the poller holds is newer than everything sent (`Holding`).
`DeliveredInOrder`, `AtMostOnce` and `DeletedWasDelivered` follow.

**DeferredWorkProofs**, the scheduler (any names, tasks, callers, calls, crashes and any
horizon). `MissedStaysVisible` needs `JobsKept`: a name has one row, everything is registered
under its id and kind, what runs was due, and the row of an id nobody edited is the job that
runs for it. `OnceRunsOnce` and `Synced` are proved on no condition on when calls come. What they
set apart is single ids: those that a call has overtaken `Start` with (`early`), for which both can
fail, see section 5. For the others `Started` says that until `Start` has loaded the table nothing is
registered and nothing runs, and that what was listed is the row. `OnceRunsOnce` rests on ids being
given out once (`Used`): the row of a stray that is not `early`, of a job that is being forgotten,
or of an id a call forgets is gone for good, so that a stray that fires counts as an edit; and on
`Armed`: a timer is armed for a time still to come, for which the id has not run. `Synced` speaks of
quiet states; `Kept` says what leads there, for each id that is neither edited nor early: once the table is
loaded it is as its row wants it or the one call in flight will make it so (`Dirty`), nothing is armed for it
while its job runs, and what a call is about to register is the row as it is, or one that has been run or
that `Start` has disabled since, whose time has passed, so that nothing is registered for it.

**IMessageInboundProofs** (any number of rows, faults and ticks). `EnteredOnce` rests on
three clocks: a row older than the staleness limit is refused when its request comes in,
a request is normalised for a bounded time, and the dedup remembers for longer than both
together. The assumption `DedupLastsLonger` says so of the constants, as 5 minutes, 45
seconds and 10 minutes do, and `IInv` carries it through a request's life: one being
normalised has been at it for a bounded time and was young (`Young`), and a row that was let
past is with one request at most, and is remembered or too old to be let in again (`Once`).
Without the assumption a retry meets an evicted entry and TLC finds the second entry.
`NothingSkipped` needs that the first start found a chat history (`History > 0`): with an
empty one it fails, see section 5. `SInv` adds that a batch holds
every row to be forwarded between the watermark and its end (`Complete`), and that
what is posted or remembered has only answered rows before it (`Behind`); `SeenInOrder` follows
as well.

**GatewayProofs** (any senders, goroutines, messages, restarts, echoes, capacity and
cooldown). `OnceInWindow` needs `Lives`: a message is written in one life and fresh in no other, and
each of its entries in this life is in the dedup with its stamp, or older than the window
(`Windows`); two fresh copies of it therefore find one another, whoever evicts. `AlertSpacing` is inductive with the
newest stamp of a chat being remembered (`Spaced`), because look-up and stamp are one
section. `NobodyGhosted` needs `Owed`: a message past the gate and without its final word is
in a queue, or with a goroutine whose remaining steps contain a final word or the
handover. `EchoesIgnored` follows from `Holding`, that one of Clark's own messages is
never past the gate, so it does not depend on what the tracker remembers; the tracker's
sequence itself is filtered by `SelectSeq`, a recursive operator of the library, and
its bound and sweep stay with TLC.

**VoiceProofs**, the speech engines (any calls, processes, faults, slots, back-off and failure threshold; at
least one process, `SomeProc`). `OwnAudio` needs what each pipe holds at each step of each
call: one call is between `startLocked` and its answer, and it holds the mutex (`Section`); a
reader left behind was left with a process that is no longer the daemon (`Readers`); a pipe
that nobody has torn holds one frame at most, and it is its reader's (`InStep`); the
daemon's pipe is empty between two calls (`Drained`). `OneDaemon` and the action property
`SpawnSpacing` have invariants of their own on top.

**VoiceProofs**, the hands-free loop (any finite number of sentences and any number of outside
events). `OneVoice` needs the shape of the promise chain (`Sound`): what sounds is the source's
buffer, of the current generation; what `stopSpeech` cut has yet to report its end, and until
then nothing of the new generation has been synthesized; a generation is what was enqueued since some
sentence on, without a gap, each link follows the one before, and one that has begun has
those before it behind it. `RestoresToggle` needs `Toggle`: unless the toggle was used
meanwhile, it shows no voice that is off, except while permission is asked for; where the
Master wants voice, no alert at work has found it off; and where he does not and it is on,
one of them has, and will switch it off.

**AlertingProofs**, the health monitor (any checkers and intervals with Grace ≤ Remind, and a
dependency of depth one, as `buildHealthCheckers` registers). The type invariant
contains the strengthening needed: a checker is down since some time exactly
while it was last seen unhealthy. `OneAlertPerCause` is an action property and needs
the types only.

**AlertingProofs**, alerts and relays (any alerts and relays, any nonempty set of consoles). `EveryWiredChannel` needs
`Owing`, that what is owed still lies ahead of the delivery, was meant and is wired; hooks
are never taken back. `OneMode` needs `Heard`, that nothing has sounded before the
console is told, and that a relay is never silent.

**TurnProofs** (any chats, workers, rounds, nudges fewer than rounds, and window).
`FreshExcused` needs `Excused`: an entry that holds the context is at least as far from the end
of the window as `since` says (`Dated`), so an excuse that is owed is never found there; a fresh
turn that is owed one therefore knows it, and a turn to which it is due carries it once there
is a text to save. `WaitsIffPaused` needs `Waiting`: what waits
in a chat at each step of its only worker, and that until a tool runs every round is a
nudge, from which `PauseIsGenuine` follows as well.

**WebChatProofs** (any pages, sessions, requests and events). `IInv` carries that every id in
any place has been given out, that a request which will name a session to its page has one
in hand, and that a turn past its look, or an adoption, writes to a session that exists or was cut
under it; `NoOrphans` follows, and with the counter, which never goes back,
`FreshIsEmpty`. `OnALiveSession` speaks of the quiet state only; `Current` says what leads
there: each page that could know is up to date, asks, or is about to be told. A list answer
that is out of date is excused by a younger list request of the same page (`Another`), and a
deletion is `Deleting` until every page has its notice, also while the handler makes
a new default session.

Every invariant the runs check is stated by a theorem. Only model-checked: all liveness,
and the temporal half of the refinement, which the proof system does not reach; the
granted lists, as said above. No module that is proved about uses recursive operators.

## 5. Where the code differs from what is said of it

Each can be seen in TLC by giving a copy of a configuration the values named here and
the property as the only one; none is among the runs, which all pass.

* `BrokenRowCannotWedge` (IMessageInbound; `SPECIFICATION Spec`, N = 3, Kind <- MCKindsBroken,
  MaxTime = 1, MaxFaults = 0): a row without a handle makes `rows.Scan` fail, and with it
  every later scan; `watcher.go:119` says a broken row cannot wedge the poller. Rows with
  an unreadable attachment are answered with 400 and stop the watermark as well.
* `EditsSurvive` (Scheduler; `ScheduleSafeSpec`, Name = {a}, Caller = {c1}, MaxCalls = 2, MaxCrashes = 0): a
  one-time schedule edited while its job runs is deleted by the end
  of that job; its timer lives on with no row (`scheduler.go:2`, `scheduler.go:385`).
* `GrantsIsolated` (Circle; `CircleSafeSpec`, Admitted = {j1, j2}, MaxCalls = 1, MaxStarts = 1,
  Kinds = {"grant"}): revoking a default tool for a VIP who has no row edits the shared
  default list in place, for everybody, until a restart (`commands.go:114`,
  `assistant.go:52`). The web handler copies the list and is not affected.
* `RenamesKept` (WebChat as it is): a title given between the turn's look and its naming is
  overwritten; `chat.go:179` says explicit renames are never.
* `TransportErrorStops` (Alerts as it is): WhatsApp dies and the process goes on; its error
  goes into a channel nobody reads (`app.go:835`), and `app.go:695` says that a transport
  error stops the others.
* `AtLeastOnce` (IMessageInbound as it is): see the inbound path below.

Established while modelling:

* Scheduler: two overlapping calls can register in the opposite order of their writes, so
  `Synced` is stated for calls that did not overlap. A call that registers a row before `Start`
  has loaded it leaves two timers or cron entries for it, of which the maps know one, and a row
  changed or deleted after `Start` has listed it is registered as it was: without `early` both
  `OnceRunsOnce` and `Synced` fail.
  `create_schedule` sends kind "recurring" whenever no time is given, so pausing a
  one-time schedule the way `app.go:562` advises turns it into a recurring one with no
  spec. `SCHEDULER_ENABLED=0` does not stop one-time timers.
* Circle: a reload that overlaps a setter can put the old status back into memory, also
  over a use of the kill endpoint, until the next reload: `ChangesGoLive` sets overlapping
  calls of the service apart. A SIGHUP between the pidfile and `signal.Notify` kills the
  service; a change between the service's load and its pidfile is not seen. The
  service's start and a one-shot `toggle -all off` close the away window without a
  digest, since neither has its sender wired (`assistant.go:437`).
* Tool health: an urgent failure soon after a recovery notice waits for the reminder
  interval (`health.go:7` says permission loss pushes immediately). The iMessage checker is
  suppressed for ever when the Mac bridge's checker is not configured. A blip that was
  never announced may still be followed by a notice of its recovery.
* Outbound queue: picked rows that were never acknowledged are found by
  `StaleIMessageOutboundIDs`, which nothing calls (`store/imessage.go:81`).
* Inbound path: while clark closes, its server still answers 200 for messages the closed
  dispatcher refuses, and the bridge moves on, although `watcher.go:83` speaks of
  at-least-once delivery (`AtLeastOnce`, stated in the module and checked by no run).
* Inbound path: with no chat history at the first start the watermark file says 0, which
  reads as "no file"; a restart then skips what arrived meanwhile.
* Gateway: WhatsApp's staleness filter compares a message with the start of the process
  only (`whatsapp/handler.go:329`), so one that is delivered again in the same life after the
  dedup window is handled and answered again; nothing promises otherwise
  (`handler.go:85`), and the iMessage path has a limit of its own that closes before.
* Gateway: the notice during the cooldown says that he has been heard, also when the alert
  before it reached nobody (`handler.go:169`).
* Turn: "something interrupted my train of thought. Pray continue and I shall resume" is
  said without anything to resume (`assistant.go:1411`); "continue" then starts a fresh
  turn. After a resume the list of tools that ran is empty, so Clark can ask to repeat a
  request it has carried out, which the comment at line 65 calls worse than any
  phrasing; the same holds for the deadline's apology. A rate limit switches Clark off
  only in the first round of a loop, not in a later one, nor while an excuse is written
  or repaired (`docs/in-chat.md:29`). The offer to continue replaces the reply that held
  the excuse, and a resumed turn never asks whether one is due (971-985), so a visitor's
  answer may come without: `FreshExcused` is about fresh turns, `AlwaysExcused`, in which
  resumed ones count too, fails. The iteration is set before its offer is saved (1077-1081):
  when that save fails nothing has been said and "continue" resumes all the same
  (`WaitsAsOffered` fails), and a restart loses an iteration whose offer was said. A
  paraphrased excuse is not recognised in the history, so it is given again with every
  reply, and one that is older than the window is given again. Two tabs of one web
  session can resume the same iteration twice: look-up and removal are two locks.
* Lifecycle: main closes the store while WhatsApp's handler drains and the other console
  still works. With neither console enabled `runConsoles` waits for ever, SIGTERM
  included. `SetRelayFunc` drops the list of the channels that were reached when one
  fails, so a tool that reached the Master reports an error and may send again
  (`alert.go:108` promises partial delivery). `fill` never substitutes `{time}`, so the
  generic message says "When: {time}", and a model's summary carries no time.
* Speech: the reader of an abandoned call looks at the engine's field again without the mutex
  and may find nil (`piper.go:144`). A process started for one request is killed with it
  (`piper.go:58`). The write to a whisper that does not read has no limit
  (`fasterwhisper.go:119`). A successful start resets the back-off, so it never doubles
  (`piper.go:72`, against the comment at 110). A client that leaves counts as "unreachable":
  the fallback is tried under his dead context, and the resident backup is killed
  (`kokororemote.go:146`).
* Hands-free: a clip that ends does not re-arm the wake word, although the comment at
  `app.js:2502` says so. An alert with voice off starts the recogniser, and the
  restore does not stop it (2628, 2777). `chatBusy` is reset by frames only: a socket that
  closes in a turn blocks typing until a reload (1987). An affirmation cut by an alert
  reports an error, which starts the recorder while the alert speaks (2593). An old
  recogniser's `onend` forgets the newer one (2556). `sendVoiceText` names no session
  (2877), so what is spoken lands in the legacy conversation. The toggle clicked while an alert
  speaks, or while permission is asked for, leaves `voiceOn` other than wished for. And the
  toggle can show "off" while voice is on without anybody's doing: `renderVoiceMeta`
  unchecks it while the browser still asks for the microphone, and nothing checks it again
  before the next frame (`app.js:666`); or the state names no engine (664). So
  `RestoresToggle` claims the other direction only: no toggle shows a voice that is off.
* Web chat: `refreshSessions` chooses another session without loading its transcript (784), and
  two overlapping loads mix two transcripts (880). A notice during a rename is dropped and
  never made up for (780). Two list answers that cross can leave a page on a deleted session.
  Two first requests each create a session; an adoption that fails is never tried again, since
  a session then exists (`sessions.go:131`). A turn in flight leaves rows of a deleted session
  behind; no list shows them and nothing removes them.

## 6. What is not modelled

* The content of messages, replies, prompts and reports; names, phone numbers, formats.
* Store errors in Scheduler and Circle (they are faults in the two iMessage modules).
* Cron firings, which write `last_run_at` only; `SetEnabled`, which only tests call.
* In Circle, the values of the settings and their limits, what the away digest says, and the
  state pushed to the console's pages: `server.go:155` takes it when the change is made and
  delivers it from a goroutine of its own, so two of them may arrive in the wrong
  order; the page asks again every half minute.
* The iMessage adapter's own front door: it shares `Handler.Handle` with WhatsApp.
* In Turn, what a tool does, which words make an action owed, the prompt and its hints.
* Of the console: authentication, the login throttle and the token buckets; transcripts,
  clearing a history, the order of the list. Of the page: the test voice button, the idle sound, a
  browser that refuses to play. Of the voices: what is synthesized or heard.
* The components listed as not modelled in `PROJECT.json`: model clients, media, search,
  bridge actions, configuration, logging and installation are input and output
  without a protocol.

## 7. The plan

Done, in this order, the most important behaviour first: OrderedReplies and Dispatcher
(every reply goes through them), the two iMessage paths (state on two machines),
Gateway (composes OrderedReplies), Scheduler, HealthMonitor, Circle, Turn, Alerts, Speech,
HandsFree, WebChat; and the proofs of all of them.

Next:

1. The login throttle and session lifetime of the console, with the token bucket.
2. Pure functions over bounded inputs: `RichText`, `SplitMessage`.

## 8. How to run it

    tlc -workers 2 -config Dispatcher.cfg MCDispatcher.tla
    tlapm ServiceProofs.tla

`PROJECT.json` names the module and the configuration of each run. The longest
runs take two to four minutes on two cores.
