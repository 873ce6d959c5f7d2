------------------------------- MODULE Speech -------------------------------
(***************************************************************************)
(* The speech engines of internal/voice and the handlers that call them:   *)
(* a resident piper or faster-whisper process, driven over its stdin and   *)
(* stdout by one call at a time, and the failover from the remote Kokoro   *)
(* to piper.  The process, the reader goroutine of every call, the context *)
(* of every call and the respawn back-off are all separate, and a reader   *)
(* may outlive the call that started it.                                   *)
(***************************************************************************)
EXTENDS Naturals, FiniteSets, Sequences

CONSTANTS
  Call,       \* calls of the speech handlers, each made once
  Proc,       \* identities for processes; one is free again once nobody uses it
  Boot,       \* the context of the pre-warm at boot, which outlives every call
  Slots,      \* sttMaxConcurrency, 2 in the code
  Threshold,  \* failThreshold, 2 in the code
  Base,       \* piperBackoffBase, 5 s in the code, in ticks
  MaxFaults,  \* a bound on crashes and hangs
  NoCall, NoProc

ASSUME BoundsType == Slots \in Nat \ {0} /\ Threshold \in Nat /\ Base \in Nat /\ MaxFaults \in Nat
ASSUME NamesAreNew == Boot \notin Call /\ NoCall \notin Call /\ NoProc \notin Proc
ASSUME SomeProc == Proc # {}

VARIABLES
  engine,   \* "piper", "failover" (Kokoro, then piper) or "whisper"
  lock,     \* holder of the engine's mutex
  d,        \* the process the engine believes to be its daemon
  wait,     \* what is left of the back-off (nextSpawn - now)
  fails,    \* consecFailures
  pc,       \* where each call stands
  live,     \* calls whose context has not ended
  slots,    \* the transcription slots that are taken, by call
  retried,  \* calls that have restarted the daemon after a failed write
  answer,   \* what each call returned: a call's audio, "err", or garbage
  reader,   \* the reader goroutine of each call
  from,     \* the process its pending read is on
  wrote,    \* the process the call's request went to
  result,   \* the buffered channel the reader answers on
  up,       \* processes that run
  stuck,    \* processes that have stopped reading and answering
  ctxOf,    \* the context a process was started under
  inp, out, \* what is in the pipes: requests, and answers as [call, kind]
  torn,     \* processes whose stdout a reader of another call has read from
  spared,   \* history: daemons dropped over a bad frame, without a kill
  since,    \* history: ticks since a daemon was last given up, up to Base
  faults,
  panicked  \* a reader followed the nil pointer: Clark is gone

engineVars == <<engine, lock, d, wait, fails>>
callVars == <<pc, live, slots, retried, answer>>
readVars == <<reader, from, wrote, result>>
procVars == <<up, stuck, ctxOf, inp, out, torn, spared>>
vars == <<engineVars, callVars, readVars, procVars, since, faults, panicked>>

None == "none"
Piper == engine \in {"piper", "failover"}
Kinds == IF Piper THEN {"good", "bad"} ELSE {"good", "bad", "empty"}

TypeOK ==
  /\ engine \in {"piper", "failover", "whisper"}
  /\ lock \in Call \cup {NoCall} /\ d \in Proc \cup {NoProc}
  /\ wait \in 0..Base /\ since \in 0..Base
  /\ fails \in Nat /\ faults \in 0..MaxFaults /\ panicked \in BOOLEAN
  /\ pc \in [Call -> {"idle", "primary", "slot", "lock", "start", "boot", "write", "read", "done"}]
  /\ live \subseteq Call /\ slots \subseteq Call /\ retried \subseteq Call
  /\ answer \in [Call -> Call \cup {None, "primary", "err", "garbage"}]
  /\ reader \in [Call -> {None, "spawn", "head", "size", "body"}]
  /\ from \in [Call -> Proc \cup {NoProc}] /\ wrote \in [Call -> Proc \cup {NoProc}]
  /\ result \in [Call -> Call \cup {None, "err", "empty", "garbage"}]
  /\ up \subseteq Proc /\ stuck \subseteq Proc /\ torn \subseteq Proc /\ spared \subseteq Proc
  /\ ctxOf \in [Proc -> Call \cup {Boot}]
  /\ inp \in [Proc -> Seq(Call)]
  /\ out \in [Proc -> Seq([call : Call, kind : Kinds])]

\* With the web console on, both engines are pre-warmed before any call.
Init ==
  /\ engine \in {"piper", "failover", "whisper"}
  /\ lock = NoCall
  /\ d \in {NoProc, CHOOSE p \in Proc : TRUE}
  /\ up = {d} \ {NoProc}
  /\ wait = 0 /\ fails = 0 /\ since = Base /\ faults = 0 /\ panicked = FALSE
  /\ pc = [c \in Call |-> "idle"]
  /\ live = {} /\ slots = {} /\ retried = {}
  /\ answer = [c \in Call |-> None]
  /\ reader = [c \in Call |-> None] /\ result = [c \in Call |-> None]
  /\ from = [c \in Call |-> NoProc] /\ wrote = [c \in Call |-> NoProc]
  /\ stuck = {} /\ torn = {} /\ spared = {}
  /\ ctxOf = [p \in Proc |-> Boot]
  /\ inp = [p \in Proc |-> <<>>] /\ out = [p \in Proc |-> <<>>]

Goto(c, l) == pc' = [pc EXCEPT ![c] = l]

\* A call returns: the mutex is released, its handler cancels its context.
Finish(c, a) ==
  /\ Goto(c, "done")
  /\ answer' = [answer EXCEPT ![c] = a]
  /\ live' = live \ {c} /\ slots' = slots \ {c}
  /\ lock' = IF lock = c THEN NoCall ELSE lock
  /\ UNCHANGED <<engine, fails, retried>>

\* Mutant. A lost daemon may be replaced at once.
GiveUpHasty == d' = NoProc /\ wait' = wait /\ since' = 0

\* The engine gives its daemon up and, for piper, schedules the next spawn.
GiveUpDaemon ==
  /\ d' = NoProc
  /\ wait' = IF Piper THEN Base ELSE wait
  /\ since' = 0

-----------------------------------------------------------------------------
(* A call reaches its engine: an HTTP request of the console, a binary frame
   of its chat socket, or a voice note a worker of the dispatcher listens to. *)

Ask(c) ==
  /\ pc[c] = "idle"
  /\ Goto(c, CASE engine = "whisper" -> "slot" [] engine = "failover" -> "primary" [] OTHER -> "lock")
  /\ live' = live \cup {c}
  /\ UNCHANGED <<engineVars, slots, retried, answer, readVars, procVars, since, faults, panicked>>

\* A voice note is converted first, which may use up its two minutes, and
\* takes no slot.
VoiceNote(c) ==
  /\ engine = "whisper" /\ pc[c] = "idle"
  /\ \/ Goto(c, "lock") /\ live' = live \cup {c} /\ UNCHANGED answer
     \/ Goto(c, "done") /\ answer' = [answer EXCEPT ![c] = "err"] /\ UNCHANGED live
  /\ UNCHANGED <<engineVars, slots, retried, readVars, procVars, since, faults, panicked>>

\* The console's transcription waits for one of the slots, whatever its
\* context says.
TakeSlot(c) ==
  /\ pc[c] = "slot"
  /\ Cardinality(slots) < Slots
  /\ slots' = slots \cup {c}
  /\ Goto(c, "lock")
  /\ UNCHANGED <<engineVars, live, retried, answer, readVars, procVars, since, faults, panicked>>

\* The remote Kokoro answers.
PrimaryOk(c) ==
  /\ pc[c] = "primary"
  /\ c \in live
  /\ Goto(c, "done")
  /\ answer' = [answer EXCEPT ![c] = "primary"]
  /\ live' = live \ {c}
  /\ fails' = 0
  /\ UNCHANGED <<engine, lock, d, wait, slots, retried, readVars, procVars, since, faults,
                 panicked>>

\* It fails.  Any error of the HTTP round trip, the end of the caller's own
\* context included, counts as unreachable; an error answer only counts.
PrimaryFails(c) ==
  /\ pc[c] = "primary"
  /\ \E unreachable \in BOOLEAN :
       IF unreachable \/ fails + 1 >= Threshold
         THEN Goto(c, "lock") /\ UNCHANGED <<live, answer>>
         ELSE /\ Goto(c, "done")
              /\ answer' = [answer EXCEPT ![c] = "err"]
              /\ live' = live \ {c}
  /\ fails' = fails + 1
  /\ UNCHANGED <<engine, lock, d, wait, slots, retried, readVars, procVars, since, faults,
                 panicked>>

\* The mutex does not look at the context either.
Lock(c) ==
  /\ pc[c] = "lock"
  /\ lock = NoCall
  /\ lock' = c
  /\ Goto(c, IF d = NoProc THEN "start" ELSE "write")
  /\ UNCHANGED <<engine, d, wait, fails, live, slots, retried, answer, readVars, procVars, since,
                 faults, panicked>>

-----------------------------------------------------------------------------
(* startLocked *)

\* Still backing off, or the context is over before the process is forked.
StartRefused(c) ==
  /\ pc[c] = "start"
  /\ (Piper /\ wait > 0) \/ c \notin live
  /\ Finish(c, "err")
  /\ UNCHANGED <<d, wait, readVars, procVars, since, faults, panicked>>

Free(p) ==
  /\ p \notin up /\ p # d
  /\ \A c \in Call : reader[c] # None => p \notin {from[c], wrote[c]}

\* exec.CommandContext ties the process to the context of the call that starts
\* it.  A start that succeeds clears the back-off.
Start(c) ==
  /\ pc[c] = "start"
  /\ c \in live
  /\ Piper => wait = 0
  /\ \E p \in Proc :
       /\ Free(p)
       /\ d' = p
       /\ up' = up \cup {p}
       /\ ctxOf' = [ctxOf EXCEPT ![p] = c]
       /\ inp' = [inp EXCEPT ![p] = <<>>] /\ out' = [out EXCEPT ![p] = <<>>]
       /\ stuck' = stuck \ {p} /\ torn' = torn \ {p} /\ spared' = spared \ {p}
  /\ Goto(c, IF Piper THEN "write" ELSE "boot")
  /\ UNCHANGED <<engine, lock, wait, fails, live, slots, retried, answer, readVars, since,
                 faults, panicked>>

\* Whisper's startLocked then waits for the model to load.
BootOk(c) ==
  /\ pc[c] = "boot"
  /\ d \in up \ stuck
  /\ Goto(c, "write")
  /\ UNCHANGED <<engineVars, live, slots, retried, answer, readVars, procVars, since, faults,
                 panicked>>

\* It exits before it is ready, takes too long, or the context ends: killed.
BootFails(c) ==
  /\ pc[c] = "boot"
  /\ up' = up \ {d}
  /\ GiveUpDaemon
  /\ Finish(c, "err")
  /\ UNCHANGED <<readVars, stuck, ctxOf, inp, out, torn, spared, faults, panicked>>

-----------------------------------------------------------------------------
(* One round-trip. *)

\* The frame fits the pipe's buffer for piper; a clip does not, so that whisper
\* must be reading.  A reader goroutine is started for the answer.
Write(c) ==
  /\ pc[c] = "write"
  /\ d \in up
  /\ Piper \/ d \notin stuck
  /\ inp' = [inp EXCEPT ![d] = Append(@, c)]
  /\ reader' = [reader EXCEPT ![c] = "spawn"]
  /\ wrote' = [wrote EXCEPT ![c] = d]
  /\ Goto(c, "read")
  /\ UNCHANGED <<engineVars, live, slots, retried, answer, from, result, up, stuck, ctxOf, out,
                 torn,
                 spared, since, faults, panicked>>

\* The daemon is gone.  Whisper starts another and tries once more.
WriteFails(c) ==
  /\ pc[c] = "write"
  /\ d \notin up
  /\ GiveUpDaemon
  /\ IF Piper \/ c \in retried
       THEN Finish(c, "err")
       ELSE /\ retried' = retried \cup {c}
            /\ Goto(c, "start")
            /\ UNCHANGED <<engine, lock, fails, live, slots, answer>>
  /\ UNCHANGED <<readVars, procVars, faults, panicked>>

\* The reader's frame: a length, then that many bytes.  It follows the engine's
\* field anew for each of the two, and not under the mutex.
Deref(c) ==
  /\ reader[c] \in {"spawn", "size"}
  /\ IF d = NoProc
       THEN panicked' = TRUE /\ UNCHANGED <<reader, from>>
       ELSE /\ from' = [from EXCEPT ![c] = d]
            /\ reader' = [reader EXCEPT ![c] = IF @ = "spawn" THEN "head" ELSE "body"]
            /\ UNCHANGED panicked
  /\ UNCHANGED <<engineVars, callVars, wrote, result, procVars, since, faults>>

\* A reader that is overtaken takes bytes that belong to another call: what is
\* left in that pipe is out of step.  Nobody waits for what it has read.
Steal(c) ==
  /\ reader[c] \in {"head", "body"}
  /\ from[c] # wrote[c]
  /\ out[from[c]] # <<>>
  /\ torn' = torn \cup {from[c]}
  /\ out' = [out EXCEPT ![from[c]] = Tail(@)]
  /\ reader' = [reader EXCEPT ![c] = None]
  /\ UNCHANGED <<engineVars, callVars, from, wrote, result, up, stuck, ctxOf, inp, spared,
                 since, faults, panicked>>

\* What a pipe out of step yields: an error, or bytes that pass for an answer.
\* It may also yield nothing, which the caller's time limit ends.
ReadTorn(c) ==
  /\ reader[c] \in {"head", "body"}
  /\ from[c] = wrote[c] /\ from[c] \in torn
  /\ \E r \in {"err", "garbage"} : result' = [result EXCEPT ![c] = r]
  /\ reader' = [reader EXCEPT ![c] = None]
  /\ UNCHANGED <<engineVars, callVars, from, wrote, procVars, since, faults, panicked>>

\* The length; one of zero or beyond the limit is an error.
ReadHead(c) ==
  /\ reader[c] = "head"
  /\ from[c] = wrote[c] /\ from[c] \notin torn
  /\ out[from[c]] # <<>>
  /\ IF Head(out[from[c]]).kind = "bad"
       THEN /\ result' = [result EXCEPT ![c] = "err"]
            /\ out' = [out EXCEPT ![from[c]] = Tail(@)]
            /\ reader' = [reader EXCEPT ![c] = None]
       ELSE reader' = [reader EXCEPT ![c] = "size"] /\ UNCHANGED <<result, out>>
  /\ UNCHANGED <<engineVars, callVars, from, wrote, up, stuck, ctxOf, inp, torn, spared,
                 since, faults, panicked>>

ReadBody(c) ==
  /\ reader[c] = "body"
  /\ from[c] = wrote[c] /\ from[c] \notin torn
  /\ out[from[c]] # <<>>
  /\ result' = [result EXCEPT ![c] = LET a == Head(out[from[c]]) IN
                                       IF a.kind = "empty" THEN "empty" ELSE a.call]
  /\ out' = [out EXCEPT ![from[c]] = Tail(@)]
  /\ reader' = [reader EXCEPT ![c] = None]
  /\ UNCHANGED <<engineVars, callVars, from, wrote, up, stuck, ctxOf, inp, torn, spared,
                 since, faults, panicked>>

\* End of file.  Whisper's exit is waited for, which closes its pipe at once;
\* what a dead piper has written can still be read.
ReadEOF(c) ==
  /\ reader[c] \in {"head", "body"}
  /\ from[c] \notin up
  /\ ~Piper \/ out[from[c]] = <<>>
  /\ result' = [result EXCEPT ![c] = "err"]
  /\ reader' = [reader EXCEPT ![c] = None]
  /\ UNCHANGED <<engineVars, callVars, from, wrote, procVars, since, faults, panicked>>

\* The call takes its reader's result.  An error drops the daemon, without a
\* kill; an empty transcript is only an error to the caller.
Take(c) ==
  /\ pc[c] = "read"
  /\ result[c] # None
  /\ Finish(c, IF result[c] = "empty" THEN "err" ELSE result[c])
  /\ IF result[c] = "err"
       THEN GiveUpDaemon /\ spared' = spared \cup {d}
       ELSE UNCHANGED <<d, wait, since, spared>>
  /\ UNCHANGED <<readVars, up, stuck, ctxOf, inp, out, torn, faults, panicked>>

\* Mutant. Only whoever waits leaves: the daemon is left to finish its answer.
AbandonKeeping(c) ==
  /\ pc[c] = "read"
  /\ Finish(c, "err")
  /\ UNCHANGED <<d, wait, since, readVars, procVars, faults, panicked>>

\* Mutant. The daemon is dropped but not killed.
AbandonUnkilled(c) ==
  /\ pc[c] = "read"
  /\ GiveUpDaemon
  /\ Finish(c, "err")
  /\ UNCHANGED <<readVars, procVars, faults, panicked>>

\* Mutant. There is no time limit: only a client that leaves ends the wait.
AbandonLate(c) ==
  /\ pc[c] = "read" /\ c \notin live
  /\ up' = up \ {d}
  /\ GiveUpDaemon
  /\ Finish(c, "err")
  /\ UNCHANGED <<readVars, stuck, ctxOf, inp, out, torn, spared, faults, panicked>>

\* Time limit or end of the context: the daemon is killed and dropped.  The
\* reader stays behind.
Abandon(c) ==
  /\ pc[c] = "read"
  /\ up' = up \ {d}
  /\ GiveUpDaemon
  /\ Finish(c, "err")
  /\ UNCHANGED <<readVars, stuck, ctxOf, inp, out, torn, spared, faults, panicked>>

-----------------------------------------------------------------------------
(* The processes, and what happens around the calls. *)

Serve(p) ==
  /\ p \in up \ stuck
  /\ inp[p] # <<>>
  /\ \E k \in Kinds : out' = [out EXCEPT ![p] = Append(@, [call |-> Head(inp[p]), kind |-> k])]
  /\ inp' = [inp EXCEPT ![p] = Tail(@)]
  /\ UNCHANGED <<engineVars, callVars, readVars, up, stuck, ctxOf, torn, spared, since, faults,
                 panicked>>

\* A process dies with the context it was started under, which for a daemon
\* started on demand is the context of the call that needed it first.
Reap(p) ==
  /\ p \in up
  /\ ctxOf[p] \notin live \cup {Boot}
  /\ up' = up \ {p}
  /\ UNCHANGED <<engineVars, callVars, readVars, stuck, ctxOf, inp, out, torn, spared, since,
                 faults, panicked>>

Crash(p) ==
  /\ p \in up /\ faults < MaxFaults
  /\ faults' = faults + 1
  /\ up' = up \ {p}
  /\ UNCHANGED <<engineVars, callVars, readVars, stuck, ctxOf, inp, out, torn, spared, since,
                 panicked>>

Hang(p) ==
  /\ p \in up \ stuck /\ faults < MaxFaults
  /\ faults' = faults + 1
  /\ stuck' = stuck \cup {p}
  /\ UNCHANGED <<engineVars, callVars, readVars, up, ctxOf, inp, out, torn, spared, since,
                 panicked>>

\* The client leaves, or the handler's limit passes.
ContextEnds(c) ==
  /\ c \in live
  /\ live' = live \ {c}
  /\ UNCHANGED <<engineVars, pc, slots, retried, answer, readVars, procVars, since, faults,
                 panicked>>

Tick ==
  /\ wait > 0 \/ since < Base
  /\ wait' = IF wait > 0 THEN wait - 1 ELSE 0
  /\ since' = IF since < Base THEN since + 1 ELSE Base
  /\ UNCHANGED <<engine, lock, d, fails, callVars, readVars, procVars, faults, panicked>>

CallStep(c) ==
  \/ TakeSlot(c) \/ PrimaryOk(c) \/ PrimaryFails(c) \/ Lock(c)
  \/ StartRefused(c) \/ Start(c) \/ BootOk(c) \/ BootFails(c)
  \/ Write(c) \/ WriteFails(c) \/ Take(c) \/ Abandon(c)

ReaderStep(c) ==
  \/ Deref(c) \/ Steal(c) \/ ReadTorn(c) \/ ReadHead(c) \/ ReadBody(c) \/ ReadEOF(c)

Next ==
  /\ ~panicked
  /\ \/ \E c \in Call : Ask(c) \/ VoiceNote(c) \/ CallStep(c) \/ ReaderStep(c) \/ ContextEnds(c)
     \/ \E p \in Proc : Serve(p) \/ Reap(p) \/ Crash(p) \/ Hang(p)
     \/ Tick

\* Goroutines run, timers fire, the kernel delivers a kill; no process is
\* required to answer and no client to leave.
Fairness ==
  /\ \A c \in Call : WF_vars(~panicked /\ CallStep(c)) /\ WF_vars(~panicked /\ ReaderStep(c))
  /\ \A p \in Proc : WF_vars(~panicked /\ Reap(p))
  /\ WF_vars(~panicked /\ Tick)

SafeSpec == Init /\ [][Next]_vars
Spec == SafeSpec /\ Fairness

-----------------------------------------------------------------------------
(* Properties *)

\* Nobody is played somebody else's words: what a call returns as audio (or
\* transcript) was made from its own request, however many calls before it
\* were abandoned with their answers still on the way.  The one exception is
\* the pipe an overtaken reader has read from, whose content is arbitrary.
OwnAudio == \A c \in Call : answer[c] \in {None, "primary", "err", "garbage", c}

\* The engine never leaves a second model in memory: a process it does not use
\* has been killed, unless it was dropped over a frame that made no sense.
OneDaemon == up \ {d} \subseteq spared

\* A crash-looping piper cannot hammer the model load: a process is started no
\* sooner than the back-off after the last one was given up.
SpawnSpacing == [][Piper /\ d = NoProc /\ d' # NoProc => since = Base]_vars

\* Every call returns, even when its daemon hangs: a slow or dead process is
\* bounded by the call's time limit and the mutex is passed on.  Out of reach
\* are a panic, and a whisper process that stops reading its input.
CallsReturn ==
  \A c \in Call :
    pc[c] # "idle" ~> pc[c] = "done" \/ panicked \/ (engine = "whisper" /\ stuck # {})

=============================================================================
