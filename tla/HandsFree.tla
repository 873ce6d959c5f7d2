----------------------------- MODULE HandsFree -----------------------------
(***************************************************************************)
(* The hands-free loop of the web console (internal/web/static/app.js):    *)
(* the voice toggle, the wake word, the recorder, the clips, the chain of  *)
(* spoken sentences and the frames of the chat socket.                     *)
(*                                                                         *)
(* The page is one thread.  An action is one event with the code that runs *)
(* to completion on it; promise continuations are steps of their own, and  *)
(* no event is taken while one is due.  The variables of the script are    *)
(* the fields of page, so that its functions are functions on records.     *)
(***************************************************************************)
EXTENDS Naturals, FiniteSets

CONSTANTS
  Sentence,   \* 1..n: the sentences spoken, in the order they are enqueued
  MaxEvents   \* a bound on clicks, wake words heard, turns and alerts together

ASSUME SentenceType ==
  IsFiniteSet(Sentence) /\ Sentence = 1..Cardinality(Sentence) /\ MaxEvents \in Nat

VARIABLES
  page,       \* the script's variables and the media it has in use
  chain,      \* each sentence's link of playChain
  pred,       \* the link it follows, 0 for none
  buf,        \* what synthesis returned for it
  alerts,     \* alerts being spoken: the link they wait for, and wasOn
  turns,      \* chat turns sent and not acknowledged
  acked,      \* a turn is streaming
  left,       \* what is left of MaxEvents
  wish,       \* history: what the Master last asked of the voice toggle
  meddled     \* history: the toggle was in use during an alert or a permission request

loop == <<page, chain, pred, buf, alerts, turns, acked, left, wish, meddled>>

LinkState == {"unused", "queued", "await", "playing", "done"}

\* The variables of the script, and the media it has in use.
Page ==
  [voiceOn : BOOLEAN,
   checked : BOOLEAN, disabled : BOOLEAN, \* the toggle as it is shown
   mic : BOOLEAN, arming : Nat, \* pending getUserMedia
   speaking : BOOLEAN, held : BOOLEAN, recording : BOOLEAN, disarming : BOOLEAN,
   busy : BOOLEAN,
   recorder : BOOLEAN, \* the MediaRecorder is active
   onstop : Nat,       \* its stop events to come
   wake : BOOLEAN,     \* wakeRecognition is set
   others : Nat,       \* recognitions that run and are no longer referred to
   source : Sentence \cup {0},
   audible : SUBSET Sentence, \* speech buffers that sound
   cut : SUBSET Sentence,     \* stopped ones whose ended event is to come
   fresh : SUBSET Sentence,   \* enqueued under the current speechGen
   hello : BOOLEAN, helloCut : Nat, \* the affirmation: sounding, cut off
   busyClip : Nat, busyCut : Nat,   \* processing.wav, likewise
   stt : Nat,          \* transcriptions under way
   timer : BOOLEAN]    \* the 150 ms fallback after a turn

LoopTypeOK ==
  /\ page \in Page
  /\ chain \in [Sentence -> LinkState]
  /\ pred \in [Sentence -> Sentence \cup {0}]
  /\ buf \in [Sentence -> {"none", "audio", "empty"}]
  /\ alerts \subseteq [link : Sentence, wasOn : BOOLEAN]
  /\ turns \in Nat /\ acked \in BOOLEAN /\ wish \in BOOLEAN /\ meddled \in BOOLEAN
  /\ left \in 0..MaxEvents

\* voiceOn is remembered across reloads; the microphone is not, and the toggle is
\* drawn off until the first state is rendered.
LoopInit ==
  \E on \in BOOLEAN :
    /\ page = [voiceOn |-> on, checked |-> FALSE, disabled |-> FALSE, mic |-> FALSE, arming |-> 0,
               speaking |-> FALSE, held |-> FALSE, recording |-> FALSE, disarming |-> FALSE,
               busy |-> FALSE, recorder |-> FALSE, onstop |-> 0, wake |-> FALSE, others |-> 0,
               source |-> 0, audible |-> {}, cut |-> {}, fresh |-> {},
               hello |-> FALSE, helloCut |-> 0, busyClip |-> 0, busyCut |-> 0,
               stt |-> 0, timer |-> FALSE]
    /\ wish = on
    /\ chain = [i \in Sentence |-> "unused"]
    /\ pred = [i \in Sentence |-> 0]
    /\ buf = [i \in Sentence |-> "none"]
    /\ alerts = {} /\ turns = 0 /\ acked = FALSE /\ meddled = FALSE
    /\ left = MaxEvents

-----------------------------------------------------------------------------
(* The script's functions, as what they make of the page. *)

StartWake(p) ==
  IF p.voiceOn /\ ~p.wake /\ ~p.held /\ ~p.speaking
    THEN [p EXCEPT !.wake = TRUE]
    ELSE p

\* The recognition is let go of at once and ends later.
StopWake(p) ==
  IF p.wake THEN [p EXCEPT !.wake = FALSE, !.others = @ + 1] ELSE p

\* Everything that sounds is stopped.  A paused clip reports an error later, a
\* stopped buffer its end; queued sentences belong to an old generation.
StopSpeech(p) ==
  [p EXCEPT !.speaking = FALSE,
            !.fresh = {},
            !.hello = FALSE, !.helloCut = @ + (IF p.hello THEN 1 ELSE 0),
            !.busyClip = 0, !.busyCut = @ + p.busyClip,
            !.source = 0,
            !.audible = @ \ {p.source},
            !.cut = @ \cup (p.audible \cap {p.source})]

PlayClip(p) == StopWake([p EXCEPT !.speaking = TRUE])

PlayBuffer(p, i) ==
  StopWake([p EXCEPT !.speaking = TRUE, !.source = i, !.audible = @ \cup {i}])

\* onended of a speech buffer.
BufferEnds(p, i) ==
  LET q == [p EXCEPT !.source = 0, !.speaking = FALSE,
                     !.audible = @ \ {i}, !.cut = @ \ {i}]
  IN IF ~q.recording /\ ~q.held THEN StartWake(q) ELSE q

StartRecording(p) ==
  IF p.mic /\ ~p.recording
    THEN [p EXCEPT !.recording = TRUE, !.recorder = TRUE]
    ELSE p

\* What follows the affirmation.
Listen(p) == [StartRecording([p EXCEPT !.speaking = FALSE]) EXCEPT !.held = FALSE]

\* The recording is over: after disarmVoice it is thrown away, otherwise it is
\* transcribed while processing.wav plays.
OnRecordingStop(p) ==
  IF p.disarming
    THEN [p EXCEPT !.disarming = FALSE, !.recording = FALSE]
    ELSE [PlayClip([p EXCEPT !.recording = FALSE]) EXCEPT !.busyClip = @ + 1, !.stt = @ + 1]

StopRecording(p) ==
  IF p.recorder
    THEN [p EXCEPT !.recorder = FALSE, !.onstop = @ + 1]
    ELSE OnRecordingStop(p)

\* The guard of the fallbacks, which is not the one of startWake.
WakeIfQuiet(p) ==
  IF ~p.recording THEN StartWake(p) ELSE p

Disarm(p) ==
  LET off == [p EXCEPT !.disarming = TRUE, !.voiceOn = FALSE, !.held = FALSE]
  IN [StopRecording(StopWake(StopSpeech(off))) EXCEPT !.mic = FALSE]

\* enqueueSpeech: sentence i under the current generation, behind the last one.
Enqueue(p, i) ==
  /\ chain[i] = "unused" /\ \A j \in 1..(i - 1) : chain[j] # "unused"
  /\ chain' = [chain EXCEPT ![i] = "queued"]
  /\ pred' = [pred EXCEPT ![i] = IF i - 1 \in p.fresh THEN i - 1 ELSE 0]
  /\ page' = [p EXCEPT !.fresh = @ \cup {i}]

-----------------------------------------------------------------------------
(* Promise continuations: they run before the next event. *)

CanRun(i) == chain[i] = "queued" /\ (pred[i] # 0 => chain[pred[i]] = "done")
CanPlay(i) == chain[i] = "await" /\ buf[i] # "none"
Restorable(a) == chain[a.link] = "done"

Due == (\E i \in Sentence : CanRun(i) \/ CanPlay(i)) \/ \E a \in alerts : Restorable(a)

\* Mutant. A link of an old generation never resolves.
RunLinkOnce(i) ==
  /\ CanRun(i) /\ i \in page.fresh
  /\ chain' = [chain EXCEPT ![i] = "await"]
  /\ UNCHANGED <<page, pred, buf, alerts, turns, acked, left, wish, meddled>>

\* The predecessor is over: a link of an old generation is over as well.
RunLink(i) ==
  /\ CanRun(i)
  /\ chain' = [chain EXCEPT ![i] = IF i \in page.fresh THEN "await" ELSE "done"]
  /\ UNCHANGED <<page, pred, buf, alerts, turns, acked, left, wish, meddled>>

\* Mutant. The generation is not looked at again after the wait.
PlayLinkUnchecked(i) ==
  /\ CanPlay(i)
  /\ chain' = [chain EXCEPT ![i] = IF buf[i] = "audio" THEN "playing" ELSE "done"]
  /\ page' = IF buf[i] = "audio" THEN PlayBuffer(page, i)
             ELSE WakeIfQuiet([page EXCEPT !.speaking = FALSE])
  /\ UNCHANGED <<pred, buf, alerts, turns, acked, left, wish, meddled>>

\* Synthesis has answered: the generation is looked at once more.
PlayLink(i) ==
  /\ CanPlay(i)
  /\ IF i \notin page.fresh
       THEN chain' = [chain EXCEPT ![i] = "done"] /\ UNCHANGED page
       ELSE IF buf[i] = "audio"
         THEN chain' = [chain EXCEPT ![i] = "playing"] /\ page' = PlayBuffer(page, i)
         ELSE /\ chain' = [chain EXCEPT ![i] = "done"]
              /\ page' = WakeIfQuiet([page EXCEPT !.speaking = FALSE])
  /\ UNCHANGED <<pred, buf, alerts, turns, acked, left, wish, meddled>>

\* The alert's part of the chain has drained: the toggle goes back.
Restore(a) ==
  /\ a \in alerts /\ Restorable(a)
  /\ alerts' = alerts \ {a}
  /\ page' = IF a.wasOn THEN page ELSE [page EXCEPT !.voiceOn = FALSE, !.checked = FALSE]
  /\ UNCHANGED <<chain, pred, buf, turns, acked, left, wish, meddled>>

-----------------------------------------------------------------------------
(* Events.  Each is taken only when no continuation is due. *)

Spend == left > 0 /\ left' = left - 1

\* An event that only changes the page.
Only(p) == page' = p /\ UNCHANGED <<chain, pred, buf, alerts, turns, acked, wish, meddled>>

\* The toggle is clicked: the microphone is asked for, or voice is disarmed.
Click ==
  /\ Spend
  /\ ~page.disabled
  /\ meddled' = (meddled \/ alerts # {} \/ page.arming > 0)
  /\ IF page.checked
       THEN page' = Disarm([page EXCEPT !.checked = FALSE]) /\ wish' = FALSE
       ELSE page' = [page EXCEPT !.checked = TRUE, !.arming = @ + 1] /\ UNCHANGED wish
  /\ UNCHANGED <<chain, pred, buf, alerts, turns, acked>>

Granted ==
  /\ page.arming > 0
  /\ page' = StartWake([page EXCEPT !.arming = @ - 1, !.mic = TRUE, !.voiceOn = TRUE])
  /\ wish' = TRUE
  /\ meddled' = (meddled \/ alerts # {})
  /\ UNCHANGED <<chain, pred, buf, alerts, turns, acked, left>>

Denied ==
  /\ page.arming > 0
  /\ Only([page EXCEPT !.arming = @ - 1, !.checked = FALSE])
  /\ UNCHANGED left

\* A state frame, the poll or the answer to a change of the settings: the toggle
\* is drawn as voiceOn has it, or off and disabled when the state names no
\* engine that speaks.  A server never changes its engine, but the page outlives
\* the server.
RenderVoiceMeta ==
  \E avail \in BOOLEAN :
    /\ Only([page EXCEPT !.checked = avail /\ page.voiceOn, !.disabled = ~avail])
    /\ UNCHANGED left

\* Any recognition that still runs may hear the wake word.
Heard ==
  /\ page.wake \/ page.others > 0
  /\ ~page.recording /\ ~page.held /\ ~page.speaking
  /\ Spend
  /\ Only([PlayClip(StopWake([page EXCEPT !.held = TRUE])) EXCEPT !.hello = TRUE])

\* The current recognition ends by itself.
WakeEnds ==
  /\ page.wake
  /\ Only(WakeIfQuiet([page EXCEPT !.wake = FALSE]))
  /\ UNCHANGED left

\* One let go of earlier ends: its handler clears the reference to the current.
OtherEnds ==
  /\ page.others > 0
  /\ Only(WakeIfQuiet([page EXCEPT !.wake = FALSE,
                                   !.others = IF page.wake THEN @ ELSE @ - 1]))
  /\ UNCHANGED left

\* Mutant. A clip that fails does not resolve.
HelloEndsWell ==
  /\ page.hello /\ Only(Listen([page EXCEPT !.hello = FALSE]))
  /\ UNCHANGED left

\* The affirmation is over, or was cut and reports its error: the recorder runs.
HelloEnds ==
  /\ \/ page.hello /\ Only(Listen([page EXCEPT !.hello = FALSE]))
     \/ page.helloCut > 0 /\ Only(Listen([page EXCEPT !.helloCut = @ - 1]))
  /\ UNCHANGED left

\* processing.wav is over, or reports its error: nothing listens again here.
BusyClipEnds ==
  /\ \/ page.busyClip > 0 /\ Only([page EXCEPT !.busyClip = @ - 1, !.speaking = FALSE])
     \/ page.busyCut > 0 /\ Only([page EXCEPT !.busyCut = @ - 1, !.speaking = FALSE])
  /\ UNCHANGED left

Silence ==
  /\ page.recording /\ page.recorder
  /\ Only(StopRecording(page))
  /\ UNCHANGED left

OnStop ==
  /\ page.onstop > 0
  /\ Only(OnRecordingStop([page EXCEPT !.onstop = @ - 1]))
  /\ UNCHANGED left

\* Words were heard and the socket is open: a turn is sent, busy or not.
SttWords ==
  /\ page.stt > 0
  /\ Spend
  /\ page' = StartWake([page EXCEPT !.stt = @ - 1, !.busy = TRUE])
  /\ turns' = turns + 1
  /\ UNCHANGED <<chain, pred, buf, alerts, acked, wish, meddled>>

SttNothing ==
  /\ page.stt > 0
  /\ Only(StartWake([page EXCEPT !.stt = @ - 1]))
  /\ UNCHANGED left

Submit ==
  /\ ~page.busy
  /\ Spend
  /\ page' = [page EXCEPT !.busy = TRUE]
  /\ turns' = turns + 1
  /\ UNCHANGED <<chain, pred, buf, alerts, acked, wish, meddled>>

\* The server takes the turns of a socket one after the other.
Ack ==
  /\ turns > 0 /\ ~acked
  /\ acked' = TRUE /\ turns' = turns - 1
  /\ page' = StopSpeech(page)
  /\ UNCHANGED <<chain, pred, buf, alerts, left, wish, meddled>>

\* A streamed sentence is complete.
Token ==
  /\ acked /\ page.voiceOn
  /\ \E i \in Sentence : Enqueue(page, i)
  /\ UNCHANGED <<buf, alerts, turns, acked, left, wish, meddled>>

\* The turn is over, with a rest to speak or without.
Done ==
  /\ acked
  /\ acked' = FALSE
  /\ LET p == [page EXCEPT !.busy = FALSE, !.timer = TRUE] IN
     \/ page' = p /\ UNCHANGED <<chain, pred>>
     \/ page.voiceOn /\ \E i \in Sentence : Enqueue(p, i)
  /\ UNCHANGED <<buf, alerts, turns, left, wish, meddled>>

TurnRefused ==
  /\ turns > 0 /\ ~acked
  /\ turns' = turns - 1
  /\ page' = [page EXCEPT !.busy = FALSE, !.timer = TRUE]
  /\ UNCHANGED <<chain, pred, buf, alerts, acked, left, wish, meddled>>

\* The socket closes and is opened anew: its turns are not heard of again, and
\* the page stays busy.
LinkLost ==
  /\ acked \/ turns > 0
  /\ acked' = FALSE /\ turns' = 0
  /\ UNCHANGED <<page, chain, pred, buf, alerts, left, wish, meddled>>

TimerFires ==
  /\ page.timer
  /\ Only(WakeIfQuiet([page EXCEPT !.timer = FALSE]))
  /\ UNCHANGED left

\* Voice and its toggle go on together, where voice is off.
VoiceOnFor(p) == IF p.voiceOn THEN p ELSE [p EXCEPT !.voiceOn = TRUE, !.checked = TRUE]

\* Mutant. What is restored is the toggle as it was found.
AlertFound ==
  /\ Spend
  /\ \E i \in Sentence :
       /\ Enqueue(StopSpeech(VoiceOnFor(page)), i)
       /\ alerts' = alerts \cup {[link |-> i, wasOn |-> TRUE]}
  /\ meddled' = (meddled \/ page.arming > 0)
  /\ UNCHANGED <<buf, turns, acked, wish>>

\* An alert to be spoken: voice goes on for as long as it takes, and whatever
\* is being said is cut.
Alert ==
  /\ Spend
  /\ \E i \in Sentence :
       /\ Enqueue(StopSpeech(VoiceOnFor(page)), i)
       /\ alerts' = alerts \cup {[link |-> i, wasOn |-> page.voiceOn]}
  /\ meddled' = (meddled \/ page.arming > 0)
  /\ UNCHANGED <<buf, turns, acked, wish>>

\* The server answers a request for speech.  A request made after a buffer was
\* stopped is answered after that buffer's ended event.
Synthesized(i) ==
  /\ chain[i] \in {"queued", "await"} /\ buf[i] = "none"
  /\ i \in page.fresh => page.cut = {}
  /\ \E b \in {"audio", "empty"} : buf' = [buf EXCEPT ![i] = b]
  /\ UNCHANGED <<page, chain, pred, alerts, turns, acked, left, wish, meddled>>

BufferEnded(i) ==
  /\ i \in page.audible \cup page.cut
  /\ page' = BufferEnds(page, i)
  /\ chain' = [chain EXCEPT ![i] = "done"]
  /\ UNCHANGED <<pred, buf, alerts, turns, acked, left, wish, meddled>>

Continuation ==
  (\E i \in Sentence : RunLink(i) \/ PlayLink(i)) \/ \E a \in alerts : Restore(a)

\* What the browser and the server owe the page.
Owed ==
  \/ HelloEnds \/ BusyClipEnds \/ OnStop \/ SttWords \/ SttNothing \/ TimerFires
  \/ \E i \in Sentence : Synthesized(i) \/ BufferEnded(i)

Event ==
  \/ Owed
  \/ Click \/ Granted \/ Denied \/ RenderVoiceMeta \/ Heard \/ WakeEnds \/ OtherEnds \/ Silence
  \/ Submit \/ Ack \/ Token \/ Done \/ TurnRefused \/ LinkLost \/ Alert

LoopNext == Continuation \/ (~Due /\ Event)

\* Media that play end, media that were stopped report it, requests are
\* answered or time out.  Nobody has to click, speak or send anything.
LoopFairness ==
  /\ WF_loop(Continuation)
  /\ WF_loop(~Due /\ HelloEnds) /\ WF_loop(~Due /\ OnStop)
  /\ \A i \in Sentence : WF_loop(~Due /\ Synthesized(i)) /\ WF_loop(~Due /\ BufferEnded(i))

LoopSafeSpec == LoopInit /\ [][LoopNext]_loop
LoopSpec == LoopSafeSpec /\ LoopFairness

-----------------------------------------------------------------------------
(* Properties *)

\* Streamed replies and alerts never overlap: at most one sentence sounds, and
\* it belongs to what was said last, however often speech was cut while
\* sentences were queued, being synthesized or playing.
OneVoice == Cardinality(page.audible) <= 1 /\ page.audible \subseteq page.fresh

\* speakAlert switches voice on for the alert only: when none is being spoken
\* voiceOn is what the Master last asked for, whichever alerts overlapped or were
\* cut and whatever was rendered meanwhile, and the toggle shows no voice that
\* is off (a voice that is on it may hide: rendered while the browser asks for
\* the microphone, or without an engine).  Not so if the toggle is used in the
\* meantime.
RestoresToggle ==
  alerts = {} /\ page.arming = 0 /\ ~meddled =>
    page.voiceOn = wish /\ (page.checked => page.voiceOn)

\* A wake word that was answered never leaves the page holding the microphone
\* back for good, even when the affirmation is cut before it ends.
WakeLetsGo == page.held ~> ~page.held

\* Every alert comes to its end and restores, also one that was cut by the next.
AlertsEnd == \A i \in Sentence : (\E a \in alerts : a.link = i) ~> (\A a \in alerts : a.link # i)

=============================================================================
