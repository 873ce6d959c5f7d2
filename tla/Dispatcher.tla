----------------------------- MODULE Dispatcher -----------------------------
(***************************************************************************)
(* The background dispatcher of internal/gateway/handler.go: one worker    *)
(* goroutine and one buffered channel per sender, workers that retire when *)
(* idle and are recreated on the next message, and a close that drains.    *)
(*                                                                         *)
(* Atomicity follows the mutex d.mu: enqueue, the retirement check and the *)
(* first half of close each run under it and are one step; a channel       *)
(* receive, a timer firing and every call out of process are steps of      *)
(* their own.  A channel and its worker are created together and share an  *)
(* identity drawn from Chan.                                               *)
(***************************************************************************)
EXTENDS Naturals, Sequences

CONSTANTS
  Sender,    \* sender JIDs
  Msg,       \* inbound messages that reach enqueue
  From,      \* From[m]: the sender of m
  Kind,      \* Kind[m]: what m carries, one of MsgKind
  Chan,      \* identities for the channels ever made (a bound for TLC)
  Capacity,  \* the channel buffer, 16 in the code
  NoMsg, NoChan, NoSender

\* "text": text only; "captioned": text and media; "bare": media only.  Handle
\* enqueues nothing else, so process always has words or media to work on.
MsgKind == {"text", "captioned", "bare"}

ASSUME FromType == From \in [Msg -> Sender]
ASSUME KindType == Kind \in [Msg -> MsgKind]
ASSUME CapacityType == Capacity \in Nat \ {0}
ASSUME NoMsgIsNew == NoMsg \notin Msg
ASSUME NoChanIsNew == NoChan \notin Chan
ASSUME NoSenderIsNew == NoSender \notin Sender

VARIABLES
  queues,     \* d.queues: the registered channel of each sender
  buf,        \* the content of each channel
  chClosed,   \* channels that close() has closed
  owner,      \* the sender a channel's worker was started for
  pc,         \* where each worker stands
  current,    \* the message each worker is processing
  closed,     \* d.closed
  cancelled,  \* d.ctx has been cancelled
  accepted,   \* history: messages put on a channel, per sender, in order
  lost,       \* history: messages enqueue turned away
  finished,   \* history: messages processed to the end, per sender, in order
  outbox,     \* history: what the transport delivered to each sender, in order
  alerts      \* history: messages whose rate limit was reported to the Master

chanVars == <<queues, buf, chClosed, owner>>
workVars == <<pc, current>>
ctrlVars == <<closed, cancelled>>
histVars == <<accepted, lost, finished, outbox, alerts>>
vars == <<chanVars, workVars, ctrlVars, histVars>>

\* Worker states: not started; selecting on channel and timer; timer fired and
\* about to lock; running the media processors; reporting a media failure;
\* waiting for the model; sending the outcome; returned.
WorkerPC == {"unused", "select", "retiring", "media", "note", "ack", "model",
             "reply", "silenced", "apology", "done"}

\* States in which the worker is inside process().
Busy == {"media", "note", "ack", "model", "reply", "silenced", "apology"}

HasMedia(m) == Kind[m] \in {"captioned", "bare"}
HasText(m) == Kind[m] \in {"text", "captioned"}

\* Goroutines counted by d.wg.
Live == {c \in Chan : pc[c] \notin {"unused", "done"}}

Init ==
  /\ queues = [s \in Sender |-> NoChan]
  /\ buf = [c \in Chan |-> <<>>]
  /\ chClosed = {}
  /\ owner = [c \in Chan |-> NoSender]
  /\ pc = [c \in Chan |-> "unused"]
  /\ current = [c \in Chan |-> NoMsg]
  /\ closed = FALSE
  /\ cancelled = FALSE
  /\ accepted = [s \in Sender |-> <<>>]
  /\ lost = {}
  /\ finished = [s \in Sender |-> <<>>]
  /\ outbox = [s \in Sender |-> <<>>]
  /\ alerts = {}

-----------------------------------------------------------------------------
(* enqueue *)

\* A closed dispatcher refuses: enqueue returns before it touches the queues.
Refuse(m) ==
  /\ closed
  /\ lost' = lost \cup {m}
  /\ UNCHANGED <<chanVars, workVars, ctrlVars, accepted, finished, outbox, alerts>>

\* First message of a sender, or first since its worker retired: a new
\* channel, a new worker, and the message already in the buffer.
EnqueueNew(m) ==
  /\ ~closed
  /\ queues[From[m]] = NoChan
  /\ \E c \in Chan :
       /\ pc[c] = "unused"
       /\ queues' = [queues EXCEPT ![From[m]] = c]
       /\ owner' = [owner EXCEPT ![c] = From[m]]
       /\ pc' = [pc EXCEPT ![c] = "select"]
       /\ buf' = [buf EXCEPT ![c] = Append(@, m)]
  /\ accepted' = [accepted EXCEPT ![From[m]] = Append(@, m)]
  /\ UNCHANGED <<chClosed, current, ctrlVars, lost, finished, outbox, alerts>>

\* The sender has a channel with room: the non-blocking send succeeds.
EnqueueExisting(m) ==
  LET c == queues[From[m]] IN
  /\ ~closed
  /\ c # NoChan
  /\ Len(buf[c]) < Capacity
  /\ buf' = [buf EXCEPT ![c] = Append(@, m)]
  /\ accepted' = [accepted EXCEPT ![From[m]] = Append(@, m)]
  /\ UNCHANGED <<queues, chClosed, owner, workVars, ctrlVars, lost,
                 finished, outbox, alerts>>

\* The channel is full: the select takes its default and the message is lost.
Drop(m) ==
  /\ ~closed
  /\ queues[From[m]] # NoChan
  /\ Len(buf[queues[From[m]]]) >= Capacity
  /\ lost' = lost \cup {m}
  /\ UNCHANGED <<chanVars, workVars, ctrlVars, accepted, finished, outbox, alerts>>

Enqueue(m) == Refuse(m) \/ EnqueueNew(m) \/ EnqueueExisting(m) \/ Drop(m)

-----------------------------------------------------------------------------
(* worker *)

\* Receive from a channel that holds something, closed or not.
Receive(c) ==
  LET m == Head(buf[c]) IN
  /\ pc[c] = "select"
  /\ buf[c] # <<>>
  /\ buf' = [buf EXCEPT ![c] = Tail(@)]
  /\ current' = [current EXCEPT ![c] = m]
  /\ pc' = [pc EXCEPT ![c] = IF HasMedia(m) THEN "media" ELSE "model"]
  /\ UNCHANGED <<queues, chClosed, owner, ctrlVars, histVars>>

\* Mutant. The worker leaves as soon as its channel is closed, drained or not.
ExitUndrained(c) ==
  /\ pc[c] = "select"
  /\ c \in chClosed
  /\ pc' = [pc EXCEPT ![c] = "done"]
  /\ UNCHANGED <<chanVars, current, ctrlVars, histVars>>

\* Receive on a closed and drained channel: the worker returns.
Exit(c) ==
  /\ pc[c] = "select"
  /\ buf[c] = <<>>
  /\ c \in chClosed
  /\ pc' = [pc EXCEPT ![c] = "done"]
  /\ UNCHANGED <<chanVars, current, ctrlVars, histVars>>

\* The idle timer wins the select; nothing is locked yet, and when both cases
\* are ready Go picks either.
IdleTimer(c) ==
  /\ pc[c] = "select"
  /\ pc' = [pc EXCEPT ![c] = "retiring"]
  /\ UNCHANGED <<chanVars, current, ctrlVars, histVars>>

\* Mutant. Retirement forgets to look into the channel again under the lock.
MayRetireUnchecked(c) == queues[owner[c]] = c /\ ~closed

\* Under the mutex: nothing pending, still registered, not closing.
MayRetire(c) == buf[c] = <<>> /\ queues[owner[c]] = c /\ ~closed

\* Mutant. Retirement deletes the registration but the goroutine loops on.
RetireAndLoop(c) ==
  /\ pc[c] = "retiring"
  /\ MayRetire(c)
  /\ queues' = [queues EXCEPT ![owner[c]] = NoChan]
  /\ pc' = [pc EXCEPT ![c] = "select"]
  /\ UNCHANGED <<buf, chClosed, owner, current, ctrlVars, histVars>>

Retire(c) ==
  /\ pc[c] = "retiring"
  /\ MayRetire(c)
  /\ queues' = [queues EXCEPT ![owner[c]] = NoChan]
  /\ pc' = [pc EXCEPT ![c] = "done"]
  /\ UNCHANGED <<buf, chClosed, owner, current, ctrlVars, histVars>>

KeepWorking(c) ==
  /\ pc[c] = "retiring"
  /\ ~MayRetire(c)
  /\ pc' = [pc EXCEPT ![c] = "select"]
  /\ UNCHANGED <<chanVars, current, ctrlVars, histVars>>

-----------------------------------------------------------------------------
(* process *)

Goto(c, to) ==
  /\ pc' = [pc EXCEPT ![c] = to]
  /\ UNCHANGED <<chanVars, current, ctrlVars, accepted, lost, finished>>

\* A Send that the transport delivers, or one that fails and is only logged.
Send(c, kind) ==
  LET s == owner[c] IN
  \/ outbox' = [outbox EXCEPT ![s] = Append(@, [msg |-> current[c], kind |-> kind])]
  \/ outbox' = outbox

\* process returns to the worker loop.
Done(c) ==
  /\ finished' = [finished EXCEPT ![owner[c]] = Append(@, current[c])]
  /\ current' = [current EXCEPT ![c] = NoMsg]
  /\ pc' = [pc EXCEPT ![c] = "select"]
  /\ UNCHANGED <<chanVars, ctrlVars, accepted, lost>>

\* processMedia succeeded, and its lines make the text to answer; or it failed
\* at some attachment and the caption, if any, has to do.
MediaOutcome(c) ==
  /\ pc[c] = "media"
  /\ \/ Goto(c, "model")
     \/ Goto(c, IF HasText(current[c]) THEN "note" ELSE "ack")
  /\ UNCHANGED <<outbox, alerts>>

\* Tell the sender which attachment failed, then answer from the caption.
SendNote(c) ==
  /\ pc[c] = "note"
  /\ Send(c, "note")
  /\ Goto(c, "model")
  /\ UNCHANGED alerts

\* Mutant. After the failed-attachment ack the worker forgets to let go of the message
\* and its state names nothing process() knows.
SendAckAndLeave(c) ==
  /\ pc[c] = "ack"
  /\ Send(c, "ack")
  /\ Goto(c, "acked")
  /\ UNCHANGED alerts

\* Mutant. After the failed-attachment ack, process falls through to the model.
SendAckAndContinue(c) ==
  /\ pc[c] = "ack"
  /\ Send(c, "ack")
  /\ Goto(c, "model")
  /\ UNCHANGED alerts

\* Nothing but the failed attachment: acknowledge it and stop.
SendAck(c) ==
  /\ pc[c] = "ack"
  /\ Send(c, "ack")
  /\ Done(c)
  /\ UNCHANGED alerts

\* butler.Reply returns a reply, a rate limit, or another error.
ModelOutcome(c) ==
  /\ pc[c] = "model"
  /\ \E to \in {"reply", "silenced", "apology"} : Goto(c, to)
  /\ UNCHANGED <<outbox, alerts>>

\* Rate limited: the Master is told in his own chat before the sender is.
AlertMaster(c) ==
  /\ pc[c] = "silenced"
  /\ alerts' \in {alerts, alerts \cup {current[c]}}
  /\ Goto(c, "apology")
  /\ UNCHANGED outbox

SendApology(c) ==
  /\ pc[c] = "apology"
  /\ Send(c, "apology")
  /\ Done(c)
  /\ UNCHANGED alerts

SendReply(c) ==
  /\ pc[c] = "reply"
  /\ Send(c, "reply")
  /\ Done(c)
  /\ UNCHANGED alerts

Process(c) ==
  \/ MediaOutcome(c) \/ SendNote(c) \/ SendAck(c)
  \/ ModelOutcome(c) \/ AlertMaster(c) \/ SendApology(c) \/ SendReply(c)

-----------------------------------------------------------------------------
(* close *)

\* Mutant. close sets the flag but leaves the channels open.
StopAcceptingOnly ==
  /\ ~closed
  /\ closed' = TRUE
  /\ UNCHANGED <<chanVars, workVars, cancelled, histVars>>

\* First half, under the mutex: refuse new work and close every channel.
StopAccepting ==
  /\ ~closed
  /\ closed' = TRUE
  /\ chClosed' = {queues[s] : s \in Sender} \ {NoChan}
  /\ UNCHANGED <<queues, buf, owner, workVars, cancelled, histVars>>

\* Mutant. close cancels the context without waiting for the workers.
CancelAtOnce ==
  /\ closed
  /\ ~cancelled
  /\ cancelled' = TRUE
  /\ UNCHANGED <<chanVars, workVars, closed, histVars>>

\* wg.Wait has returned: no worker is left, and the context is cancelled.
Cancel ==
  /\ closed
  /\ ~cancelled
  /\ Live = {}
  /\ cancelled' = TRUE
  /\ UNCHANGED <<chanVars, workVars, closed, histVars>>

-----------------------------------------------------------------------------
Work(c) == Receive(c) \/ Exit(c) \/ Retire(c) \/ KeepWorking(c) \/ Process(c)

In(m, seq) == \E i \in DOMAIN seq : seq[i] = m

\* The handler in front of the dispatcher drops a message id it has seen, so
\* enqueue is called once for each message.
Fresh(m) == m \notin lost /\ ~In(m, accepted[From[m]])

Next ==
  \/ \E m \in Msg : Fresh(m) /\ Enqueue(m)
  \/ \E c \in Chan : Work(c) \/ IdleTimer(c)
  \/ StopAccepting
  \/ Cancel

\* A runnable goroutine runs, and every call a worker makes returns: model
\* calls, media processors and sends all carry timeouts.  The select may
\* favour the timer for ever only if the timer keeps firing first, which a
\* 10-minute timer cannot do while a message is ready, so receiving is
\* strongly fair.
Fairness ==
  /\ \A c \in Chan : SF_vars(Receive(c) \/ Exit(c))
  /\ \A c \in Chan : WF_vars(Retire(c) \/ KeepWorking(c) \/ Process(c))
  /\ WF_vars(Cancel)

SafeSpec == Init /\ [][Next]_vars
Spec == SafeSpec /\ Fairness

-----------------------------------------------------------------------------
(* properties *)

TypeOK ==
  /\ queues \in [Sender -> Chan \cup {NoChan}]
  /\ buf \in [Chan -> Seq(Msg)]
  /\ chClosed \subseteq Chan
  /\ owner \in [Chan -> Sender \cup {NoSender}]
  /\ pc \in [Chan -> WorkerPC]
  /\ current \in [Chan -> Msg \cup {NoMsg}]
  /\ closed \in BOOLEAN
  /\ cancelled \in BOOLEAN
  /\ accepted \in [Sender -> Seq(Msg)]
  /\ lost \subseteq Msg
  /\ finished \in [Sender -> Seq(Msg)]
  /\ outbox \in [Sender -> Seq([msg : Msg, kind : {"note", "ack", "apology", "reply"}])]
  /\ alerts \subseteq Msg

\* What the registered channel of s still holds, and what its worker holds.
Waiting(s) == IF queues[s] = NoChan THEN <<>> ELSE buf[queues[s]]
InHand(s) == IF queues[s] = NoChan THEN NoMsg ELSE current[queues[s]]
InHandSeq(s) == IF InHand(s) = NoMsg THEN <<>> ELSE <<InHand(s)>>

\* An accepted message is, at every moment, finished, in its worker's hands or
\* waiting in the registered channel, once and in the order of acceptance:
\* worker retirement, recreation and close lose, repeat and reorder nothing
\* (handler.go: "a retiring worker can never orphan an in-flight send").
NothingLostOrReordered ==
  \A s \in Sender : accepted[s] = (finished[s] \o InHandSeq(s)) \o Waiting(s)

\* Two workers never serve one sender, whatever retires and reappears: this is
\* what makes replies serial per sender ("one serial worker goroutine per
\* sender so replies arrive in order").
OneWorkerPerSender ==
  \A c, d \in Live : owner[c] = owner[d] => c = d

Position(m, seq) == CHOOSE i \in DOMAIN seq : seq[i] = m

\* What a sender receives follows the order in which his messages were
\* accepted, and after the closing word on a message (reply, apology, ack)
\* nothing more about that message arrives.
AnswersInOrder ==
  \A s \in Sender : \A i, j \in DOMAIN outbox[s] :
    LET p(k) == Position(outbox[s][k].msg, accepted[s]) IN
    i < j => \/ p(i) < p(j)
             \/ p(i) = p(j) /\ outbox[s][i].kind = "note"

\* Once close has cancelled the shared context no worker is left to call
\* anything under it, and everything accepted was dealt with.
CloseDrains ==
  cancelled => /\ Live = {}
               /\ \A s \in Sender : finished[s] = accepted[s]

\* A message put on a channel is processed to the end, also when close,
\* retirement and recreation come in between.
AcceptedIsFinished ==
  \A m \in Msg : In(m, accepted[From[m]]) ~> In(m, finished[From[m]])

\* close returns: every worker notices its closed channel and leaves.
CloseReturns == closed ~> cancelled

\* The dispatcher implements the mailbox specification: a sender's mailbox is
\* the buffer of its registered channel.
Mailboxes == INSTANCE OrderedReplies WITH
  mailbox <- [s \in Sender |-> Waiting(s)],
  serving <- [s \in Sender |-> InHand(s)],
  phase <- IF cancelled THEN "closed" ELSE IF closed THEN "closing" ELSE "open"

Implements == Mailboxes!Spec

=============================================================================
