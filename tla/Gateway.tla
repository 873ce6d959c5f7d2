------------------------------ MODULE Gateway -------------------------------
(***************************************************************************)
(* The front door of internal/gateway as WhatsApp drives it: the event     *)
(* sink of internal/whatsapp (staleness filter, echo tracker), the stages  *)
(* of Handler.Handle (dedup, echo prefix, gate, urgent phrase, fast path,  *)
(* acknowledgement, enqueue) and the workers that answer.                  *)
(*                                                                         *)
(* Every mutex of the code (dedupMu, lastAlertMu, the tracker's, the       *)
(* dispatcher's) makes one step of what it protects; between two of them,  *)
(* and around every call to the transport or the model, others run.  The   *)
(* dispatcher appears as the mailboxes of OrderedReplies, which Dispatcher *)
(* implements.  What Clark sends to the Master's chat goes through the     *)
(* Master's own account, so it can come back as a message "from me".       *)
(***************************************************************************)
EXTENDS Naturals, FiniteSets, SequencesExt

CONSTANTS
  Sender,     \* private chats that may write; a chat and its sender coincide
  Master,     \* the Master's own chat
  Vip,        \* senders on the VIP list
  Msg,        \* messages people write
  From,       \* From[m]: who writes m
  Form,       \* Form[m]: what m may contain; it is written with one of these
  Caller,     \* goroutines in which the transport may call OnEvent
  Capacity,   \* the buffer of a sender's queue, 16 in the code
  Cooldown,   \* bypassCooldown, 90 seconds
  DedupTTL,   \* dedupTTL, 10 minutes
  EchoCap,    \* 10000
  MaxTime,    \* bound on the clock, for TLC
  MaxEntries, \* bound on how often messages get past the dedup, for TLC
  MaxBoots,   \* bound on restarts, for TLC
  MaxEchoes,  \* bound on the copies of Clark's messages that come back, for TLC
  NoItem

\* "text" may be the caption of an attachment, "media" is one without a
\* caption; "urgent" contains the bypass phrase; "branded" starts with Clark's own prefix.
MsgForm == {"text", "urgent", "media", "nothing", "branded"}

\* What Clark sends: the Master's "one moment", the note that an attachment
\* could not be used, the final words to a sender,
\* the alert cascade's copy to the Master's chat and the rate-limit notice.
Final == {"reply", "apology", "mediaAck", "alerted", "cooldown"}
ToMaster == {"alarm", "silenced"}
OutKind == {"ack", "note"} \cup Final \cup ToMaster

Out == [kind : OutKind, about : Msg]
Item == Msg \cup Out
Goroutine == Caller \cup Sender     \* a sender's worker carries his name

ASSUME SenderType == Master \in Sender /\ Vip \subseteq Sender /\ Caller \cap Sender = {}
ASSUME MsgType == From \in [Msg -> Sender] /\ Form \in [Msg -> SUBSET MsgForm] /\ Msg \cap Out = {}
ASSUME BoundType ==
  /\ {Cooldown, DedupTTL, MaxTime, MaxEntries, MaxBoots, MaxEchoes} \subseteq Nat
  /\ {Capacity, EchoCap} \subseteq Nat \ {0}
  /\ NoItem \notin Item

VARIABLES
  now,          \* the clock
  boots,        \* restarts so far
  wire,         \* what WhatsApp may deliver, stamped with a life: [item, life]
  form,         \* what a message contains, however often it is delivered
  dedup,        \* Handler.dedup: ids seen, and when: [item, at]
  lastAlert,    \* Handler.lastAlert: [chat, at]
  tracked,      \* EchoTracker: the ids it remembers, oldest first
  pc, item,     \* of each goroutine: where it is and what it works on
  read,         \* the clock as alertAllowed read it
  todo,         \* of each goroutine: what it has yet to send or enqueue
  mailbox, serving, finished, phase,  \* the dispatcher
  entered,      \* history: when m got past the dedup, in all lives: [life, at], in order
  cascades,     \* history: alert stamps of each chat in this life, in order
  admitted,     \* history: messages that got past the gate with something to answer
  answered,     \* history: messages whose sender was sent a final word
  lost          \* history: messages turned away by the queue or killed

network == <<now, boots, wire, form>>
memory == <<dedup, lastAlert, tracked>>
control == <<pc, item, read, todo>>
dispatcher == <<mailbox, serving, finished, phase>>
history == <<entered, cascades, admitted, answered, lost>>
vars == <<network, memory, control, dispatcher, history>>

\* Whose chat x arrives in, and what Handle finds in it.
Owner(x) == IF x \in Msg THEN From[x] ELSE Master
Contents(x) == IF x \in Msg THEN form[x] ELSE "text"

Mailboxes == INSTANCE OrderedReplies WITH
  Msg <- Item, From <- [x \in Item |-> Owner(x)], NoMsg <- NoItem

Init ==
  /\ now = 0 /\ boots = 0
  /\ wire = {}
  /\ form = [m \in Msg |-> "unwritten"]
  /\ dedup = {} /\ lastAlert = {} /\ tracked = <<>>
  /\ pc = [g \in Goroutine |-> "idle"]
  /\ item = [g \in Goroutine |-> NoItem]
  /\ read = [g \in Goroutine |-> 0]
  /\ todo = [g \in Goroutine |-> <<>>]
  /\ Mailboxes!Init
  /\ entered = [m \in Msg |-> <<>>]
  /\ cascades = [s \in Sender |-> <<>>]
  /\ admitted = {} /\ answered = {} /\ lost = {}

-----------------------------------------------------------------------------
(* the world *)

\* Somebody writes m.
Write(m) ==
  /\ \A w \in wire : w.item # m
  /\ wire' = wire \cup {[item |-> m, life |-> boots]}
  /\ \E f \in Form[m] : form' = [form EXCEPT ![m] = f]
  /\ UNCHANGED <<now, boots, memory, control, dispatcher, history>>

Tick ==
  /\ now < MaxTime
  /\ now' = now + 1
  /\ UNCHANGED <<boots, wire, form, memory, control, dispatcher, history>>

Waiting(s) == {mailbox[s][i] : i \in DOMAIN mailbox[s]}

\* The process dies, or ends after Close, and is started again, at a later
\* instant; everything in memory is gone, the status is in the database.
Restart ==
  /\ boots < MaxBoots /\ now < MaxTime
  /\ boots' = boots + 1 /\ now' = now + 1
  /\ dedup' = {} /\ lastAlert' = {} /\ tracked' = <<>>
  /\ pc' = [g \in Goroutine |-> "idle"]
  /\ item' = [g \in Goroutine |-> NoItem]
  /\ read' = [g \in Goroutine |-> 0]
  /\ todo' = [g \in Goroutine |-> <<>>]
  /\ mailbox' = [s \in Sender |-> <<>>]
  /\ serving' = [s \in Sender |-> NoItem]
  /\ finished' = [s \in Sender |-> <<>>]
  /\ phase' = "open"
  /\ cascades' = [s \in Sender |-> <<>>]
  /\ lost' = lost \cup (Msg \cap ({item[g] : g \in Goroutine}
                                  \cup UNION {Waiting(s) : s \in Sender}))
  /\ UNCHANGED <<wire, form, entered, admitted, answered>>

-----------------------------------------------------------------------------
(* OnEvent *)

Start(g, x) ==
  /\ pc' = [pc EXCEPT ![g] = "dedup"]
  /\ item' = [item EXCEPT ![g] = x]

\* filterMessage: connectedAt is taken when the handler is built, so it lies
\* after every timestamp of an earlier life.  (Timestamps are whole seconds: one
\* of the first second of this life may be dropped too, like any delivery.)
Fresh(w) == w.life = boots

Tracked == {tracked[i] : i \in DOMAIN tracked}

\* Messages that got past the dedup, or may yet.
Entries == Cardinality({e \in Msg \X (1..MaxEntries) : e[2] \in DOMAIN entered[e[1]]})
           + Cardinality({g \in Caller : pc[g] = "dedup" /\ item[g] \in Msg})

\* A delivery, the first or a repeated one.  The tracker eats an id it knows;
\* everything else enters Handle.
OnEvent(g) ==
  \E w \in wire :
    /\ pc[g] = "idle"
    /\ Fresh(w)
    /\ w.item \in Msg => Entries < MaxEntries
    /\ \/ /\ w.item \in Tracked
          /\ tracked' = Remove(tracked, w.item)
          /\ UNCHANGED <<pc, item>>
       \/ /\ w.item \notin Tracked
          /\ Start(g, w.item)
          /\ UNCHANGED tracked
    /\ UNCHANGED <<network, dedup, lastAlert, read, todo, dispatcher, history>>

-----------------------------------------------------------------------------
(* Handle *)

Return(g) ==
  /\ pc' = [pc EXCEPT ![g] = "idle"]
  /\ item' = [item EXCEPT ![g] = NoItem]
  /\ UNCHANGED todo

Goto(g, to) ==
  /\ pc' = [pc EXCEPT ![g] = to]
  /\ UNCHANGED <<item, todo>>

\* Deliver what is still to do, in order: sends, or the handover to the queue.
Do(g, steps) ==
  /\ pc' = [pc EXCEPT ![g] = "todo"]
  /\ todo' = [todo EXCEPT ![g] = steps]
  /\ UNCHANGED item

\* Look up and insert under dedupMu, stamped with the clock.
Dedup(g) ==
  LET x == item[g] IN
  /\ pc[g] = "dedup"
  /\ \/ /\ \E e \in dedup : e.item = x
        /\ Return(g)
        /\ UNCHANGED <<dedup, entered>>
     \/ /\ \A e \in dedup : e.item # x
        /\ dedup' = dedup \cup {[item |-> x, at |-> now]}
        /\ entered' = IF x \in Msg
                      THEN [entered EXCEPT ![x] = Append(@, [life |-> boots, at |-> now])]
                      ELSE entered
        /\ Goto(g, "evict")
  /\ UNCHANGED <<network, lastAlert, tracked, read, dispatcher,
                 cascades, admitted, answered, lost>>

\* Mutant. Everything older than this instant goes.
EvictOlder(g) ==
  /\ pc[g] = "evict"
  /\ dedup' = {e \in dedup : e.at >= now}
  /\ Goto(g, "gate")
  /\ UNCHANGED <<network, lastAlert, tracked, read, dispatcher, history>>

\* evictDedup takes the lock again, and reads the clock again: entries older
\* than dedupTTL go.
Evict(g) ==
  /\ pc[g] = "evict"
  /\ dedup' = {e \in dedup : e.at + DedupTTL >= now}
  /\ Goto(g, "gate")
  /\ UNCHANGED <<network, lastAlert, tracked, read, dispatcher, history>>

\* Mutant. Only the tracker recognises what Clark sent.
BrandedByPeople(x) == Contents(x) = "branded"

\* IsClarkEcho: the messenger brands all it sends.
Branded(x) == x \in Out \/ Contents(x) = "branded"

\* The Master's chat passes always, a VIP's when the status the assistant keeps
\* for him is on - it may change at any time -, nobody else's ever.
Passes(x) == IF Owner(x) = Master THEN {TRUE}
             ELSE IF Owner(x) \in Vip THEN BOOLEAN ELSE {FALSE}

\* What collectMedia makes of an attachment: with a vision model it is
\* downloaded and turned into frames, audio or text, each of which may fail,
\* exceed its limit or not apply; without one it is left alone.
Collected == BOOLEAN

\* From the echo check to the urgent phrase, and the clock for the latter.
Gate(g) ==
  LET x == item[g] IN
  /\ pc[g] = "gate"
  /\ \/ /\ Branded(x) \/ FALSE \in Passes(x) \/ Contents(x) = "nothing"
        /\ Return(g)
        /\ UNCHANGED <<read, admitted>>
     \/ /\ ~Branded(x) /\ TRUE \in Passes(x)
        /\ admitted' = admitted \cup ({x} \cap Msg)
        /\ \/ /\ Contents(x) = "media" /\ FALSE \in Collected
              /\ Do(g, <<"mediaAck">>)
              /\ UNCHANGED read
           \/ /\ Contents(x) = "text" \/ (Contents(x) = "media" /\ TRUE \in Collected)
              /\ Goto(g, "prehandle")
              /\ UNCHANGED read
           \/ /\ Contents(x) = "urgent"
              /\ Goto(g, "cooldown")
              /\ read' = [read EXCEPT ![g] = now]
  /\ UNCHANGED <<network, memory, dispatcher, entered, cascades, answered, lost>>

\* The chat's last cascade lies too close to the clock read before the lock.
Held(g) == \E e \in lastAlert : e.chat = Owner(item[g]) /\ read[g] < e.at + Cooldown

Cascade(g) ==
  /\ cascades' = [cascades EXCEPT ![Owner(item[g])] = Append(@, read[g])]
  /\ Do(g, <<"alarm", "alerted">>)

\* Mutant. A cascade that is let through is not remembered.
AlertAllowedUnmarked(g) ==
  /\ pc[g] = "cooldown"
  /\ \/ /\ Held(g)
        /\ Do(g, <<"cooldown">>)
        /\ UNCHANGED cascades
     \/ /\ ~Held(g)
        /\ Cascade(g)
  /\ read' = [read EXCEPT ![g] = 0]
  /\ UNCHANGED <<network, memory, dispatcher, entered, admitted, answered, lost>>

\* alertAllowed under lastAlertMu; then the cascade, whose copy to the Master's
\* chat and whose acknowledgement to the sender go through this transport.
AlertAllowed(g) ==
  LET chat == Owner(item[g]) IN
  /\ pc[g] = "cooldown"
  /\ \/ /\ Held(g)
        /\ Do(g, <<"cooldown">>)
        /\ UNCHANGED <<lastAlert, cascades>>
     \/ /\ ~Held(g)
        /\ lastAlert' = {e \in lastAlert : e.chat # chat}
                          \cup {[chat |-> chat, at |-> read[g]]}
        /\ Cascade(g)
  /\ read' = [read EXCEPT ![g] = 0]
  /\ UNCHANGED <<network, dedup, tracked, dispatcher,
                 entered, admitted, answered, lost>>

\* The fast path, which knows no empty command, answers or fails; anything it
\* leaves goes to the queue, with an acknowledgement first if the Master wrote it.
Prehandle(g) ==
  /\ pc[g] = "prehandle"
  /\ \/ Contents(item[g]) # "media" /\ Do(g, <<"reply">>)
     \/ Contents(item[g]) # "media" /\ Do(g, <<"apology">>)
     \/ Do(g, IF Owner(item[g]) = Master THEN <<"ack", "enqueue">> ELSE <<"enqueue">>)
  /\ UNCHANGED <<network, memory, read, dispatcher, history>>

-----------------------------------------------------------------------------
(* sending *)

Advance(g) == todo' = [todo EXCEPT ![g] = Tail(@)]

\* Mutant. A failed send abandons the rest of the work.
TransmitOrGiveUp(g) ==
  LET kind == Head(todo[g]) IN
  /\ pc[g] = "todo" /\ todo[g] # <<>>
  /\ kind # "enqueue"
  /\ todo' = [todo EXCEPT ![g] = <<>>]
  /\ answered' = IF kind \in Final THEN answered \cup {item[g]} ELSE answered
  /\ UNCHANGED <<network, memory, pc, item, read, dispatcher,
                 entered, cascades, admitted, lost>>

\* SendMessage fails, or WhatsApp has the message: a copy in the Master's chat
\* can come back at once, although the tracker has not seen its id.
Transmit(g) ==
  LET kind == Head(todo[g])
      out == [kind |-> kind, about |-> item[g]] IN
  /\ pc[g] = "todo" /\ todo[g] # <<>>
  /\ kind # "enqueue"
  /\ answered' = IF kind \in Final THEN answered \cup {item[g]} ELSE answered
  /\ \/ Advance(g) /\ UNCHANGED <<wire, pc>>
     \/ /\ pc' = [pc EXCEPT ![g] = "mark"]
        /\ \/ wire' = wire
           \/ /\ kind \in ToMaster \/ Owner(item[g]) = Master
              /\ Cardinality({w \in wire : w.item \in Out}) < MaxEchoes
              /\ wire' = wire \cup {[item |-> out, life |-> boots]}
        /\ UNCHANGED todo
  /\ UNCHANGED <<now, boots, form, memory, item, read,
                 dispatcher, entered, cascades, admitted, lost>>

\* Mutant. The cap is forgotten.
RememberingAll(out) == {Append(SelectSeq(tracked, LAMBDA x : x # out), out)}

\* What the tracker may remember once it has an id more: expiry after an hour
\* and eviction at the cap both take the oldest first.
Remembering(out) ==
  LET older == SelectSeq(tracked, LAMBDA x : x # out) IN
  {Append(SubSeq(older, k, Len(older)), out) :
     k \in {i \in 1..(Len(older) + 1) : Len(older) - i + 1 < EchoCap}}

\* SendMessage has returned with the id, which is now tracked.
Mark(g) ==
  /\ pc[g] = "mark"
  /\ tracked' \in Remembering([kind |-> Head(todo[g]), about |-> item[g]])
  /\ pc' = [pc EXCEPT ![g] = "todo"]
  /\ Advance(g)
  /\ UNCHANGED <<network, dedup, lastAlert, item, read, dispatcher, history>>

\* dispatcher.enqueue: onto the sender's queue, or dropped when it is full or
\* closed.
Enqueue(g) ==
  LET x == item[g] IN
  /\ pc[g] = "todo" /\ todo[g] # <<>>
  /\ Head(todo[g]) = "enqueue"
  /\ Advance(g)
  /\ \/ /\ Mailboxes!Accept(x)
        /\ UNCHANGED lost
     \/ /\ phase # "open" \/ Len(mailbox[Owner(x)]) >= Capacity
        /\ lost' = lost \cup {x}
        /\ UNCHANGED dispatcher
  /\ UNCHANGED <<network, memory, pc, item, read, entered, cascades, admitted, answered>>

\* Handle returns to the transport.
Handled(g) ==
  /\ g \in Caller
  /\ pc[g] = "todo" /\ todo[g] = <<>>
  /\ Return(g)
  /\ UNCHANGED <<network, memory, read, dispatcher, history>>

-----------------------------------------------------------------------------
(* the workers of the dispatcher *)

Receive(s) ==
  /\ Mailboxes!Begin(s)
  /\ pc[s] = "idle"
  /\ pc' = [pc EXCEPT ![s] = "model"]
  /\ item' = [item EXCEPT ![s] = Head(mailbox[s])]
  /\ UNCHANGED <<network, memory, read, todo, history>>

\* processMedia and butler.Reply. An attachment that fails is acknowledged when
\* there is no caption to answer, and noted before the answer when there is.
\* Then an answer, an error, or a rate limit, after which the assistant has
\* switched himself off and the Master is told.
Reply(s) ==
  /\ pc[s] = "model"
  /\ \/ Contents(item[s]) = "media" /\ Do(s, <<"mediaAck">>)
     \/ \E first \in IF Contents(item[s]) = "media" THEN {<<>>} ELSE {<<>>, <<"note">>},
           then \in {<<"reply">>, <<"apology">>, <<"silenced", "apology">>} :
          Do(s, first \o then)
  /\ UNCHANGED <<network, memory, read, dispatcher, history>>

Processed(s) ==
  /\ s \in Sender
  /\ pc[s] = "todo" /\ todo[s] = <<>>
  /\ Mailboxes!Finish(s)
  /\ Return(s)
  /\ UNCHANGED <<network, memory, read, history>>

-----------------------------------------------------------------------------
Handle(g) ==
  Dedup(g) \/ Evict(g) \/ Gate(g) \/ AlertAllowed(g) \/ Prehandle(g) \/ Handled(g)

Sending(g) == Transmit(g) \/ Mark(g) \/ Enqueue(g)

Work(s) == Receive(s) \/ Reply(s) \/ Processed(s)

Next ==
  \/ \E m \in Msg : Write(m)
  \/ Tick \/ Restart
  \/ \E g \in Caller : OnEvent(g) \/ Handle(g)
  \/ \E g \in Goroutine : Sending(g)
  \/ \E s \in Sender : Work(s)

Spec == Init /\ [][Next]_vars

-----------------------------------------------------------------------------
(* properties *)

TypeOK ==
  /\ now \in 0..MaxTime /\ boots \in 0..MaxBoots
  /\ wire \subseteq [item : Item, life : 0..MaxBoots]
  /\ form \in [Msg -> MsgForm \cup {"unwritten"}]
  /\ dedup \subseteq [item : Item, at : 0..MaxTime]
  /\ lastAlert \subseteq [chat : Sender, at : 0..MaxTime]
  /\ tracked \in Seq(Out) /\ Len(tracked) <= EchoCap
  /\ pc \in [Goroutine -> {"idle", "dedup", "evict", "gate", "cooldown",
                           "prehandle", "todo", "mark", "model"}]
  /\ item \in [Goroutine -> Item \cup {NoItem}]
  /\ read \in [Goroutine -> 0..MaxTime]
  /\ todo \in [Goroutine -> Seq(OutKind \cup {"enqueue"})]
  /\ admitted \subseteq Msg /\ answered \subseteq Msg /\ lost \subseteq Msg

\* A message delivered again gets past the dedup again only in the life of the
\* process that took it first, and only when that is longer ago than dedupTTL,
\* whichever goroutines hold the two copies and whoever evicts in between (Handle:
\* an ID "already processed within the last dedupTTL window" is rejected).  Over
\* a restart, with which the dedup dies, the staleness filter stands in for it.
OnceInWindow ==
  \A m \in Msg : \A i, j \in DOMAIN entered[m] :
    i < j => /\ entered[m][i].life = entered[m][j].life
             /\ entered[m][i].at + DedupTTL < entered[m][j].at

\* Whichever way Clark's own words return - before their id is tracked, after
\* it was consumed, swept or evicted, twice, or after a restart - they stop at
\* the prefix check: no command, alert, queue or model ever sees them, although
\* they would pass for the Master's.
EchoesIgnored ==
  /\ \A g \in Caller : item[g] \in Out => pc[g] \in {"dedup", "evict", "gate"}
  /\ \A s \in Sender : item[s] \notin Out /\ Waiting(s) \subseteq Msg

\* Two cascades of one chat carry stamps at least Cooldown apart, although the
\* clock is read before the lock and two calls may swap in between.
AlertSpacing ==
  \A s \in Sender : \A i, j \in DOMAIN cascades[s] :
    i < j => cascades[s][i] + Cooldown <= cascades[s][j]

\* Nobody is ghosted: a message that got past the gate is in a goroutine's
\* hands or in a queue, or a final word to its sender (reply, apology, notice)
\* was handed to the transport, unless the queue refused the message or the process died with it.
NobodyGhosted ==
  admitted \subseteq answered \cup lost \cup {item[g] : g \in Goroutine}
                     \cup UNION {Waiting(s) : s \in Sender}

=============================================================================
