-------------------------------- MODULE Turn --------------------------------
(***************************************************************************)
(* How Clark makes one reply: the turn around the model's tool loop, the   *)
(* iteration it pauses when the rounds run out and resumes on "continue",  *)
(* and the excuse a visitor is owed while Clark speaks for the Master. The *)
(* gateway gives a WhatsApp or iMessage chat one turn at a time; a chat of *)
(* the web console may have several. What is said is kept only as far as   *)
(* the code looks at it: does it ask to continue, does it carry the        *)
(* Master's context, is an action owed. The context is set, and has a word *)
(* that counts (disclosureContentTokens is not empty).                     *)
(***************************************************************************)
EXTENDS Naturals, Sequences

CONSTANTS
  Chat,
  Visitor,     \* chats of VIPs, all others are the Master's
  Web,         \* chats of the web console, which bypass the fast path
  Worker,      \* goroutines that run turns
  ChatOf,      \* worker -> its chat
  MaxRounds,   \* maxToolRounds
  MaxNudges,   \* maxNudges
  Window,      \* the entries SaveMessage keeps and needsContextDisclosure reads
  MaxTurns,    \* bound on messages
  MaxRestarts  \* bound on restarts

ASSUME TurnConstants ==
  /\ Visitor \subseteq Chat /\ Web \subseteq Chat \ Visitor
  /\ ChatOf \in [Worker -> Chat]
  /\ MaxNudges \in Nat /\ MaxRounds \in Nat /\ MaxNudges < MaxRounds
  /\ Window \in Nat \ {0}
  /\ MaxTurns \in Nat /\ MaxRestarts \in Nat

Excuse == {"none", "gist", "verbatim"}  \* how a reply carries the context
Words == {"continue", "view", "other"}  \* what the code tells apart in a message
Number == 0..MaxTurns

VARIABLES
  on,        \* status
  served,    \* visitor -> EnabledFor
  hist,      \* visitor -> the kept entries: TRUE for one of Clark's that holds
             \* the context verbatim
  pending,   \* chat -> the turn that paused, 0 for none; in memory only
  turn,      \* worker -> the turn it is in
  halfway,   \* visitors whose view was prehandled and is half saved
  turns, restarts,
  since,     \* history: visitor -> the entries saved since the excuse was last
             \* given in any form; Window for that many, or never
  last,      \* history: chat -> the last turn that ended: did it pause, was its
             \* offer saved, and how many restarts had there been?
  unexcused  \* history: answers in the Master's stead said without an excuse
             \* that was due

vars == <<on, served, hist, pending, turn, halfway, turns, restarts, since, last,
          unexcused>>
setting == <<on, served>>
book == <<hist, since>>
told == <<last, unexcused>>

Idle == [step |-> "idle", no |-> 0, words |-> "other", round |-> 0, nudges |-> 0,
         ran |-> FALSE, resumed |-> FALSE, owed |-> FALSE, needs |-> FALSE,
         reply |-> "none", excuse |-> "none"]
Unturned == [no |-> 0, paused |-> FALSE, offered |-> FALSE, life |-> 0]

At(w, step) == turn[w].step = step
Busy(w) == ~At(w, "idle")
Of(c) == {w \in Worker : ChatOf[w] = c}
Serial(c) == \E w \in Worker : Of(c) = {w}
Go(w, t) == turn' = [turn EXCEPT ![w] = t]

Init ==
  /\ on \in BOOLEAN /\ served = [c \in Visitor |-> on]
  /\ hist = [c \in Visitor |-> <<>>]
  /\ pending = [c \in Chat |-> 0]
  /\ turn = [w \in Worker |-> Idle]
  /\ halfway = {} /\ turns = 0 /\ restarts = 0
  /\ since = [c \in Visitor |-> Window]
  /\ last = [c \in Chat |-> Unturned]
  /\ unexcused = {}

\* Mutant. The excuse is sought in everything that was ever said.
NewestKept(s) == s

\* What SaveMessage leaves of a history.
Newest(s) == IF Len(s) > Window THEN Tail(s) ELSE s

Counted(n, excuse) == IF excuse # "none" THEN 0 ELSE IF n < Window THEN n + 1 ELSE n
SaveMessage(c, excuse) ==
  IF c \in Visitor
  THEN /\ hist' = [hist EXCEPT ![c] = Newest(Append(@, excuse = "verbatim"))]
       /\ since' = [since EXCEPT ![c] = Counted(@, excuse)]
  ELSE UNCHANGED book

-----------------------------------------------------------------------------
\* What else changes the settings a turn reads.
Switch(b) == on' = b /\ served' = [c \in Visitor |-> b]

SetStatus ==
  /\ Switch(~on)
  /\ UNCHANGED <<book, pending, turn, halfway, turns, restarts, told>>

SetVIP(c) ==
  /\ served' = [served EXCEPT ![c] = ~@]
  /\ UNCHANGED <<on, book, pending, turn, halfway, turns, restarts, told>>

\* The transport's own goroutine answers "show me everything" and puts both
\* messages into the history, one after the other; either save may fail.
Prehandle(c) ==
  /\ \/ /\ c \notin halfway /\ turns < MaxTurns /\ turns' = turns + 1
        /\ \/ halfway' = halfway \cup {c} /\ SaveMessage(c, "none")
           \/ UNCHANGED <<halfway, book>>
     \/ /\ c \in halfway /\ halfway' = halfway \ {c} /\ turns' = turns
        /\ SaveMessage(c, "none") \/ UNCHANGED book
  /\ UNCHANGED <<setting, pending, turn, restarts, told>>

Restart ==
  /\ restarts < MaxRestarts /\ restarts' = restarts + 1
  /\ pending' = [c \in Chat |-> 0]
  /\ turn' = [w \in Worker |-> Idle]
  /\ halfway' = {}
  /\ UNCHANGED <<setting, book, turns, told>>

-----------------------------------------------------------------------------
\* A turn ends; `paused` says whether it has left an iteration behind and
\* `offered` whether the offer to continue has been saved and returned.
End(w, paused, offered) ==
  /\ Go(w, Idle)
  /\ last' = [last EXCEPT ![ChatOf[w]] = [no |-> turn[w].no, paused |-> paused,
                                          offered |-> offered, life |-> restarts]]

\* The inbound message is saved; failing that, or failing to read the history
\* back, the turn is over before it has looked at anything.
Receive(w) ==
  /\ At(w, "idle") /\ turns < MaxTurns /\ turns' = turns + 1
  /\ \E words \in Words :
       \/ /\ SaveMessage(ChatOf[w], "none")
          /\ Go(w, [Idle EXCEPT !.step = "look", !.no = turns + 1, !.words = words])
       \/ SaveMessage(ChatOf[w], "none") /\ UNCHANGED turn
       \/ UNCHANGED <<book, turn>>
  /\ UNCHANGED <<setting, pending, halfway, restarts, told>>

\* pendingIteration, under the lock of that call alone.
Look(w) ==
  /\ At(w, "look")
  /\ LET it == pending[ChatOf[w]] IN
     Go(w, [turn[w] EXCEPT
              !.step = IF it = 0 THEN "fresh"
                       ELSE IF turn[w].words = "continue" THEN "resume" ELSE "drop"])
  /\ UNCHANGED <<setting, book, pending, halfway, turns, restarts, told>>

\* Mutant. A paused iteration outlives a message that does not ask for it.
DropKept(w) ==
  /\ At(w, "drop")
  /\ Go(w, [turn[w] EXCEPT !.step = "fresh"])
  /\ UNCHANGED <<setting, book, pending, halfway, turns, restarts, told>>

\* Any other message abandons the paused iteration.
Drop(w) ==
  /\ At(w, "drop")
  /\ pending' = [pending EXCEPT ![ChatOf[w]] = 0]
  /\ Go(w, [turn[w] EXCEPT !.step = "fresh"])
  /\ UNCHANGED <<setting, book, halfway, turns, restarts, told>>

HoldsContext(c) == \E i \in DOMAIN hist[c] : hist[c][i]
StandsIn(c) == c \in Visitor /\ on /\ served[c]
NeedsContextDisclosure(c) == StandsIn(c) /\ ~HoldsContext(c)
ExcuseDue(c) == StandsIn(c) /\ since[c] >= Window

\* "continue": the tool loop starts anew on the old messages, with no round
\* used, no nudge given and no tool run. The excuse is not looked at.
Resume(w) ==
  /\ At(w, "resume")
  /\ pending' = [pending EXCEPT ![ChatOf[w]] = 0]
  /\ Go(w, [turn[w] EXCEPT !.step = "ask", !.words = "other", !.resumed = TRUE,
                            !.owed = ExcuseDue(ChatOf[w])])
  /\ UNCHANGED <<setting, book, halfway, turns, restarts, told>>

\* A fresh turn: the fast path, then the question whether the excuse is due.
\* The view, the history and the prompt may fail. The excuse is also asked of
\* the model beforehand (disclosurePrefix), which only feeds the next prompt.
Fresh(w) ==
  /\ At(w, "fresh")
  /\ LET c == ChatOf[w]
         AskedWith(needs) == [turn[w] EXCEPT !.step = "ask", !.words = "other",
                                             !.owed = ExcuseDue(c), !.needs = needs]
     IN
     IF turn[w].words = "view" /\ c \notin Web
     THEN \/ /\ Go(w, [turn[w] EXCEPT !.step = "save", !.reply = "view",
                                    !.words = "other"])
             /\ UNCHANGED told
          \/ End(w, FALSE, FALSE) /\ UNCHANGED unexcused
     ELSE \/ /\ \/ Go(w, AskedWith(NeedsContextDisclosure(c)))
                \/ StandsIn(c) /\ Go(w, AskedWith(TRUE))
             /\ UNCHANGED told
          \/ End(w, FALSE, FALSE) /\ UNCHANGED unexcused
  /\ UNCHANGED <<setting, book, pending, halfway, turns, restarts>>

-----------------------------------------------------------------------------
\* The tool loop: one action per round, by what the model call returns.
Asking(w) == At(w, "ask") /\ turn[w].round < MaxRounds

\* Mutant. A nudge hands its round back, and a tool call resets the nudges.
NextRoundReturned(w, t) ==
  Go(w, IF t.nudges > turn[w].nudges
        THEN [t EXCEPT !.round = IF @ = 0 THEN 0 ELSE @ - 1]
        ELSE [t EXCEPT !.round = @ + 1, !.nudges = 0])
NextRound(w, t) == Go(w, [t EXCEPT !.round = @ + 1])

\* The loop has its text. ensureDisclosure looks at it if the excuse is due.
Answered(w, excuse) ==
  Go(w, [turn[w] EXCEPT !.reply = "text", !.excuse = excuse, !.round = 0, !.nudges = 0,
           !.step = IF turn[w].needs /\ excuse = "none" THEN "repair" ELSE "save"])

Carrying(w) == IF ChatOf[w] \in Visitor THEN Excuse ELSE {"none"}

\* No action is owed, or the tool that was owed has run.
Content(w) ==
  /\ Asking(w)
  /\ \E excuse \in Carrying(w) : Answered(w, excuse)
  /\ UNCHANGED <<setting, book, pending, halfway, turns, restarts, told>>

\* An action is owed (needsAction) and not backed by a tool (hintSatisfied):
\* the model is pushed, up to maxNudges times. Then the reply is the list of what
\* the tools have done or, when none has run, a request to repeat.
Narrates(w) ==
  /\ Asking(w)
  /\ IF turn[w].nudges < MaxNudges
     THEN NextRound(w, [turn[w] EXCEPT !.nudges = @ + 1])
     ELSE \E excuse \in IF turn[w].ran THEN Carrying(w) ELSE {"none"} :
            Answered(w, excuse)
  /\ UNCHANGED <<setting, book, pending, halfway, turns, restarts, told>>

\* Tool calls; what they do to other parts of the system is not modelled here.
ToolCalls(w) ==
  /\ Asking(w)
  /\ NextRound(w, [turn[w] EXCEPT !.ran = TRUE])
  /\ UNCHANGED <<setting, book, pending, halfway, turns, restarts, told>>

\* The deadline of the loop has passed, or a round after the first has failed:
\* Clark asks to repeat the request, or to say continue (to which a fresh turn
\* will answer, for no iteration has been paused).
Apologise(w) ==
  /\ Asking(w) /\ Answered(w, "none")
  /\ UNCHANGED <<setting, book, pending, halfway, turns, restarts, told>>

\* The first round has failed. A rate limit also switches Clark off.
ModelError(w) ==
  /\ Asking(w) /\ turn[w].round = 0
  /\ End(w, FALSE, FALSE)
  /\ Switch(FALSE) \/ UNCHANGED setting
  /\ UNCHANGED <<book, pending, halfway, turns, restarts, unexcused>>

\* The rounds are used up. ensureDisclosure still runs on the empty reply, which
\* the offer to continue then replaces.
Pause(w) ==
  /\ At(w, "ask") /\ turn[w].round = MaxRounds
  /\ pending' = [pending EXCEPT ![ChatOf[w]] = turn[w].no]
  /\ Go(w, [turn[w] EXCEPT !.step = "save", !.reply = "offer", !.round = 0,
                            !.nudges = 0])
  /\ UNCHANGED <<setting, book, halfway, turns, restarts, told>>

-----------------------------------------------------------------------------
\* Mutant. The rewritten reply is taken without a second look.
RepairTrusting(w) ==
  /\ At(w, "repair")
  /\ \E excuse \in Excuse :
       Go(w, [turn[w] EXCEPT !.step = "save", !.excuse = excuse])
  /\ UNCHANGED <<setting, book, pending, halfway, turns, restarts, told>>

\* The model rewrites the reply once; if the result still does not carry the
\* excuse, an opening that holds the context verbatim is put before the reply.
Repair(w) ==
  /\ At(w, "repair")
  /\ \E excuse \in {"gist", "verbatim"} :
       Go(w, [turn[w] EXCEPT !.step = "save", !.excuse = excuse])
  /\ UNCHANGED <<setting, book, pending, halfway, turns, restarts, told>>

\* The reply is saved and returned, or its save fails and nothing is said; an
\* iteration that has been paused waits in either case.
Save(w) ==
  /\ At(w, "save")
  /\ LET c == ChatOf[w]  t == turn[w] IN
     \/ /\ End(w, t.reply = "offer", t.reply = "offer")
        /\ SaveMessage(c, t.excuse)
        /\ unexcused' = IF t.owed /\ t.reply = "text" /\ t.excuse = "none"
                        THEN unexcused \cup {[chat |-> c, resumed |-> t.resumed]}
                        ELSE unexcused
     \/ End(w, t.reply = "offer", FALSE) /\ UNCHANGED <<book, unexcused>>
  /\ UNCHANGED <<setting, pending, halfway, turns, restarts>>

Step(w) ==
  \/ Look(w) \/ Drop(w) \/ Resume(w) \/ Fresh(w)
  \/ Content(w) \/ Narrates(w) \/ ToolCalls(w) \/ Apologise(w) \/ ModelError(w)
  \/ Pause(w) \/ Repair(w) \/ Save(w)

Next ==
  \/ SetStatus \/ Restart
  \/ \E c \in Visitor : SetVIP(c) \/ Prehandle(c)
  \/ \E w \in Worker : Receive(w) \/ Step(w)

\* Model calls and tools end, by their answer or by the turn's deadline, so a
\* turn's goroutine goes on. Nobody has to write.
Spec == Init /\ [][Next]_vars /\ \A w \in Worker : WF_vars(Step(w))

-----------------------------------------------------------------------------
Turns == [step: {"idle", "look", "resume", "drop", "fresh", "ask", "repair", "save"},
          no: Number, words: Words, round: 0..MaxRounds,
          nudges: 0..MaxNudges, ran: BOOLEAN, resumed: BOOLEAN, owed: BOOLEAN,
          needs: BOOLEAN, reply: {"none", "view", "text", "offer"}, excuse: Excuse]
Ends == [no: Number, paused: BOOLEAN, offered: BOOLEAN, life: 0..MaxRestarts]

\* Types and bounds: rounds and nudges stay within their limits, the history
\* within its window, and a turn that has paused or is to be resumed has begun.
TypeOK ==
  /\ on \in BOOLEAN /\ served \in [Visitor -> BOOLEAN]
  /\ hist \in [Visitor -> Seq(BOOLEAN)]
  /\ \A c \in Visitor : Len(hist[c]) <= Window
  /\ pending \in [Chat -> Number]
  /\ turn \in [Worker -> Turns]
  /\ halfway \subseteq Visitor
  /\ turns \in Number /\ restarts \in 0..MaxRestarts
  /\ since \in [Visitor -> 0..Window]
  /\ last \in [Chat -> Ends]
  /\ unexcused \subseteq [chat: Chat, resumed: BOOLEAN]

\* In a chat with one turn at a time, an iteration waits exactly when the last
\* turn that could read its message has paused, since the last restart, and it
\* is that turn's own: no older one is ever resumed, whichever messages and
\* failures come between. It waits also when its offer could not be saved and
\* so was not said, and a restart loses it although its offer was said.
WaitsIffPaused ==
  \A c \in Chat : Serial(c) /\ (\A w \in Of(c) : ~Busy(w)) =>
    pending[c] = IF last[c].paused /\ last[c].life = restarts THEN last[c].no ELSE 0

\* Not so: what waits has been offered. The iteration is set before its offer is
\* saved, and that save may fail.
WaitsAsOffered ==
  \A c \in Chat : Serial(c) /\ (\A w \in Of(c) : ~Busy(w)) /\ pending[c] # 0 =>
    last[c].offered

\* A visitor whom a fresh turn answers in the Master's stead hears the excuse
\* with that answer, unless it has been given within the last Window entries of
\* the chat: needsContextDisclosure looks at a window that forgets, and what
\* leaves it, or was never verbatim, is made good whatever the model does.
FreshExcused == \A u \in unexcused : u.resumed

\* Not so: the same of a resumed turn. Its excuse went with the reply that the
\* offer to continue has replaced.
AlwaysExcused == unexcused = {}

\* Rounds run out only for a turn whose tools have run: a model that merely
\* narrates is told off before that.
PauseIsGenuine == \A w \in Worker : turn[w].reply = "offer" => turn[w].ran

\* Every turn ends: no answer of the model can keep a chat busy for ever.
TurnEnds == \A w \in Worker : Busy(w) ~> ~Busy(w)
=============================================================================
