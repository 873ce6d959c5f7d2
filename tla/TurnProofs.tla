----------------------------- MODULE TurnProofs -----------------------------
(* Theorems about one reply, for any chats, workers, rounds and window.      *)
EXTENDS Turn, TLAPS

\* An entry that holds the excuse is as far from the end as the count says.
Dated(s, n) == \A i \in DOMAIN s : s[i] => n <= Len(s) - i

\* The kept entries stay a window of the ones before, with the new one.
LEMMA NewestKeeps ==
  ASSUME NEW s \in Seq(BOOLEAN), Len(s) <= Window, NEW e \in Excuse,
         NEW n \in 0..Window, Dated(s, n)
  PROVE  LET m == Newest(Append(s, e = "verbatim")) IN
         /\ m \in Seq(BOOLEAN) /\ Len(m) <= Window
         /\ Counted(n, e) \in 0..Window /\ Dated(m, Counted(n, e))
<1> DEFINE b == e = "verbatim"
           a == Append(s, b)
           k == Counted(n, e)
<1>1. /\ a \in Seq(BOOLEAN) /\ Len(a) = Len(s) + 1
      /\ \A i \in 1..Len(s) : a[i] = s[i]
      /\ a[Len(s) + 1] = b
  OBVIOUS
<1>2. DOMAIN a = 1..(Len(s) + 1) /\ DOMAIN s = 1..Len(s) /\ Len(s) \in Nat
  BY <1>1
<1>3. k \in 0..Window /\ k <= n + 1 /\ (b => k = 0)
  BY TurnConstants DEF Counted
<1> HIDE DEF k
<1>4. ASSUME NEW i \in DOMAIN a, a[i]  PROVE k <= Len(a) - i
  <2>1. CASE i \in 1..Len(s)
    <3>1. n <= Len(s) - i  BY <1>1, <1>2, <1>4, <2>1 DEF Dated
    <3> QED  BY <1>1, <1>2, <1>3, <2>1, <3>1
  <2>2. CASE i = Len(s) + 1
    <3>1. b  BY <1>1, <1>4, <2>2, Zenon
    <3>2. k = 0  BY <1>3, <3>1
    <3> QED  BY <1>1, <1>2, <2>2, <3>2
  <2> QED  BY <1>2, <2>1, <2>2
<1>5. CASE Len(a) > Window
  <2>1. a # <<>>  BY <1>1, <1>2
  <2>2. /\ Tail(a) \in Seq(BOOLEAN) /\ Len(Tail(a)) = Len(s)
        /\ \A i \in 1..Len(s) : Tail(a)[i] = a[i + 1]
    BY <1>1, <1>2, <2>1
  <2>3. DOMAIN Tail(a) = 1..Len(s)  BY <2>2
  <2>4. ASSUME NEW i \in DOMAIN Tail(a), Tail(a)[i]  PROVE k <= Len(Tail(a)) - i
    <3>1. i + 1 \in DOMAIN a /\ a[i + 1]  BY <1>2, <2>2, <2>3, <2>4
    <3>2. k <= Len(a) - (i + 1)  BY <1>4, <3>1
    <3> QED  BY <1>1, <1>2, <1>3, <2>2, <2>3, <3>2
  <2> QED  BY <1>3, <1>5, <2>2, <2>4 DEF Newest, Dated, k
<1>6. CASE ~(Len(a) > Window)
  <2>1. Newest(a) = a /\ Len(a) <= Window  BY <1>1, <1>2, <1>6, TurnConstants DEF Newest
  <2> QED  BY <1>1, <1>3, <1>4, <2>1 DEF Dated, k
<1> QED  BY <1>5, <1>6

\* What a save does to the histories.
LEMMA SaveMessageKeeps ==
  ASSUME TypeOK, NEW c \in Chat, NEW e \in Excuse,
         SaveMessage(c, e) \/ UNCHANGED book,
         \A v \in Visitor : Dated(hist[v], since[v])
  PROVE  /\ hist' \in [Visitor -> Seq(BOOLEAN)] /\ since' \in [Visitor -> 0..Window]
         /\ \A v \in Visitor : Len(hist'[v]) <= Window /\ Dated(hist'[v], since'[v])
<1>1. CASE SaveMessage(c, e) /\ c \in Visitor
  <2>1. /\ hist' = [hist EXCEPT ![c] = Newest(Append(@, e = "verbatim"))]
        /\ since' = [since EXCEPT ![c] = Counted(@, e)]
    BY <1>1 DEF SaveMessage
  <2>2. hist[c] \in Seq(BOOLEAN) /\ Len(hist[c]) <= Window /\ since[c] \in 0..Window
    BY <1>1 DEF TypeOK
  <2> DEFINE m == Newest(Append(hist[c], e = "verbatim"))
  <2>3. /\ m \in Seq(BOOLEAN) /\ Len(m) <= Window
        /\ Counted(since[c], e) \in 0..Window /\ Dated(m, Counted(since[c], e))
    BY <1>1, <2>2, NewestKeeps
  <2>4. hist'[c] = m /\ since'[c] = Counted(since[c], e)  BY <1>1, <2>1 DEF TypeOK
  <2>5. \A v \in Visitor \ {c} : hist'[v] = hist[v] /\ since'[v] = since[v]
    BY <2>1 DEF TypeOK
  <2>6. hist' \in [Visitor -> Seq(BOOLEAN)] /\ since' \in [Visitor -> 0..Window]
    BY <2>1, <2>3 DEF TypeOK
  <2> HIDE DEF m
  <2> QED  BY <2>3, <2>4, <2>5, <2>6 DEF TypeOK
<1>2. CASE ~(SaveMessage(c, e) /\ c \in Visitor)
  <2>1. hist' = hist /\ since' = since  BY <1>2 DEF SaveMessage, book
  <2> QED  BY <2>1 DEF TypeOK
<1> QED  BY <1>1, <1>2

---------------------------------------------------------------------------
LEMMA ZeroType == 0 \in 0..MaxRounds /\ 0 \in 0..MaxNudges /\ 0 \in Number
  BY TurnConstants DEF Number

LEMMA IdleType == Idle \in Turns
  BY TurnConstants DEF Idle, Turns, Words, Excuse, Number

LEMMA EndType ==
  ASSUME TypeOK, NEW w \in Worker, NEW p \in BOOLEAN, NEW o \in BOOLEAN, End(w, p, o)
  PROVE  turn' \in [Worker -> Turns] /\ last' \in [Chat -> Ends]
<1>1. turn[w].no \in Number /\ restarts \in 0..MaxRestarts  BY DEF TypeOK, Turns
<1>2. [no |-> turn[w].no, paused |-> p, offered |-> o, life |-> restarts] \in Ends
  BY <1>1 DEF Ends
<1> QED  BY <1>2, IdleType DEF End, Go, TypeOK

LEMMA GoType ==
  ASSUME TypeOK, NEW w \in Worker, NEW t \in Turns, Go(w, t)
  PROVE  turn' \in [Worker -> Turns]
  BY DEF Go, TypeOK

LEMMA SwitchType ==
  ASSUME NEW b \in BOOLEAN, Switch(b)
  PROVE  on' \in BOOLEAN /\ served' \in [Visitor -> BOOLEAN]
  BY DEF Switch

LEMMA TypeStep ==
  ASSUME TypeOK, \A v \in Visitor : Dated(hist[v], since[v]), [Next]_vars
  PROVE  TypeOK' /\ \A v \in Visitor : Dated(hist'[v], since'[v])
<1> DEFINE Count == \A v \in Visitor : Dated(hist'[v], since'[v])
<1> SUFFICES TypeOK' /\ Count
  OBVIOUS
<1> USE DEF setting, told
<1>0. "none" \in Excuse /\ (UNCHANGED book => Count)  BY DEF Excuse, book
<1> HIDE DEF Count
<1>1. CASE SetStatus
  BY <1>0, <1>1, SwitchType DEF SetStatus, Switch, TypeOK, book
<1>2. CASE Restart
  <2>1. 0 \in Number  BY TurnConstants DEF Number
  <2>2. pending' \in [Chat -> Number] /\ turn' \in [Worker -> Turns]
    BY <1>2, <2>1, IdleType DEF Restart
  <2>3. restarts' \in 0..MaxRestarts  BY <1>2, TurnConstants DEF Restart, TypeOK
  <2> QED  BY <1>0, <1>2, <2>2, <2>3 DEF Restart, TypeOK, book
<1>3. ASSUME NEW c \in Visitor, SetVIP(c)  PROVE TypeOK' /\ Count
  BY <1>0, <1>3 DEF SetVIP, TypeOK, book
<1>4. ASSUME NEW c \in Visitor, Prehandle(c)  PROVE TypeOK' /\ Count
  <2>1. c \in Chat  BY TurnConstants
  <2>2. turns' \in Number
    <3>1. (turns < MaxTurns /\ turns' = turns + 1) \/ turns' = turns
      BY <1>4 DEF Prehandle
    <3> QED  BY <3>1, TurnConstants DEF TypeOK, Number
  <2>3. halfway' \subseteq Visitor  BY <1>4 DEF Prehandle, TypeOK
  <2>4. SaveMessage(c, "none") \/ UNCHANGED book  BY <1>4 DEF Prehandle, book
  <2>5. /\ hist' \in [Visitor -> Seq(BOOLEAN)] /\ since' \in [Visitor -> 0..Window]
        /\ \A v \in Visitor : Len(hist'[v]) <= Window /\ Dated(hist'[v], since'[v])
    BY <1>0, <2>1, <2>4, SaveMessageKeeps
  <2> QED  BY <1>4, <2>2, <2>3, <2>5 DEF Prehandle, TypeOK, Count
<1>5. ASSUME NEW w \in Worker, Receive(w)  PROVE TypeOK' /\ Count
  <2>1. ChatOf[w] \in Chat  BY TurnConstants
  <2>2. turns' \in Number /\ turns + 1 \in Number
    BY <1>5, TurnConstants DEF Receive, TypeOK, Number
  <2>3. SaveMessage(ChatOf[w], "none") \/ UNCHANGED book  BY <1>5 DEF Receive, book
  <2>4. /\ hist' \in [Visitor -> Seq(BOOLEAN)] /\ since' \in [Visitor -> 0..Window]
        /\ \A v \in Visitor : Len(hist'[v]) <= Window /\ Dated(hist'[v], since'[v])
    BY <1>0, <2>1, <2>3, SaveMessageKeeps
  <2>5. \A words \in Words :
          [Idle EXCEPT !.step = "look", !.no = turns + 1, !.words = words] \in Turns
    BY <2>2, IdleType DEF Turns
  <2>6. turn' \in [Worker -> Turns]
    BY <1>5, <2>5, GoType DEF Receive, TypeOK
  <2> QED  BY <1>5, <2>2, <2>4, <2>6 DEF Receive, TypeOK, Count
<1>6. ASSUME NEW w \in Worker, Look(w) \/ Drop(w) \/ Resume(w)  PROVE TypeOK' /\ Count
  <2>1. turn[w] \in Turns  BY DEF TypeOK
  <2>2. PICK t \in Turns : Go(w, t)
    <3>1. CASE Look(w)
      <4>1. \A st \in {"fresh", "resume", "drop"} : [turn[w] EXCEPT !.step = st] \in Turns
        BY <2>1 DEF Turns
      <4> QED  BY <3>1, <4>1 DEF Look
    <3>2. CASE Drop(w)
      <4>1. [turn[w] EXCEPT !.step = "fresh"] \in Turns  BY <2>1 DEF Turns
      <4> QED  BY <3>2, <4>1 DEF Drop
    <3>3. CASE Resume(w)
      <4>1. \A o \in BOOLEAN : [turn[w] EXCEPT !.step = "ask", !.words = "other",
                                              !.resumed = TRUE, !.owed = o] \in Turns
        BY <2>1 DEF Turns, Words
      <4>2. ExcuseDue(ChatOf[w]) \in BOOLEAN  BY DEF ExcuseDue, StandsIn
      <4> QED  BY <3>3, <4>1, <4>2 DEF Resume
    <3> QED  BY <1>6, <3>1, <3>2, <3>3
  <2>3. turn' \in [Worker -> Turns]  BY <2>2, GoType
  <2>4. pending' \in [Chat -> Number]
    BY <1>6, TurnConstants DEF Look, Drop, Resume, TypeOK, Number
  <2> QED  BY <1>0, <1>6, <2>3, <2>4 DEF Look, Drop, Resume, TypeOK, book
<1>7. ASSUME NEW w \in Worker, Fresh(w)  PROVE TypeOK' /\ Count
  <2>1. turn[w] \in Turns  BY DEF TypeOK
  <2>2. /\ [turn[w] EXCEPT !.step = "save", !.reply = "view", !.words = "other"] \in Turns
        /\ \A p, q \in BOOLEAN :
             [turn[w] EXCEPT !.step = "ask", !.words = "other", !.owed = p, !.needs = q]
               \in Turns
    BY <2>1 DEF Turns, Words
  <2>3. NeedsContextDisclosure(ChatOf[w]) \in BOOLEAN /\ ExcuseDue(ChatOf[w]) \in BOOLEAN
    BY DEF NeedsContextDisclosure, HoldsContext, ExcuseDue, StandsIn
  <2>5. \/ (\E t \in Turns : Go(w, t)) /\ UNCHANGED told
        \/ End(w, FALSE, FALSE) /\ UNCHANGED unexcused
    BY <1>7, <2>2, <2>3 DEF Fresh
  <2>6. turn' \in [Worker -> Turns] /\ last' \in [Chat -> Ends]
    BY <2>5, GoType, EndType DEF TypeOK
  <2>7. UNCHANGED <<on, served, hist, since, pending, halfway, turns, restarts, unexcused>>
    BY <1>7, <2>5 DEF Fresh, book
  <2> QED  BY <1>0, <2>6, <2>7 DEF TypeOK, book
<1>8. ASSUME NEW w \in Worker,
             Content(w) \/ Narrates(w) \/ ToolCalls(w) \/ Apologise(w) \/ Repair(w)
      PROVE  TypeOK' /\ Count
  <2>1. turn[w] \in Turns  BY DEF TypeOK
  <2>2. \A e \in Excuse, st \in {"repair", "save"} :
          /\ [turn[w] EXCEPT !.reply = "text", !.excuse = e, !.round = 0, !.nudges = 0,
                             !.step = st] \in Turns
          /\ [turn[w] EXCEPT !.step = st, !.excuse = e] \in Turns
    BY <2>1, ZeroType DEF Turns
  <2>3. \A e \in Excuse : Answered(w, e) => \E t \in Turns : Go(w, t)
    BY <2>2 DEF Answered
  <2>4. Carrying(w) \subseteq Excuse /\ "none" \in Excuse  BY DEF Carrying, Excuse
  <2>5. Asking(w) => turn[w].round + 1 \in 0..MaxRounds
    BY <2>1, TurnConstants DEF Asking, Turns
  <2>6. PICK t \in Turns : Go(w, t)
    <3>1. CASE Content(w)  BY <3>1, <2>3, <2>4 DEF Content
    <3>2. CASE Narrates(w)
      <4>1. CASE turn[w].nudges < MaxNudges
        <5>1. turn[w].nudges + 1 \in 0..MaxNudges
          BY <2>1, <4>1, TurnConstants DEF Turns
        <5>2. [[turn[w] EXCEPT !.nudges = @ + 1] EXCEPT !.round = @ + 1] \in Turns
          BY <2>1, <2>5, <3>2, <5>1 DEF Turns, Narrates
        <5> QED  BY <3>2, <4>1, <5>2 DEF Narrates, NextRound
      <4>2. CASE ~(turn[w].nudges < MaxNudges)
        BY <2>3, <2>4, <3>2, <4>2 DEF Narrates
      <4> QED  BY <4>1, <4>2
    <3>3. CASE ToolCalls(w)
      <4>1. [[turn[w] EXCEPT !.ran = TRUE] EXCEPT !.round = @ + 1] \in Turns
        BY <2>1, <2>5, <3>3 DEF Turns, ToolCalls
      <4> QED  BY <3>3, <4>1 DEF ToolCalls, NextRound
    <3>4. CASE Apologise(w)  BY <3>4, <2>3, <2>4 DEF Apologise
    <3>5. CASE Repair(w)  BY <3>5, <2>2 DEF Repair, Excuse
    <3> QED  BY <1>8, <3>1, <3>2, <3>3, <3>4, <3>5
  <2>7. turn' \in [Worker -> Turns]  BY <2>6, GoType
  <2> QED  BY <1>0, <1>8, <2>7
     DEF Content, Narrates, ToolCalls, Apologise, Repair, TypeOK, book
<1>9. ASSUME NEW w \in Worker, ModelError(w)  PROVE TypeOK' /\ Count
  <2>1. turn' \in [Worker -> Turns] /\ last' \in [Chat -> Ends]
    BY <1>9, EndType DEF ModelError
  <2>2. on' \in BOOLEAN /\ served' \in [Visitor -> BOOLEAN]
    BY <1>9, SwitchType DEF ModelError, TypeOK
  <2> QED  BY <1>0, <1>9, <2>1, <2>2 DEF ModelError, TypeOK, book
<1>10. ASSUME NEW w \in Worker, Pause(w)  PROVE TypeOK' /\ Count
  <2>1. turn[w] \in Turns /\ turn[w].no \in Number  BY DEF TypeOK, Turns
  <2>2. [turn[w] EXCEPT !.step = "save", !.reply = "offer", !.round = 0, !.nudges = 0]
          \in Turns
    BY <2>1, ZeroType DEF Turns
  <2>3. turn' \in [Worker -> Turns]  BY <1>10, <2>2, GoType DEF Pause
  <2>4. pending' \in [Chat -> Number]  BY <1>10, <2>1 DEF Pause, TypeOK
  <2> QED  BY <1>0, <1>10, <2>3, <2>4 DEF Pause, TypeOK, book
<1>11. ASSUME NEW w \in Worker, Save(w)  PROVE TypeOK' /\ Count
  <2>1. ChatOf[w] \in Chat /\ turn[w] \in Turns  BY TurnConstants DEF TypeOK
  <2>2. PICK o \in BOOLEAN : End(w, turn[w].reply = "offer", o)  BY <1>11 DEF Save
  <2>3. turn' \in [Worker -> Turns] /\ last' \in [Chat -> Ends]
    BY <2>2, EndType
  <2>4. turn[w].excuse \in Excuse /\ turn[w].resumed \in BOOLEAN  BY <2>1 DEF Turns
  <2>5. SaveMessage(ChatOf[w], turn[w].excuse) \/ UNCHANGED book
    BY <1>11 DEF Save, book
  <2>6. /\ hist' \in [Visitor -> Seq(BOOLEAN)] /\ since' \in [Visitor -> 0..Window]
        /\ \A v \in Visitor : Len(hist'[v]) <= Window /\ Dated(hist'[v], since'[v])
    BY <2>1, <2>4, <2>5, SaveMessageKeeps
  <2>7. unexcused' \subseteq [chat: Chat, resumed: BOOLEAN]
    <3>1. \/ unexcused' = unexcused
          \/ unexcused' = unexcused \cup {[chat |-> ChatOf[w], resumed |-> turn[w].resumed]}
      BY <1>11 DEF Save
    <3>2. [chat |-> ChatOf[w], resumed |-> turn[w].resumed] \in [chat: Chat, resumed: BOOLEAN]
      BY <2>1, <2>4
    <3> QED  BY <3>1, <3>2 DEF TypeOK
  <2> QED  BY <1>11, <2>3, <2>6, <2>7 DEF Save, TypeOK, Count
<1>12. CASE UNCHANGED vars
  BY <1>0, <1>12 DEF vars, TypeOK, book
<1> QED
  BY <1>1, <1>2, <1>3, <1>4, <1>5, <1>6, <1>7, <1>8, <1>9, <1>10, <1>11, <1>12
  DEF Next, Step

---------------------------------------------------------------------------
\* The excuse. A window that holds the context proves that the excuse has been
\* given within it (Dated), so a fresh turn that owes one knows that it is due;
\* and a turn to which it is due carries it once it has a text to save.
Excusing(t) ==
  /\ t.owed /\ ~t.resumed => t.needs
  /\ t.step = "save" /\ t.reply = "text" /\ t.needs => t.excuse # "none"

Excused ==
  /\ FreshExcused
  /\ \A v \in Visitor : Dated(hist[v], since[v])
  /\ \A w \in Worker : Excusing(turn[w])

\* An excuse that has left the window, or was never verbatim, is sought in vain.
LEMMA OwedIsDue ==
  ASSUME TypeOK, NEW c \in Chat, \A v \in Visitor : Dated(hist[v], since[v])
  PROVE  ExcuseDue(c) => NeedsContextDisclosure(c)
<1> SUFFICES ASSUME c \in Visitor, since[c] >= Window, NEW i \in DOMAIN hist[c], hist[c][i]
             PROVE  FALSE
  BY DEF ExcuseDue, NeedsContextDisclosure, StandsIn, HoldsContext
<1>1. /\ hist[c] \in Seq(BOOLEAN) /\ Len(hist[c]) <= Window /\ since[c] \in 0..Window
      /\ since[c] <= Len(hist[c]) - i
  BY DEF TypeOK, Dated
<1>2. i \in 1..Len(hist[c]) /\ Len(hist[c]) \in Nat  BY <1>1
<1> QED  BY <1>1, <1>2, TurnConstants

\* A step that gives worker w another record and says nothing to anybody.
LEMMA ExcusedGo ==
  ASSUME TypeOK, Excused, NEW w \in Worker, NEW t, Go(w, t), unexcused' = unexcused,
         \A v \in Visitor : Dated(hist'[v], since'[v]), Excusing(t)
  PROVE  Excused'
<1>1. turn'[w] = t /\ \A v \in Worker \ {w} : turn'[v] = turn[v]
  BY DEF Go, TypeOK
<1>2. FreshExcused'  BY DEF Excused, FreshExcused
<1>3. \A v \in Worker : Excusing(turn'[v])
  <2> SUFFICES ASSUME NEW v \in Worker  PROVE Excusing(turn'[v])
    OBVIOUS
  <2>1. CASE v = w  BY <1>1, <2>1
  <2>2. CASE v # w
    <3>1. turn'[v] = turn[v]  BY <1>1, <2>2
    <3> QED  BY <3>1 DEF Excused
  <2> QED  BY <2>1, <2>2
<1> QED  BY <1>2, <1>3 DEF Excused

LEMMA ExcusedStep ==
  ASSUME TypeOK, Excused, [Next]_vars
  PROVE  Excused'
<1> USE DEF setting, told
<1>0. TypeOK' /\ \A v \in Visitor : Dated(hist'[v], since'[v])
  BY TypeStep DEF Excused
<1>1. CASE SetStatus \/ UNCHANGED vars \/ \E c \in Visitor : SetVIP(c) \/ Prehandle(c)
  <2>1. UNCHANGED <<turn, unexcused>>
    BY <1>1 DEF SetStatus, SetVIP, Prehandle, vars
  <2> QED  BY <1>0, <2>1 DEF Excused, FreshExcused
<1>2. CASE Restart
  <2>1. (\A v \in Worker : turn'[v] = Idle) /\ UNCHANGED unexcused
    BY <1>2 DEF Restart
  <2>2. Excusing(Idle)  BY DEF Excusing, Idle
  <2> QED  BY <1>0, <2>1, <2>2 DEF Excused, FreshExcused
<1>3. ASSUME NEW w \in Worker, Receive(w)  PROVE Excused'
  <2>1. UNCHANGED unexcused  BY <1>3 DEF Receive
  <2>2. CASE UNCHANGED turn
    BY <1>0, <2>1, <2>2 DEF Excused, FreshExcused
  <2>3. CASE ~UNCHANGED turn
    <3>1. PICK words \in Words :
            Go(w, [Idle EXCEPT !.step = "look", !.no = turns + 1, !.words = words])
      BY <1>3, <2>3 DEF Receive
    <3>2. Excusing([Idle EXCEPT !.step = "look", !.no = turns + 1, !.words = words])
      BY DEF Excusing, Idle
    <3> QED  BY <1>0, <2>1, <3>1, <3>2, ExcusedGo
  <2> QED  BY <2>2, <2>3
<1>4. ASSUME NEW w \in Worker, Step(w), ~Save(w)  PROVE Excused'
  <2>1. turn[w] \in Turns /\ Excusing(turn[w]) /\ ChatOf[w] \in Chat
    BY TurnConstants DEF TypeOK, Excused
  <2>2. UNCHANGED unexcused
    BY <1>4 DEF Step, Look, Drop, Resume, Fresh, Content, Narrates, ToolCalls,
                Apologise, ModelError, Pause, Repair
  <2>3. SUFFICES \E t : Go(w, t) /\ Excusing(t)
    BY <1>0, <2>2, ExcusedGo
  <2>4. Excusing(Idle)  BY DEF Excusing, Idle
  <2>5. CASE Look(w) \/ Drop(w)
    <3>1. PICK st \in {"fresh", "resume", "drop"} : Go(w, [turn[w] EXCEPT !.step = st])
      BY <2>5 DEF Look, Drop
    <3>2. Excusing([turn[w] EXCEPT !.step = st])  BY <2>1, <3>1 DEF Excusing, Turns
    <3> QED  BY <3>1, <3>2
  <2>6. CASE Resume(w)
    <3>1. Excusing([turn[w] EXCEPT !.step = "ask", !.words = "other", !.resumed = TRUE,
                                   !.owed = ExcuseDue(ChatOf[w])])
      BY <2>1 DEF Excusing, Turns
    <3> QED  BY <2>6, <3>1 DEF Resume
  <2>7. CASE ModelError(w)
    BY <2>4, <2>7 DEF ModelError, End
  <2>8. CASE Fresh(w)
    <3>1. CASE End(w, FALSE, FALSE)  BY <2>4, <3>1 DEF End
    <3>2. CASE ~End(w, FALSE, FALSE) /\ turn[w].words = "view" /\ ChatOf[w] \notin Web
      <4>1. Go(w, [turn[w] EXCEPT !.step = "save", !.reply = "view", !.words = "other"])
        BY <2>8, <3>2 DEF Fresh
      <4>2. Excusing([turn[w] EXCEPT !.step = "save", !.reply = "view", !.words = "other"])
        BY <2>1 DEF Excusing, Turns
      <4> QED  BY <4>1, <4>2
    <3>3. CASE ~End(w, FALSE, FALSE) /\ ~(turn[w].words = "view" /\ ChatOf[w] \notin Web)
      <4> DEFINE due == ExcuseDue(ChatOf[w])
                 A(n) == [turn[w] EXCEPT !.step = "ask", !.words = "other",
                                         !.owed = due, !.needs = n]
      <4>1. Go(w, A(NeedsContextDisclosure(ChatOf[w]))) \/ Go(w, A(TRUE))
        BY <2>8, <3>3, Zenon DEF Fresh
      <4>2. due => NeedsContextDisclosure(ChatOf[w])
        BY <2>1, OwedIsDue DEF Excused
      <4>3. \A n : A(n).step = "ask" /\ A(n).owed = due /\ A(n).needs = n
        BY <2>1 DEF Turns
      <4> HIDE DEF A, due
      <4>4. Excusing(A(NeedsContextDisclosure(ChatOf[w])))
        BY <4>2, <4>3, Zenon DEF Excusing
      <4>5. Excusing(A(TRUE))
        BY <4>3 DEF Excusing
      <4> QED  BY <4>1, <4>4, <4>5
    <3> QED  BY <3>1, <3>2, <3>3
  <2>9. ASSUME NEW e, Answered(w, e)  PROVE \E t : Go(w, t) /\ Excusing(t)
    <3> DEFINE st == IF turn[w].needs /\ e = "none" THEN "repair" ELSE "save"
               t == [turn[w] EXCEPT !.reply = "text", !.excuse = e, !.round = 0,
                                    !.nudges = 0, !.step = st]
    <3>1. Go(w, t)  BY <2>9 DEF Answered
    <3>2. Excusing(t)  BY <2>1 DEF Excusing, Turns
    <3> QED  BY <3>1, <3>2
  <2>10. CASE Content(w) \/ Apologise(w)
    BY <2>9, <2>10 DEF Content, Apologise
  <2>11. CASE Narrates(w) \/ ToolCalls(w)
    <3>1. CASE \E e : Answered(w, e)  BY <2>9, <3>1
    <3>2. CASE ~\E e : Answered(w, e)
      <4>1. /\ turn[w].step = "ask"
            /\ \/ Go(w, [[turn[w] EXCEPT !.nudges = @ + 1] EXCEPT !.round = @ + 1])
               \/ Go(w, [[turn[w] EXCEPT !.ran = TRUE] EXCEPT !.round = @ + 1])
        BY <2>11, <3>2 DEF Narrates, ToolCalls, Asking, At, NextRound
      <4>2. /\ Excusing([[turn[w] EXCEPT !.nudges = @ + 1] EXCEPT !.round = @ + 1])
            /\ Excusing([[turn[w] EXCEPT !.ran = TRUE] EXCEPT !.round = @ + 1])
        BY <2>1, <4>1 DEF Excusing, Turns
      <4> QED  BY <4>1, <4>2
    <3> QED  BY <3>1, <3>2
  <2>12. CASE Pause(w)
    <3>1. Excusing([turn[w] EXCEPT !.step = "save", !.reply = "offer", !.round = 0,
                                   !.nudges = 0])
      BY <2>1 DEF Excusing, Turns
    <3> QED  BY <2>12, <3>1 DEF Pause
  <2>13. CASE Repair(w)
    <3>1. PICK e \in {"gist", "verbatim"} :
            Go(w, [turn[w] EXCEPT !.step = "save", !.excuse = e])
      BY <2>13 DEF Repair
    <3>2. Excusing([turn[w] EXCEPT !.step = "save", !.excuse = e])
      BY <2>1, <3>1 DEF Excusing, Turns
    <3> QED  BY <3>1, <3>2
  <2> QED
    BY <1>4, <2>5, <2>6, <2>7, <2>8, <2>10, <2>11, <2>12, <2>13 DEF Step
<1>5. ASSUME NEW w \in Worker, Save(w)  PROVE Excused'
  <2> DEFINE t == turn[w]
  <2>1. /\ \A v \in Worker : turn'[v] = IF v = w THEN Idle ELSE turn[v]
        /\ t.step = "save" /\ t \in Turns
        /\ \/ unexcused' = unexcused
           \/ /\ t.owed /\ t.reply = "text" /\ t.excuse = "none"
              /\ unexcused' = unexcused \cup {[chat |-> ChatOf[w], resumed |-> t.resumed]}
    BY <1>5 DEF Save, End, Go, At, TypeOK
  <2>2. Excusing(t) /\ Excusing(Idle)  BY DEF Excused, Excusing, Idle
  <2>3. \A v \in Worker : Excusing(turn'[v])  BY <2>1, <2>2 DEF Excused
  <2>4. t.owed /\ t.reply = "text" /\ t.excuse = "none" => t.resumed
    BY <2>1, <2>2 DEF Excusing
  <2>5. FreshExcused'  BY <2>1, <2>4 DEF Excused, FreshExcused
  <2> QED  BY <1>0, <2>3, <2>5 DEF Excused
<1> QED
  BY <1>1, <1>2, <1>3, <1>4, <1>5 DEF Next, Step

---------------------------------------------------------------------------
\* Pauses. Until a tool runs every round is a nudge, so the nudges would be used
\* up before the rounds; and step by step, what waits in a chat with one worker.
LeftIn(c) == IF last[c].paused /\ last[c].life = restarts THEN last[c].no ELSE 0

Genuine(t) ==
  /\ ~t.ran => t.round = t.nudges
  /\ t.reply = "offer" => t.ran /\ t.step = "save"

\* What waits, by the step its worker is at: p is pending[c], left is what the
\* turn before has left.
Due(t, p, left) ==
  /\ t.step \in {"idle", "look"} => p = left
  /\ t.step \in {"fresh", "ask", "repair"} => p = 0
  /\ t.step = "save" => p = IF t.reply = "offer" THEN t.no ELSE 0

Waiting ==
  /\ \A c \in Chat : last[c].life <= restarts
  /\ \A w \in Worker :
       /\ Genuine(turn[w])
       /\ Serial(ChatOf[w]) => Due(turn[w], pending[ChatOf[w]], LeftIn(ChatOf[w]))

LEMMA SerialAlone ==
  ASSUME NEW v \in Worker, NEW w \in Worker, ChatOf[v] = ChatOf[w], Serial(ChatOf[w])
  PROVE  v = w
  BY DEF Serial, Of

\* A step of w leaves what waits in other chats alone.
LEMMA WaitingOthers ==
  ASSUME TypeOK, Waiting, NEW w \in Worker, NEW t, Go(w, t),
         \A c \in Chat \ {ChatOf[w]} : pending'[c] = pending[c] /\ LeftIn(c)' = LeftIn(c),
         \A c \in Chat : last'[c].life <= restarts',
         Genuine(t),
         Serial(ChatOf[w]) => Due(t, pending'[ChatOf[w]], LeftIn(ChatOf[w])')
  PROVE  Waiting'
<1> SUFFICES ASSUME NEW v \in Worker
             PROVE  /\ Genuine(turn'[v])
                    /\ Serial(ChatOf[v]) => Due(turn'[v], pending'[ChatOf[v]], LeftIn(ChatOf[v])')
  BY DEF Waiting, Serial, Of
<1>1. CASE v = w
  <2>1. turn'[w] = t  BY DEF Go, TypeOK
  <2> QED  BY <1>1, <2>1
<1>2. CASE v # w
  <2>1. turn'[v] = turn[v]  BY <1>2 DEF Go, TypeOK
  <2>2. Serial(ChatOf[v]) => ChatOf[v] # ChatOf[w]  BY <1>2, SerialAlone
  <2>3. ChatOf[v] \in Chat  BY TurnConstants
  <2>4. Genuine(turn[v])  BY DEF Waiting
  <2>5. CASE Serial(ChatOf[v])
    <3>1. Due(turn[v], pending[ChatOf[v]], LeftIn(ChatOf[v]))  BY <2>5 DEF Waiting
    <3>2. pending'[ChatOf[v]] = pending[ChatOf[v]] /\ LeftIn(ChatOf[v])' = LeftIn(ChatOf[v])
      BY <2>2, <2>3, <2>5
    <3> QED  BY <2>1, <2>4, <3>1, <3>2
  <2> QED  BY <2>1, <2>4, <2>5
<1> QED  BY <1>1, <1>2

LEMMA WaitingGo ==
  ASSUME TypeOK, Waiting, NEW w \in Worker, NEW t, Go(w, t), UNCHANGED <<last, restarts>>,
         \A c \in Chat \ {ChatOf[w]} : pending'[c] = pending[c],
         Genuine(t),
         Serial(ChatOf[w]) => Due(t, pending'[ChatOf[w]], LeftIn(ChatOf[w]))
  PROVE  Waiting'
<1>1. \A c \in Chat : LeftIn(c)' = LeftIn(c)  BY DEF LeftIn
<1>2. LeftIn(ChatOf[w])' = LeftIn(ChatOf[w])  BY DEF LeftIn
<1>3. \A c \in Chat : last'[c].life <= restarts'  BY DEF Waiting
<1> QED  BY <1>1, <1>2, <1>3, WaitingOthers

LEMMA WaitingSame ==
  ASSUME Waiting, UNCHANGED <<pending, turn, last, restarts>>
  PROVE  Waiting'
  BY DEF Waiting, Serial, Of, LeftIn

LEMMA WaitingEnd ==
  ASSUME TypeOK, Waiting, NEW w \in Worker, NEW p \in BOOLEAN, NEW o \in BOOLEAN,
         End(w, p, o), UNCHANGED <<pending, restarts>>,
         Serial(ChatOf[w]) => pending[ChatOf[w]] = IF p THEN turn[w].no ELSE 0
  PROVE  Waiting'
<1>1. ChatOf[w] \in Chat /\ restarts \in Nat  BY TurnConstants DEF TypeOK
<1>2. last'[ChatOf[w]] = [no |-> turn[w].no, paused |-> p, offered |-> o, life |-> restarts]
  BY <1>1 DEF End, TypeOK
<1>3. \A c \in Chat \ {ChatOf[w]} : last'[c] = last[c]  BY DEF End, TypeOK
<1>4. \A c \in Chat \ {ChatOf[w]} : pending'[c] = pending[c] /\ LeftIn(c)' = LeftIn(c)
  BY <1>3 DEF LeftIn
<1>5. \A c \in Chat : last'[c].life <= restarts'
  <2> SUFFICES ASSUME NEW c \in Chat  PROVE last'[c].life <= restarts'
    OBVIOUS
  <2>1. CASE c = ChatOf[w]  BY <1>1, <1>2, <2>1
  <2>2. CASE c # ChatOf[w]  BY <1>3, <2>2 DEF Waiting
  <2> QED  BY <2>1, <2>2
<1>6. Genuine(Idle)  BY DEF Genuine, Idle
<1>7. LeftIn(ChatOf[w])' = IF p THEN turn[w].no ELSE 0  BY <1>2 DEF LeftIn
<1>8. Serial(ChatOf[w]) => Due(Idle, pending'[ChatOf[w]], LeftIn(ChatOf[w])')
  BY <1>7 DEF Due, Idle
<1>9. Go(w, Idle)  BY DEF End
<1> QED  BY <1>4, <1>5, <1>6, <1>8, <1>9, WaitingOthers

LEMMA WaitingStep ==
  ASSUME TypeOK, TypeOK', Waiting, [Next]_vars
  PROVE  Waiting'
<1> USE DEF setting, told
<1>1. CASE SetStatus \/ UNCHANGED vars \/ \E c \in Visitor : SetVIP(c) \/ Prehandle(c)
  BY <1>1, WaitingSame DEF SetStatus, SetVIP, Prehandle, vars
<1>2. CASE Restart
  <2>1. /\ \A w \in Worker : turn'[w] = Idle /\ ChatOf[w] \in Chat /\ pending'[ChatOf[w]] = 0
        /\ last' = last /\ restarts' = restarts + 1
    BY <1>2, TurnConstants DEF Restart
  <2>2. \A c \in Chat : last[c].life \in Nat /\ last[c].life <= restarts /\ restarts \in Nat
    BY TurnConstants DEF Waiting, TypeOK, Ends
  <2>3. \A c \in Chat : last'[c].life <= restarts' /\ LeftIn(c)' = 0
    BY <2>1, <2>2 DEF LeftIn
  <2> QED  BY <2>1, <2>3 DEF Waiting, Genuine, Due, Idle
<1>3. ASSUME NEW w \in Worker, Receive(w)  PROVE Waiting'
  <2>1. UNCHANGED <<pending, last, restarts>> /\ turn[w].step = "idle"  BY <1>3 DEF Receive, At
  <2>2. CASE UNCHANGED turn  BY <2>1, <2>2, WaitingSame
  <2>3. CASE ~UNCHANGED turn
    <3>1. PICK t : /\ Go(w, t)
                   /\ \E words \in Words : t = [Idle EXCEPT !.step = "look",
                                                !.no = turns + 1, !.words = words]
      BY <1>3, <2>3 DEF Receive
    <3>2. t.step = "look" /\ t.round = 0 /\ t.nudges = 0 /\ t.reply = "none"
      BY <3>1 DEF Idle
    <3>3. Serial(ChatOf[w]) => Due(t, pending'[ChatOf[w]], LeftIn(ChatOf[w]))
      BY <2>1, <3>2 DEF Waiting, Due
    <3>4. Genuine(t)  BY <3>2 DEF Genuine
    <3> QED  BY <2>1, <3>1, <3>3, <3>4, WaitingGo
  <2> QED  BY <2>2, <2>3
<1>4. ASSUME NEW w \in Worker, Step(w)  PROVE Waiting'
  <2> DEFINE c == ChatOf[w]
  <2>1. c \in Chat /\ turn[w] \in Turns /\ turn'[w] \in Turns
    BY TurnConstants DEF TypeOK
  <2>2. Genuine(turn[w]) /\ (Serial(c) => Due(turn[w], pending[c], LeftIn(c)))
    BY DEF Waiting
  <2>3. ASSUME NEW t, Go(w, t)  PROVE turn'[w] = t
    BY <2>3 DEF Go, TypeOK
  <2>4. CASE Look(w)
    <3>1. PICK st \in {"fresh", "resume", "drop"} :
            /\ Go(w, [turn[w] EXCEPT !.step = st])
            /\ st = "fresh" => pending[c] = 0
      BY <2>4 DEF Look
    <3> DEFINE t == [turn[w] EXCEPT !.step = st]
    <3>2. /\ t.step = st /\ t.ran = turn[w].ran /\ t.round = turn[w].round
          /\ t.nudges = turn[w].nudges /\ t.reply = turn[w].reply
      BY <2>1 DEF Turns
    <3>3. turn[w].step = "look" /\ UNCHANGED <<pending, last, restarts>>  BY <2>4 DEF Look, At
    <3> HIDE DEF t
    <3>4. Genuine(t) /\ Due(t, pending'[c], LeftIn(c))
      BY <2>2, <3>1, <3>2, <3>3 DEF Genuine, Due
    <3> QED  BY <3>1, <3>3, <3>4, WaitingGo DEF t
  <2>5. CASE Drop(w) \/ Resume(w)
    <3>1. PICK t : /\ Go(w, t)
                   /\ \/ t = [turn[w] EXCEPT !.step = "fresh"]
                      \/ \E d : t = [turn[w] EXCEPT !.step = "ask", !.words = "other",
                                                   !.resumed = TRUE, !.owed = d]
      BY <2>5 DEF Drop, Resume
    <3>2. /\ t.step \in {"fresh", "ask"} /\ t.ran = turn[w].ran /\ t.round = turn[w].round
          /\ t.nudges = turn[w].nudges /\ t.reply = turn[w].reply
      BY <2>1, <3>1 DEF Turns
    <3>3. /\ turn[w].step \in {"drop", "resume"} /\ UNCHANGED <<last, restarts>>
          /\ pending' = [pending EXCEPT ![c] = 0]
      BY <2>5 DEF Drop, Resume, At
    <3>4. pending'[c] = 0 /\ \A d \in Chat \ {c} : pending'[d] = pending[d]
      BY <2>1, <3>3 DEF TypeOK
    <3>5. Genuine(t) /\ Due(t, pending'[c], LeftIn(c))
      BY <2>2, <3>2, <3>3, <3>4 DEF Genuine, Due
    <3> QED  BY <3>1, <3>3, <3>4, <3>5, WaitingGo
  <2>6. CASE ModelError(w)
    <3>1. End(w, FALSE, FALSE) /\ turn[w].step = "ask" /\ UNCHANGED <<pending, restarts>>
      BY <2>6 DEF ModelError, Asking, At
    <3>2. Serial(c) => pending[c] = 0  BY <2>2, <3>1 DEF Due
    <3> QED  BY <3>1, <3>2, WaitingEnd
  <2>7. CASE Fresh(w)
    <3>1. turn[w].step = "fresh" /\ UNCHANGED <<pending, restarts>>  BY <2>7 DEF Fresh, At
    <3>2. Serial(c) => pending[c] = 0  BY <2>2, <3>1 DEF Due
    <3>3. CASE End(w, FALSE, FALSE)  BY <3>1, <3>2, <3>3, WaitingEnd
    <3>4. CASE ~End(w, FALSE, FALSE)
      <4>1. PICK t : /\ Go(w, t) /\ UNCHANGED <<last, restarts>>
                     /\ \/ t = [turn[w] EXCEPT !.step = "save", !.reply = "view",
                                               !.words = "other"]
                        \/ \E p, q : t = [turn[w] EXCEPT !.step = "ask", !.words = "other",
                                                        !.owed = p, !.needs = q]
        BY <2>7, <3>4 DEF Fresh
      <4>2. /\ t.step \in {"save", "ask"} /\ t.ran = turn[w].ran /\ t.round = turn[w].round
            /\ t.nudges = turn[w].nudges /\ t.reply \in {"view", turn[w].reply}
        BY <2>1, <4>1 DEF Turns
      <4>3. turn[w].reply # "offer"  BY <2>2, <3>1 DEF Genuine
      <4>4. Genuine(t) /\ (Serial(c) => Due(t, pending'[c], LeftIn(c)))
        BY <2>2, <3>1, <3>2, <4>1, <4>2, <4>3 DEF Genuine, Due
      <4> QED  BY <3>1, <4>1, <4>4, WaitingGo
    <3> QED  BY <3>3, <3>4
  <2>8. CASE \E e : At(w, "ask") /\ Answered(w, e) /\ UNCHANGED <<pending, last, restarts>>
    <3>1. PICK e : At(w, "ask") /\ Answered(w, e)  BY <2>8
    <3>2. PICK t : /\ Go(w, t)
                   /\ \E st \in {"repair", "save"} :
                        t = [turn[w] EXCEPT !.reply = "text", !.excuse = e, !.round = 0,
                                            !.nudges = 0, !.step = st]
      BY <3>1 DEF Answered
    <3>3. /\ t.step \in {"repair", "save"} /\ t.reply = "text"
          /\ t.round = 0 /\ t.nudges = 0
      BY <2>1, <3>2 DEF Turns
    <3>4. Serial(c) => pending[c] = 0  BY <2>2, <3>1 DEF Due, At
    <3>5. Genuine(t) /\ (Serial(c) => Due(t, pending'[c], LeftIn(c)))
      BY <2>8, <3>3, <3>4 DEF Genuine, Due
    <3> QED  BY <2>8, <3>2, <3>5, WaitingGo
  <2>9. CASE \/ Asking(w) /\ NextRound(w, [turn[w] EXCEPT !.nudges = @ + 1])
                /\ UNCHANGED <<pending, last, restarts>>
             \/ Asking(w) /\ NextRound(w, [turn[w] EXCEPT !.ran = TRUE])
                /\ UNCHANGED <<pending, last, restarts>>
    <3>1. PICK t : /\ Go(w, t)
                   /\ \/ t = [[turn[w] EXCEPT !.nudges = @ + 1] EXCEPT !.round = @ + 1]
                      \/ t = [[turn[w] EXCEPT !.ran = TRUE] EXCEPT !.round = @ + 1]
      BY <2>9 DEF NextRound
    <3>2. /\ t.step = turn[w].step /\ t.reply = turn[w].reply /\ t.round = turn[w].round + 1
          /\ t.ran \/ (t.ran = turn[w].ran /\ t.nudges = turn[w].nudges + 1)
      BY <2>1, <3>1 DEF Turns
    <3>3. turn[w].step = "ask" /\ UNCHANGED <<pending, last, restarts>>  BY <2>9 DEF Asking, At
    <3>4. Serial(c) => pending[c] = 0  BY <2>2, <3>3 DEF Due
    <3>5. Genuine(t) /\ (Serial(c) => Due(t, pending'[c], LeftIn(c)))
      BY <2>2, <3>2, <3>3, <3>4 DEF Genuine, Due
    <3> QED  BY <3>1, <3>3, <3>5, WaitingGo
  <2>10. CASE Content(w) \/ Narrates(w) \/ ToolCalls(w) \/ Apologise(w)
    BY <2>8, <2>9, <2>10 DEF Content, Narrates, ToolCalls, Apologise, Asking
  <2>11. CASE Pause(w)
    <3>1. PICK t : /\ Go(w, t)
                   /\ t = [turn[w] EXCEPT !.step = "save", !.reply = "offer", !.round = 0,
                                          !.nudges = 0]
      BY <2>11 DEF Pause
    <3>2. /\ t.step = "save" /\ t.ran = turn[w].ran /\ t.round = 0 /\ t.nudges = 0
          /\ t.no = turn[w].no
      BY <2>1, <3>1 DEF Turns
    <3>3. /\ pending' = [pending EXCEPT ![c] = turn[w].no] /\ UNCHANGED <<last, restarts>>
          /\ turn[w].round = MaxRounds
      BY <2>11 DEF Pause
    <3>4. pending'[c] = turn[w].no /\ \A d \in Chat \ {c} : pending'[d] = pending[d]
      BY <2>1, <3>3 DEF TypeOK
    <3>5. turn[w].ran
      <4>1. turn[w].nudges \in 0..MaxNudges /\ turn[w].ran \in BOOLEAN  BY <2>1 DEF Turns
      <4> QED  BY <2>2, <3>3, <4>1, TurnConstants DEF Genuine
    <3>6. t.reply = "offer"  BY <2>1, <3>1 DEF Turns
    <3>7. Genuine(t) /\ Due(t, pending'[c], LeftIn(c))
      BY <3>2, <3>4, <3>5, <3>6 DEF Genuine, Due
    <3> QED  BY <3>1, <3>3, <3>4, <3>7, WaitingGo
  <2>12. CASE Repair(w)
    <3>1. PICK t : /\ Go(w, t)
                   /\ \E e : t = [turn[w] EXCEPT !.step = "save", !.excuse = e]
      BY <2>12 DEF Repair
    <3>2. /\ t.step = "save" /\ t.ran = turn[w].ran /\ t.round = turn[w].round
          /\ t.nudges = turn[w].nudges /\ t.reply = turn[w].reply
      BY <2>1, <3>1 DEF Turns
    <3>3. turn[w].step = "repair" /\ UNCHANGED <<pending, last, restarts>>  BY <2>12 DEF Repair, At
    <3>4. turn[w].reply # "offer"  BY <2>2, <3>3 DEF Genuine
    <3>5. Genuine(t) /\ (Serial(c) => Due(t, pending'[c], LeftIn(c)))
      BY <2>2, <3>2, <3>3, <3>4 DEF Genuine, Due
    <3> QED  BY <3>1, <3>3, <3>5, WaitingGo
  <2>13. CASE Save(w)
    <3>1. /\ \E o \in BOOLEAN : End(w, turn[w].reply = "offer", o)
          /\ turn[w].step = "save" /\ UNCHANGED <<pending, restarts>>
      BY <2>13 DEF Save, At
    <3>2. Serial(c) => pending[c] = IF turn[w].reply = "offer" THEN turn[w].no ELSE 0
      BY <2>2, <3>1 DEF Due
    <3>3. (turn[w].reply = "offer") \in BOOLEAN  OBVIOUS
    <3> QED  BY <3>1, <3>2, <3>3, WaitingEnd
  <2> QED
    BY <1>4, <2>4, <2>5, <2>6, <2>7, <2>10, <2>11, <2>12, <2>13 DEF Step
<1> QED  BY <1>1, <1>2, <1>3, <1>4 DEF Next

---------------------------------------------------------------------------
\* The variables keep their types, rounds and nudges their limits and the
\* history its window, for any number of chats and turns.
THEOREM TypeCorrect == Spec => []TypeOK
<1>1. Init => TypeOK
  BY ZeroType, IdleType, TurnConstants DEF Init, TypeOK, Unturned, Ends, Number
<1> DEFINE Count == \A v \in Visitor : Dated(hist[v], since[v])
<1>2. Init => Count  BY DEF Init, Dated
<1>3. TypeOK /\ Count /\ [Next]_vars => TypeOK' /\ Count'  BY TypeStep
<1> QED  BY <1>1, <1>2, <1>3, PTL DEF Spec

\* Every answer a fresh turn gives in the Master's stead comes with the excuse
\* unless that was given within the last Window entries, for any window, however
\* often the excuse has left it, was paraphrased or could not be saved.
THEOREM TheExcuseIsGiven == Spec => []FreshExcused
<1>1. Init => Excused
  BY DEF Init, Excused, FreshExcused, Dated, Excusing, Idle
<1>2. TypeOK /\ Excused /\ [Next]_vars => Excused'  BY ExcusedStep
<1>3. Excused => FreshExcused  BY DEF Excused
<1> QED  BY <1>1, <1>2, <1>3, TypeCorrect, PTL DEF Spec

LEMMA WaitingHolds == Spec => []Waiting
<1>1. Init => Waiting
  BY TurnConstants DEF Init, Waiting, Genuine, Due, LeftIn, Idle, Unturned
<1>2. TypeOK /\ TypeOK' /\ Waiting /\ [Next]_vars => Waiting'  BY WaitingStep
<1> QED  BY <1>1, <1>2, TypeCorrect, PTL DEF Spec

\* Where turns come one at a time, an iteration waits exactly when the last turn
\* has paused since the last restart, and it is that turn's.
THEOREM OffersAreKept == Spec => []WaitsIffPaused
<1>1. TypeOK /\ Waiting => WaitsIffPaused
  <2> SUFFICES ASSUME TypeOK, Waiting, NEW c \in Chat, Serial(c),
                      \A w \in Of(c) : ~Busy(w)
               PROVE  pending[c] = LeftIn(c)
    BY DEF WaitsIffPaused, LeftIn
  <2>1. PICK w \in Worker : w \in Of(c) /\ ChatOf[w] = c  BY DEF Serial, Of
  <2>2. turn[w].step = "idle"  BY <2>1 DEF Busy, At
  <2> QED  BY <2>1, <2>2 DEF Waiting, Due
<1> QED  BY <1>1, TypeCorrect, WaitingHolds, PTL

\* A turn pauses only after a tool has run.
THEOREM PausesAreGenuine == Spec => []PauseIsGenuine
<1>1. Waiting => PauseIsGenuine  BY DEF Waiting, Genuine, PauseIsGenuine
<1> QED  BY <1>1, WaitingHolds, PTL
=============================================================================
