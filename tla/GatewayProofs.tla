--------------------------- MODULE GatewayProofs ----------------------------
(* Theorems about the front door, for any senders, messages, goroutines,     *)
(* capacity, cooldown and number of restarts and echoes.  The tracker's      *)
(* sequence is left to TLC: nothing below depends on what it remembers.      *)
EXTENDS Gateway, SequenceTheorems, TLAPS

Step == OutKind \cup {"enqueue"}
Place == {"idle", "dedup", "evict", "gate", "cooldown", "prehandle", "todo", "mark", "model"}

Types ==
  /\ now \in Nat /\ boots \in Nat
  /\ wire \subseteq [item : Item, life : Nat]
  /\ dedup \subseteq [item : Item, at : Nat]
  /\ lastAlert \subseteq [chat : Sender, at : Nat]
  /\ pc \in [Goroutine -> Place]
  /\ item \in [Goroutine -> Item \cup {NoItem}]
  /\ read \in [Goroutine -> Nat]
  /\ todo \in [Goroutine -> Seq(Step)]
  /\ mailbox \in [Sender -> Seq(Msg)]
  /\ entered \in [Msg -> Seq([life : Nat, at : Nat])]
  /\ cascades \in [Sender -> Seq(Nat)]
  /\ admitted \subseteq Msg /\ answered \subseteq Msg /\ lost \subseteq Msg

\* A goroutine that does anything has an item, one past the gate a message of a
\* person; a worker only ever has messages of people.
Holding ==
  /\ \A g \in Goroutine : pc[g] # "idle" => item[g] \in Item
  /\ \A g \in Goroutine : item[g] \in Out => pc[g] \in {"dedup", "evict", "gate"}
  /\ \A s \in Sender : pc[s] \notin {"dedup", "evict", "gate"}

\* What was sent is still the first thing to do, and was no handover.
Marking ==
  \A g \in Goroutine : pc[g] = "mark" =>
    /\ todo[g] # <<>> /\ Head(todo[g]) # "enqueue"
    /\ Head(todo[g]) \in Final => item[g] \in answered

\* A message is written in one life, and enters in that life only; while its
\* latest entry is in the window the dedup knows it.
Entered(m, e) ==
  /\ \E w \in wire : w.item = m /\ w.life = e.life
  /\ e.life = boots => [item |-> m, at |-> e.at] \in dedup \/ e.at + DedupTTL < now

Windows == \A m \in Msg : \A i \in DOMAIN entered[m] : Entered(m, entered[m][i])

Lives ==
  /\ \A w \in wire : w.life <= boots
  /\ \A v, w \in wire : v.item = w.item /\ v.item \in Msg => v = w
  /\ \A g \in Goroutine : pc[g] = "dedup" /\ item[g] \in Msg =>
       \E w \in wire : w.item = item[g] /\ w.life = boots
  /\ Windows
  /\ OnceInWindow

\* The last stamp of a chat is remembered, and none is later.
Spaced ==
  /\ AlertSpacing
  /\ \A s \in Sender : \A i \in DOMAIN cascades[s] :
       \E e \in lastAlert : e.chat = s /\ cascades[s][i] <= e.at

\* A goroutine that will bring its message to an end, or to the queue.
Promises(q) == \E i \in DOMAIN q : q[i] \in Final \cup {"enqueue"}
Owes(g) == \/ pc[g] \in {"cooldown", "prehandle", "model"}
           \/ pc[g] \in {"todo", "mark"} /\ Promises(todo[g])

Owed ==
  \A m \in admitted :
    \/ m \in answered \cup lost
    \/ \E s \in Sender : m \in Waiting(s)
    \/ \E g \in Goroutine : item[g] = m /\ Owes(g)

IInv == Types /\ Holding /\ Marking /\ Lives /\ Spaced /\ Owed

-----------------------------------------------------------------------------
(* lemmas about sequences, and about what one goroutine's step leaves alone *)

LEMMA TailOf ==
  ASSUME NEW S, NEW q \in Seq(S), q # <<>>
  PROVE  /\ Tail(q) \in Seq(S) /\ Head(q) \in S
         /\ \A i \in DOMAIN q : q[i] = Head(q) \/ \E j \in DOMAIN Tail(q) : Tail(q)[j] = q[i]
         /\ \A j \in DOMAIN Tail(q) : \E i \in DOMAIN q : Tail(q)[j] = q[i]
<1>1. /\ Tail(q) \in Seq(S) /\ Head(q) \in S /\ Len(q) \in Nat \ {0}
      /\ Len(Tail(q)) = Len(q) - 1 /\ Head(q) = q[1]
      /\ \A j \in 1..Len(Tail(q)) : Tail(q)[j] = q[j + 1]
  BY HeadTailProperties, LenProperties, EmptySeq
<1>2. DOMAIN q = 1..Len(q) /\ DOMAIN Tail(q) = 1..Len(Tail(q))
  BY <1>1, LenProperties
<1>3. ASSUME NEW i \in DOMAIN q, i # 1
      PROVE  i - 1 \in DOMAIN Tail(q) /\ Tail(q)[i - 1] = q[i]
  BY <1>1, <1>2, <1>3
<1>4. ASSUME NEW j \in DOMAIN Tail(q) PROVE j + 1 \in DOMAIN q
  BY <1>1, <1>2, <1>4
<1> QED  BY <1>1, <1>2, <1>3, <1>4

LEMMA AppendOf ==
  ASSUME NEW S, NEW q \in Seq(S), NEW x \in S
  PROVE  /\ Append(q, x) \in Seq(S)
         /\ Len(q) \in Nat /\ DOMAIN q = 1..Len(q) /\ DOMAIN Append(q, x) = 1..(Len(q) + 1)
         /\ \A i \in DOMAIN q : Append(q, x)[i] = q[i]
         /\ Append(q, x)[Len(q) + 1] = x
BY AppendProperties, LenProperties

\* Once something that is no promise has been done, the promise is still ahead.
LEMMA StillPromises ==
  ASSUME NEW q \in Seq(Step), q # <<>>, Promises(q), Head(q) \notin Final \cup {"enqueue"}
  PROVE  Promises(Tail(q))
BY TailOf DEF Promises

LEMMA Kinds ==
  /\ Msg \cap Out = {} /\ Item = Msg \cup Out /\ NoItem \notin Item
  /\ \A x \in Item : Owner(x) \in Sender
  /\ Caller \subseteq Goroutine /\ Sender \subseteq Goroutine
  /\ Final \subseteq Step /\ "enqueue" \notin Final /\ "enqueue" \notin OutKind
BY SenderType, MsgType, BoundType DEF Item, Owner, Goroutine, Step, OutKind, Final, ToMaster

Alone(g) ==
  \A h \in Goroutine \ {g} : pc'[h] = pc[h] /\ item'[h] = item[h] /\ todo'[h] = todo[h]

LEMMA ReturnIs ==
  ASSUME Types, NEW g \in Goroutine, Return(g)
  PROVE  /\ pc' \in [Goroutine -> Place] /\ item' \in [Goroutine -> Item \cup {NoItem}]
         /\ todo' = todo /\ Alone(g) /\ pc'[g] = "idle" /\ item'[g] = NoItem
BY DEF Types, Return, Alone, Place

LEMMA GotoIs ==
  ASSUME Types, NEW g \in Goroutine, NEW to \in Place, Goto(g, to)
  PROVE  /\ pc' \in [Goroutine -> Place] /\ item' = item /\ todo' = todo
         /\ Alone(g) /\ pc'[g] = to
BY DEF Types, Goto, Alone

LEMMA DoIs ==
  ASSUME Types, NEW g \in Goroutine, NEW steps \in Seq(Step), Do(g, steps)
  PROVE  /\ pc' \in [Goroutine -> Place] /\ item' = item /\ todo' \in [Goroutine -> Seq(Step)]
         /\ Alone(g) /\ pc'[g] = "todo" /\ todo'[g] = steps
BY DEF Types, Do, Alone, Place

LEMMA AdvanceIs ==
  ASSUME Types, NEW g \in Goroutine, todo[g] # <<>>, Advance(g)
  PROVE  /\ todo' \in [Goroutine -> Seq(Step)] /\ todo'[g] = Tail(todo[g])
         /\ \A h \in Goroutine \ {g} : todo'[h] = todo[h]
<1>1. todo[g] \in Seq(Step) /\ Tail(todo[g]) \in Seq(Step)  BY TailOf DEF Types
<1> QED  BY <1>1 DEF Types, Advance

\* A goroutine past the gate has somebody's message.
LEMMA HasMsg ==
  ASSUME Holding, NEW g \in Goroutine, pc[g] \notin {"idle", "dedup", "evict", "gate"}
  PROVE  item[g] \in Msg /\ item[g] \in Item /\ Owner(item[g]) \in Sender
BY Kinds DEF Holding

LEMMA HoldingStep ==
  ASSUME Holding, NEW g \in Goroutine, Alone(g),
         pc'[g] # "idle" => item'[g] \in Item,
         item'[g] \in Out => pc'[g] \in {"dedup", "evict", "gate"},
         g \in Sender => pc'[g] \notin {"dedup", "evict", "gate"}
  PROVE  Holding'
<1>1. \A h \in Goroutine : h # g => pc'[h] = pc[h] /\ item'[h] = item[h]  BY DEF Alone
<1> QED  BY <1>1, Kinds DEF Holding

LEMMA MarkingStep ==
  ASSUME Marking, NEW g \in Goroutine, Alone(g), answered \subseteq answered',
         pc'[g] = "mark" => /\ todo'[g] # <<>> /\ Head(todo'[g]) # "enqueue"
                            /\ Head(todo'[g]) \in Final => item'[g] \in answered'
  PROVE  Marking'
<1>1. \A h \in Goroutine : h # g => pc'[h] = pc[h] /\ item'[h] = item[h] /\ todo'[h] = todo[h]
  BY DEF Alone
<1> QED  BY <1>1 DEF Marking

LEMMA LivesStep ==
  ASSUME Types, Lives, NEW g \in Goroutine, Alone(g), UNCHANGED <<now, boots, dedup, entered>>,
         wire \subseteq wire', \A w \in wire' \ wire : w.item \in Out /\ w.life = boots,
         pc'[g] # "dedup"
  PROVE  Lives'
<1>1. \A h \in Goroutine : h # g => pc'[h] = pc[h] /\ item'[h] = item[h]  BY DEF Alone
<1>2. \A w \in wire' : w \in wire \/ (w.item \notin Msg /\ w.life = boots)  BY Kinds
<1>3. \A w \in wire' : w.life <= boots'  BY <1>2 DEF Lives, Types
<1>4. \A v, w \in wire' : v.item = w.item /\ v.item \in Msg => v = w  BY <1>2 DEF Lives
<1>5. \A h \in Goroutine : pc'[h] = "dedup" /\ item'[h] \in Msg =>
        \E w \in wire' : w.item = item'[h] /\ w.life = boots'
  BY <1>1 DEF Lives
<1>6. Windows'
  BY DEF Lives, Windows, Entered
<1>7. OnceInWindow'  BY DEF Lives, OnceInWindow
<1> QED  BY <1>3, <1>4, <1>5, <1>6, <1>7 DEF Lives

Kept(m) == m \in answered \cup lost \/ (\E s \in Sender : m \in Waiting(s))

\* Only g moves, and leaves nothing undone.
LEMMA OwedStep ==
  ASSUME Owed, NEW g \in Goroutine, Alone(g), \A m \in Msg : Kept(m) => Kept(m)',
         NEW x, x = item[g], admitted \subseteq Msg, admitted' \subseteq admitted \cup {x},
         Owes(g) \/ x \in admitted' \ admitted => Kept(x)' \/ (item'[g] = x /\ Owes(g)')
  PROVE  Owed'
<1>1. \A h \in Goroutine : h # g => item'[h] = item[h] /\ (Owes(h) => Owes(h)')
  BY DEF Alone, Owes
<1>2. ASSUME NEW m \in admitted' PROVE Kept(m)' \/ \E h \in Goroutine : item'[h] = m /\ Owes(h)'
  <2>1. CASE m \in admitted
    <3>1. CASE Kept(m)  BY <2>1, <3>1
    <3>2. CASE ~Kept(m)
      <4>1. PICK h \in Goroutine : item[h] = m /\ Owes(h)  BY <2>1, <3>2 DEF Owed, Kept
      <4> QED  BY <1>1, <4>1
    <3> QED  BY <3>1, <3>2
  <2>2. CASE m \notin admitted  BY <1>2, <2>2
  <2> QED  BY <2>1, <2>2
<1> QED  BY <1>2 DEF Owed, Kept

LEMMA SpacedStep == ASSUME Spaced, UNCHANGED <<lastAlert, cascades>> PROVE Spaced'
BY DEF Spaced, AlertSpacing

LEMMA KeptSame ==
  ASSUME UNCHANGED mailbox, answered \subseteq answered', lost \subseteq lost'
  PROVE  \A m \in Msg : Kept(m) => Kept(m)'
BY DEF Kept, Waiting

LEMMA StepsOne ==
  ASSUME NEW a \in Final \cup {"enqueue"}
  PROVE  <<a>> \in Seq(Step) /\ Promises(<<a>>)
BY Kinds DEF Promises, Step

LEMMA StepsTwo ==
  ASSUME NEW a \in Step, NEW b \in Final \cup {"enqueue"}
  PROVE  <<a, b>> \in Seq(Step) /\ Promises(<<a, b>>)
BY Kinds DEF Promises, Step

LEMMA StepsCat ==
  ASSUME NEW p \in Seq(Step), NEW q \in Seq(Step), Promises(q)
  PROVE  p \o q \in Seq(Step) /\ Promises(p \o q)
<1>1. PICK i \in DOMAIN q : q[i] \in Final \cup {"enqueue"}  BY DEF Promises
<1>2. /\ p \o q \in Seq(Step) /\ DOMAIN q = 1..Len(q) /\ DOMAIN (p \o q) = 1..Len(p \o q)
      /\ Len(p) \in Nat /\ Len(q) \in Nat /\ Len(p \o q) = Len(p) + Len(q)
  BY ConcatProperties, LenProperties
<1>3. i + Len(p) \in DOMAIN (p \o q)  BY <1>1, <1>2
<1>4. (p \o q)[i + Len(p)] = q[i]
  <2>1. i + Len(p) > Len(p) /\ i + Len(p) - Len(p) = i  BY <1>1, <1>2
  <2> QED  BY <1>2, <1>3, <2>1, ConcatProperties
<1> QED  BY <1>1, <1>2, <1>3, <1>4 DEF Promises

-----------------------------------------------------------------------------
(* every step keeps the invariant *)

LEMMA InitInv == Init => IInv
<1> SUFFICES ASSUME Init PROVE IInv  OBVIOUS
<1>1. Types
  BY Kinds, BoundType, EmptySeq DEF Init, Types, Mailboxes!Init, Place
<1>2. Holding /\ Marking /\ Lives /\ Spaced /\ Owed
  BY Kinds DEF Init, Holding, Marking, Lives, Windows, OnceInWindow, Spaced, AlertSpacing, Owed
<1> QED  BY <1>1, <1>2 DEF IInv

LEMMA WriteInv == ASSUME IInv, NEW m \in Msg, Write(m) PROVE IInv'
<1> USE DEF IInv
<1> DEFINE n == [item |-> m, life |-> boots]
<1>1. /\ \A w \in wire : w.item # m
      /\ wire' = wire \cup {n}
      /\ UNCHANGED <<now, boots, memory, control, dispatcher, history>>
  BY DEF Write
<1>2. n \in [item : Item, life : Nat] /\ n.item = m /\ n.life = boots  BY Kinds DEF Types
<1> HIDE DEF n
<1>3. Types'  BY <1>1, <1>2 DEF Types, memory, control, dispatcher, history
<1>4. Holding' /\ Marking' /\ Spaced' /\ Owed'
  BY <1>1 DEF Holding, Marking, Spaced, AlertSpacing, Owed, Owes, Promises, Waiting,
              memory, control, dispatcher, history
<1>5. Lives'
  <2>1. UNCHANGED <<now, boots, dedup, pc, item, entered>> /\ wire \subseteq wire'
    BY <1>1 DEF memory, control, history
  <2>2. Windows'
    BY <2>1 DEF Lives, Windows, Entered
  <2>3. OnceInWindow'  BY <2>1 DEF Lives, OnceInWindow
  <2>4. \A w \in wire' : w.life <= boots'  BY <1>1, <1>2, <2>1 DEF Lives, Types
  <2>5. \A v, w \in wire' : v.item = w.item /\ v.item \in Msg => v = w
    BY <1>1, <1>2 DEF Lives
  <2>6. \A g \in Goroutine : pc'[g] = "dedup" /\ item'[g] \in Msg =>
          \E w \in wire' : w.item = item'[g] /\ w.life = boots'
    BY <2>1 DEF Lives
  <2> QED  BY <2>2, <2>3, <2>4, <2>5, <2>6 DEF Lives
<1> QED  BY <1>3, <1>4, <1>5

LEMMA TickInv == ASSUME IInv, Tick PROVE IInv'
<1>1. now' = now + 1 /\ UNCHANGED <<boots, wire, memory, control, dispatcher, history>>
  BY DEF Tick
<1>2. ASSUME NEW m \in Msg, NEW i \in DOMAIN entered[m]
      PROVE  Entered(m, entered[m][i])'
  <2>1. Entered(m, entered[m][i])  BY DEF IInv, Lives, Windows
  <2>2. entered[m][i] \in [life : Nat, at : Nat]
    <3>1. entered[m] \in Seq([life : Nat, at : Nat])  BY DEF IInv, Types
    <3>2. i \in 1..Len(entered[m])  BY <3>1, LenProperties
    <3> QED  BY <3>1, <3>2, ElementOfSeq
  <2>3. UNCHANGED <<boots, wire, dedup, entered>> /\ now \in Nat  BY <1>1 DEF memory, history, IInv, Types
  <2> QED  BY <1>1, <2>1, <2>2, <2>3, BoundType DEF Entered
<1>3. Lives'
  <2>1. UNCHANGED <<boots, wire, pc, item, entered>>  BY <1>1 DEF control, history
  <2>2. OnceInWindow'  BY <2>1 DEF IInv, Lives, OnceInWindow
  <2> QED  BY <1>2, <2>1, <2>2 DEF IInv, Lives, Windows
<1> QED
  BY <1>1, <1>3 DEF IInv, Types, Holding, Marking, Spaced, AlertSpacing, Owed, Owes,
              Promises, Waiting, memory, control, dispatcher, history

LEMMA RestartInv == ASSUME IInv, Restart PROVE IInv'
<1> USE DEF IInv
<1>1. /\ boots' = boots + 1 /\ now' = now + 1 /\ dedup' = {} /\ lastAlert' = {}
      /\ pc' = [g \in Goroutine |-> "idle"] /\ item' = [g \in Goroutine |-> NoItem]
      /\ read' = [g \in Goroutine |-> 0] /\ todo' = [g \in Goroutine |-> <<>>]
      /\ mailbox' = [s \in Sender |-> <<>>]
      /\ cascades' = [s \in Sender |-> <<>>]
      /\ lost' = lost \cup (Msg \cap ({item[g] : g \in Goroutine}
                                      \cup UNION {Waiting(s) : s \in Sender}))
      /\ UNCHANGED <<wire, entered, admitted, answered>>
  BY DEF Restart
<1>2. Types'  BY <1>1, Kinds, EmptySeq DEF Types, Place
<1>3. Holding' /\ Marking' /\ Spaced'
  BY <1>1, Kinds DEF Holding, Marking, Spaced, AlertSpacing
<1>4. Lives'
  <2>1. OnceInWindow'  BY <1>1 DEF Lives, OnceInWindow
  <2>2. ASSUME NEW m \in Msg, NEW i \in DOMAIN entered[m]
        PROVE  Entered(m, entered[m][i])'
    <3>1. PICK w \in wire : w.item = m /\ w.life = entered[m][i].life  BY DEF Lives, Windows, Entered
    <3>2. w.life <= boots /\ w.life \in Nat /\ boots \in Nat  BY DEF Lives, Types
    <3>3. entered[m][i].life # boots'  BY <1>1, <3>1, <3>2
    <3> QED  BY <1>1, <3>1, <3>3 DEF Entered
  <2>3. \A w \in wire' : w.life <= boots'  BY <1>1 DEF Lives, Types
  <2> QED  BY <1>1, <2>1, <2>2, <2>3 DEF Lives, Windows
<1>5. ASSUME NEW m \in admitted PROVE m \in answered \cup lost'
  BY <1>1, <1>5 DEF Owed, Types
<1>6. Owed'  BY <1>1, <1>5 DEF Owed
<1> QED  BY <1>2, <1>3, <1>4, <1>6

LEMMA OnEventInv == ASSUME IInv, NEW g \in Caller, OnEvent(g) PROVE IInv'
<1> USE DEF IInv
<1>1. PICK w \in wire :
        /\ pc[g] = "idle" /\ w.life = boots
        /\ UNCHANGED <<pc, item>> \/ Start(g, w.item)
        /\ UNCHANGED <<network, dedup, lastAlert, read, todo, dispatcher, history>>
  BY DEF OnEvent, Fresh
<1>2. g \in Goroutine /\ w.item \in Item  BY Kinds DEF Types
<1>3. /\ Alone(g) /\ pc' \in [Goroutine -> Place] /\ item' \in [Goroutine -> Item \cup {NoItem}]
      /\ \/ pc'[g] = "idle" /\ item'[g] = item[g]
         \/ pc'[g] = "dedup" /\ item'[g] = w.item
  <2>1. /\ pc \in [Goroutine -> Place] /\ item \in [Goroutine -> Item \cup {NoItem}]
        /\ todo' = todo /\ "dedup" \in Place /\ pc[g] = "idle"
    BY <1>1 DEF Types, Place
  <2>2. CASE UNCHANGED <<pc, item>>  BY <2>1, <2>2 DEF Alone
  <2>3. CASE Start(g, w.item)  BY <1>1, <1>2, <2>1, <2>3 DEF Start, Alone
  <2> QED  BY <1>1, <2>2, <2>3
<1>4. Types'  BY <1>1, <1>3 DEF Types, network, dispatcher, history
<1>5. Holding'
  <2>1. g \notin Sender  BY SenderType
  <2>2. item[g] \notin Out  BY <1>1, <1>2 DEF Holding
  <2> QED  BY <1>2, <1>3, <2>1, <2>2, HoldingStep
<1>6. Marking'  BY <1>1, <1>2, <1>3, MarkingStep DEF history
<1>7. Lives'
  <2>1. UNCHANGED <<boots, wire, dedup, entered>>  BY <1>1 DEF network, history
  <2>2. \A h \in Goroutine : h # g => pc'[h] = pc[h] /\ item'[h] = item[h]  BY <1>3 DEF Alone
  <2>3. \A h \in Goroutine : pc'[h] = "dedup" /\ item'[h] \in Msg =>
          \E v \in wire' : v.item = item'[h] /\ v.life = boots'
    BY <1>1, <1>3, <2>1, <2>2 DEF Lives
  <2>4. now' = now  BY <1>1 DEF network
  <2>5. Windows'
    BY <2>1, <2>4 DEF Lives, Windows, Entered
  <2>6. OnceInWindow'  BY <2>1 DEF Lives, OnceInWindow
  <2> QED  BY <2>1, <2>3, <2>5, <2>6 DEF Lives
<1>8. Spaced'  BY <1>1, SpacedStep DEF history
<1>9. Owed'
  <2>1. admitted \subseteq Msg /\ UNCHANGED <<mailbox, answered, lost, admitted>>
    BY <1>1 DEF Types, dispatcher, history
  <2>2. ~Owes(g)  BY <1>1 DEF Owes
  <2> QED  BY <1>2, <1>3, <2>1, <2>2, KeptSame, OwedStep
<1> QED  BY <1>4, <1>5, <1>6, <1>7, <1>8, <1>9

\* What the dedup does not know, and is fresh, has not entered within the window.
LEMMA WindowStep ==
  ASSUME Types, Lives, NEW x \in Msg, NEW w \in wire, w.item = x, w.life = boots,
         \A e \in dedup : e.item # x,
         dedup' = dedup \cup {[item |-> x, at |-> now]},
         entered' = [entered EXCEPT ![x] = Append(entered[x], [life |-> boots, at |-> now])],
         UNCHANGED <<now, boots, wire>>
  PROVE  /\ Windows'
         /\ OnceInWindow'
<1> DEFINE n == [life |-> boots, at |-> now]
           q == entered[x]
<1>1. q \in Seq([life : Nat, at : Nat]) /\ n \in [life : Nat, at : Nat]  BY DEF Types
<1>2. /\ Len(q) \in Nat /\ DOMAIN q = 1..Len(q) /\ DOMAIN Append(q, n) = 1..(Len(q) + 1)
      /\ \A i \in DOMAIN q : Append(q, n)[i] = q[i]
      /\ Append(q, n)[Len(q) + 1] = n
  BY <1>1, AppendOf
<1>3. entered'[x] = Append(q, n) /\ \A m \in Msg : m # x => entered'[m] = entered[m]
  BY DEF Types
<1> HIDE DEF n
<1>4. n.life = boots /\ n.at = now  BY DEF n
<1>5. ASSUME NEW i \in DOMAIN q PROVE q[i].life = boots /\ q[i].at + DedupTTL < now
  <2>1. Entered(x, q[i])  BY DEF Lives, Windows
  <2>2. PICK v \in wire : v.item = x /\ v.life = q[i].life  BY <2>1 DEF Entered
  <2>3. v = w  BY <2>2 DEF Lives
  <2>4. [item |-> x, at |-> q[i].at] \notin dedup  OBVIOUS
  <2> QED  BY <2>1, <2>2, <2>3, <2>4 DEF Entered
<1>6. \A i \in DOMAIN entered'[x] : i \in DOMAIN q \/ i = Len(q) + 1  BY <1>2, <1>3
<1>7. ASSUME NEW m \in Msg, NEW i \in DOMAIN entered'[m] PROVE Entered(m, entered[m][i])'
  <2>1. CASE m # x \/ i \in DOMAIN q
    <3>1. i \in DOMAIN entered[m] /\ entered'[m][i] = entered[m][i]
      BY <1>2, <1>3, <1>7, <2>1
    <3>2. Entered(m, entered[m][i])  BY <3>1 DEF Lives, Windows
    <3>3. dedup \subseteq dedup'  OBVIOUS
    <3> QED  BY <3>1, <3>2, <3>3 DEF Entered
  <2>2. CASE m = x /\ i = Len(q) + 1
    <3>1. entered'[m][i] = n  BY <1>2, <1>3, <2>2
    <3>2. [item |-> m, at |-> n.at] \in dedup'  BY <1>4, <2>2
    <3> QED  BY <1>4, <2>2, <3>1, <3>2 DEF Entered
  <2> QED  BY <1>6, <1>7, <2>1, <2>2
<1>8. ASSUME NEW m \in Msg, NEW i \in DOMAIN entered'[m], NEW j \in DOMAIN entered'[m], i < j
      PROVE  /\ entered'[m][i].life = entered'[m][j].life
             /\ entered'[m][i].at + DedupTTL < entered'[m][j].at
  <2>1. CASE m # x \/ (i \in DOMAIN q /\ j \in DOMAIN q)
    <3>1. /\ i \in DOMAIN entered[m] /\ entered'[m][i] = entered[m][i]
          /\ j \in DOMAIN entered[m] /\ entered'[m][j] = entered[m][j]
      BY <1>2, <1>3, <1>8, <2>1
    <3> QED  BY <1>8, <3>1 DEF Lives, OnceInWindow
  <2>2. CASE m = x /\ i \in DOMAIN q /\ j = Len(q) + 1
    BY <1>2, <1>3, <1>4, <1>5, <2>2
  <2>3. m = x => i \in DOMAIN q /\ (j \in DOMAIN q \/ j = Len(q) + 1)  BY <1>2, <1>3, <1>8
  <2> QED  BY <2>1, <2>2, <2>3
<1> QED  BY <1>7, <1>8 DEF Windows, OnceInWindow

LEMMA DedupInv == ASSUME IInv, NEW g \in Caller, Dedup(g) PROVE IInv'
<1> USE DEF IInv
<1> DEFINE x == item[g]
           n == [life |-> boots, at |-> now]
           Inserted ==
             /\ \A e \in dedup : e.item # x
             /\ dedup' = dedup \cup {[item |-> x, at |-> now]}
             /\ entered' = IF x \in Msg THEN [entered EXCEPT ![x] = Append(entered[x], n)]
                           ELSE entered
<1>1. /\ pc[g] = "dedup" /\ g \in Goroutine /\ g \notin Sender /\ x \in Item
      /\ UNCHANGED <<network, lastAlert, read, dispatcher, cascades, admitted,
                     answered, lost>>
  BY Kinds, SenderType DEF Dedup, Holding
<1>2. /\ Alone(g) /\ pc' \in [Goroutine -> Place] /\ item' \in [Goroutine -> Item \cup {NoItem}]
      /\ todo' = todo
      /\ \/ /\ pc'[g] = "idle" /\ item'[g] = NoItem /\ UNCHANGED <<dedup, entered>>
         \/ /\ pc'[g] = "evict" /\ item'[g] = x /\ Inserted
  <2>1. CASE Return(g) /\ UNCHANGED <<dedup, entered>>  BY <1>1, <2>1, ReturnIs
  <2>2. CASE Goto(g, "evict") /\ Inserted
    <3>1. "evict" \in Place  BY DEF Place
    <3>2. /\ pc' \in [Goroutine -> Place] /\ item' = item /\ todo' = todo
          /\ Alone(g) /\ pc'[g] = "evict"
      BY <1>1, <2>2, <3>1, GotoIs
    <3> QED  BY <2>2, <3>2 DEF Types
  <2> QED  BY <2>1, <2>2 DEF Dedup
<1>3. Types'
  <2>1. now \in Nat /\ n \in [life : Nat, at : Nat]  BY DEF Types
  <2>2. entered' \in [Msg -> Seq([life : Nat, at : Nat])]
    <3>1. CASE entered' = entered  BY <3>1 DEF Types
    <3>2. CASE x \in Msg /\ entered' = [entered EXCEPT ![x] = Append(entered[x], n)]
      <4>1. Append(entered[x], n) \in Seq([life : Nat, at : Nat])
        BY <2>1, <3>2, AppendOf DEF Types
      <4> QED  BY <3>2, <4>1 DEF Types
    <3> QED  BY <1>2, <3>1, <3>2
  <2>3. dedup' \subseteq [item : Item, at : Nat]  BY <1>1, <1>2, <2>1 DEF Types
  <2> QED  BY <1>1, <1>2, <2>2, <2>3 DEF Types, network, dispatcher
<1>4. Holding'  BY <1>1, <1>2, Kinds, HoldingStep
<1>5. Marking'  BY <1>1, <1>2, MarkingStep
<1>6. Lives'
  <2>1. UNCHANGED <<now, boots, wire>>  BY <1>1 DEF network
  <2>2. \A h \in Goroutine : pc'[h] = "dedup" => pc[h] = "dedup" /\ item'[h] = item[h]
    BY <1>2 DEF Alone
  <2>3. /\ Windows'
        /\ OnceInWindow'
    <3>1. CASE dedup \subseteq dedup' /\ UNCHANGED entered
      BY <2>1, <3>1 DEF Lives, Windows, Entered, OnceInWindow
    <3>2. CASE x \in Msg /\ Inserted
      <4>1. PICK w \in wire : w.item = x /\ w.life = boots  BY <1>1, <3>2 DEF Lives
      <4> QED  BY <2>1, <3>2, <4>1, WindowStep
    <3> QED  BY <1>2, <3>1, <3>2
  <2> QED  BY <2>1, <2>2, <2>3 DEF Lives
<1>7. Spaced'  BY <1>1, SpacedStep
<1>8. Owed'
  <2>1. admitted \subseteq Msg /\ UNCHANGED <<mailbox, answered, lost, admitted>>
    BY <1>1 DEF Types, dispatcher
  <2>2. ~Owes(g)  BY <1>1 DEF Owes
  <2> QED  BY <1>1, <1>2, <2>1, <2>2, KeptSame, OwedStep
<1> QED  BY <1>3, <1>4, <1>5, <1>6, <1>7, <1>8

LEMMA EvictInv == ASSUME IInv, NEW g \in Caller, Evict(g) PROVE IInv'
<1> USE DEF IInv
<1>1. /\ pc[g] = "evict" /\ g \in Goroutine /\ g \notin Sender /\ item[g] \in Item
      /\ dedup' = {e \in dedup : e.at + DedupTTL >= now}
      /\ UNCHANGED <<network, lastAlert, tracked, read, dispatcher, history>>
  BY Kinds, SenderType DEF Evict, Holding
<1>2. /\ pc' \in [Goroutine -> Place] /\ item' = item /\ todo' = todo
      /\ Alone(g) /\ pc'[g] = "gate"
  BY <1>1, GotoIs DEF Evict, Place
<1>3. Types'  BY <1>1, <1>2 DEF Types, network, dispatcher, history
<1>4. Holding'  BY <1>1, <1>2, Kinds, HoldingStep
<1>5. Marking'  BY <1>1, <1>2, MarkingStep DEF history
<1>6. Lives'
  <2>1. UNCHANGED <<now, boots, wire, entered>>  BY <1>1 DEF network, history
  <2>2. \A h \in Goroutine : pc'[h] = "dedup" => pc[h] = "dedup" /\ item'[h] = item[h]
    BY <1>2 DEF Alone
  <2>3. ASSUME NEW m \in Msg, NEW i \in DOMAIN entered[m]
        PROVE  Entered(m, entered[m][i])'
    <3> DEFINE e == entered[m][i]
               d == [item |-> m, at |-> e.at]
    <3>1. Entered(m, e)  BY DEF Lives, Windows
    <3>2. e \in [life : Nat, at : Nat]
      <4>1. entered[m] \in Seq([life : Nat, at : Nat])  BY DEF Types
      <4>2. i \in 1..Len(entered[m])  BY <4>1, LenProperties
      <4> QED  BY <4>1, <4>2, ElementOfSeq
    <3>3. d \in dedup => d \in dedup' \/ e.at + DedupTTL < now
      <4>1. d.at = e.at /\ e.at \in Nat /\ now \in Nat  BY <3>2 DEF Types
      <4> QED  BY <1>1, <4>1, BoundType
    <3> QED  BY <2>1, <3>1, <3>3 DEF Entered
  <2>4. OnceInWindow'  BY <2>1 DEF Lives, OnceInWindow
  <2> QED  BY <2>1, <2>2, <2>3, <2>4 DEF Lives, Windows
<1>7. Spaced'  BY <1>1, SpacedStep DEF history
<1>8. Owed'
  <2>1. admitted \subseteq Msg /\ UNCHANGED <<mailbox, answered, lost, admitted>>
    BY <1>1 DEF Types, dispatcher, history
  <2>2. ~Owes(g)  BY <1>1 DEF Owes
  <2> QED  BY <1>1, <1>2, <2>1, <2>2, KeptSame, OwedStep
<1> QED  BY <1>3, <1>4, <1>5, <1>6, <1>7, <1>8

LEMMA GateInv == ASSUME IInv, NEW g \in Caller, Gate(g) PROVE IInv'
<1> USE DEF IInv
<1> DEFINE x == item[g]
<1>1. /\ pc[g] = "gate" /\ g \in Goroutine /\ g \notin Sender /\ x \in Item
      /\ UNCHANGED <<network, memory, dispatcher, entered, cascades, answered, lost>>
  BY Kinds, SenderType DEF Gate, Holding
<1> DEFINE Moved ==
         /\ Alone(g) /\ pc' \in [Goroutine -> Place] /\ item' \in [Goroutine -> Item \cup {NoItem}]
         /\ todo' \in [Goroutine -> Seq(Step)] /\ read' \in [Goroutine -> Nat]
         /\ \/ /\ pc'[g] = "idle" /\ item'[g] = NoItem /\ admitted' = admitted
            \/ /\ x \in Msg /\ item'[g] = x /\ pc'[g] \in {"todo", "prehandle", "cooldown"}
               /\ Owes(g)' /\ admitted' = admitted \cup {x}
<1>2. Moved
  <2>1. CASE Return(g) /\ UNCHANGED <<read, admitted>>
    BY <1>1, <2>1, ReturnIs DEF Types
  <2>2. CASE /\ ~Branded(x) /\ admitted' = admitted \cup ({x} \cap Msg)
             /\ \/ Do(g, <<"mediaAck">>) /\ UNCHANGED read
                \/ Goto(g, "prehandle") /\ UNCHANGED read
                \/ Goto(g, "cooldown") /\ read' = [read EXCEPT ![g] = now]
    <3>1. x \in Msg /\ admitted' = admitted \cup {x}  BY <1>1, <2>2, Kinds DEF Branded
    <3>2. read' \in [Goroutine -> Nat]  BY <2>2 DEF Types
    <3>3. CASE Do(g, <<"mediaAck">>)
      <4>1. "mediaAck" \in Final  BY DEF Final
      <4>2. <<"mediaAck">> \in Seq(Step) /\ Promises(<<"mediaAck">>)  BY <4>1, StepsOne
      <4>3. /\ pc' \in [Goroutine -> Place] /\ item' = item /\ todo' \in [Goroutine -> Seq(Step)]
            /\ Alone(g) /\ pc'[g] = "todo" /\ todo'[g] = <<"mediaAck">>
        BY <1>1, <3>3, <4>2, DoIs
      <4>4. Owes(g)'  BY <4>2, <4>3 DEF Owes, Promises
      <4> QED  BY <3>1, <3>2, <4>3, <4>4 DEF Types
    <3>4. ASSUME NEW to \in {"prehandle", "cooldown"}, Goto(g, to) PROVE Moved
      <4>1. /\ pc' \in [Goroutine -> Place] /\ item' = item /\ todo' = todo
            /\ Alone(g) /\ pc'[g] = to
        BY <1>1, <3>4, GotoIs DEF Place
      <4> QED  BY <3>1, <3>2, <4>1 DEF Types, Owes
    <3>5. \/ Do(g, <<"mediaAck">>) \/ \E to \in {"prehandle", "cooldown"} : Goto(g, to)
      BY <2>2
    <3> QED  BY <3>3, <3>4, <3>5
  <2> QED  BY <2>1, <2>2 DEF Gate
<1>3. Types'
  <2>1. admitted' \subseteq Msg  BY <1>2 DEF Types
  <2> QED  BY <1>1, <1>2, <2>1 DEF Types, network, memory, dispatcher
<1>4. Holding'  BY <1>1, <1>2, Kinds, HoldingStep
<1>5. Marking'  BY <1>1, <1>2, MarkingStep
<1>6. Lives'  BY <1>1, <1>2, LivesStep DEF network, memory
<1>7. Spaced'  BY <1>1, SpacedStep DEF memory
<1>8. Owed'
  <2>1. admitted \subseteq Msg /\ UNCHANGED <<mailbox, answered, lost>>
    BY <1>1 DEF Types, dispatcher
  <2>2. ~Owes(g)  BY <1>1 DEF Owes
  <2> QED  BY <1>1, <1>2, <2>1, <2>2, KeptSame, OwedStep
<1> QED  BY <1>3, <1>4, <1>5, <1>6, <1>7, <1>8

\* A step that keeps the goroutine's message and leaves it owing an end.
LEMMA OwingStep ==
  ASSUME IInv, NEW g \in Goroutine, NEW steps \in Seq(Step), Do(g, steps), Promises(steps),
         pc[g] \notin {"idle", "dedup", "evict", "gate"},
         UNCHANGED <<network, dedup, dispatcher, entered, admitted, answered, lost>>
  PROVE  /\ pc' \in [Goroutine -> Place] /\ item' = item /\ todo' \in [Goroutine -> Seq(Step)]
         /\ Holding' /\ Marking' /\ Lives' /\ Owed'
<1> USE DEF IInv
<1>1. /\ pc' \in [Goroutine -> Place] /\ item' = item /\ todo' \in [Goroutine -> Seq(Step)]
      /\ Alone(g) /\ pc'[g] = "todo" /\ todo'[g] = steps
  BY DoIs
<1>2. item[g] \in Msg /\ item[g] \in Item  BY HasMsg
<1>3. Holding'  BY <1>1, <1>2, Kinds, HoldingStep
<1>4. Marking'  BY <1>1, MarkingStep
<1>5. Lives'  BY <1>1, LivesStep DEF network
<1>6. Owes(g)'  BY <1>1 DEF Owes, Promises
<1>7. Owed'
  <2> DEFINE x == item[g]
  <2>1. admitted \subseteq Msg /\ UNCHANGED <<mailbox, answered, lost, admitted>>
    BY DEF Types, dispatcher
  <2>2. item'[g] = x  BY <1>1
  <2> QED  BY <1>1, <1>6, <2>1, <2>2, KeptSame, OwedStep
<1> QED  BY <1>1, <1>3, <1>4, <1>5, <1>7

LEMMA PrehandleInv == ASSUME IInv, NEW g \in Caller, Prehandle(g) PROVE IInv'
<1>1. PICK steps \in {<<"reply">>, <<"apology">>, <<"ack", "enqueue">>, <<"enqueue">>} :
        Do(g, steps)
  BY DEF Prehandle
<1>2. {"reply", "apology", "enqueue"} \subseteq Final \cup {"enqueue"} /\ "ack" \in Step
  BY DEF Final, Step, OutKind
<1>3. steps \in Seq(Step) /\ Promises(steps)  BY <1>2, StepsOne, StepsTwo
<1>4. /\ g \in Goroutine /\ pc[g] = "prehandle"
      /\ UNCHANGED <<network, memory, read, dispatcher, history>>
  BY Kinds DEF Prehandle
<1>5. /\ pc' \in [Goroutine -> Place] /\ item' = item /\ todo' \in [Goroutine -> Seq(Step)]
      /\ Holding' /\ Marking' /\ Lives' /\ Owed'
  BY <1>1, <1>3, <1>4, OwingStep DEF memory, history
<1>6. Types'  BY <1>4, <1>5 DEF IInv, Types, network, memory, dispatcher, history
<1>7. Spaced'  BY <1>4, SpacedStep DEF IInv, memory, history
<1> QED  BY <1>5, <1>6, <1>7 DEF IInv

LEMMA ReplyInv == ASSUME IInv, NEW s \in Sender, Reply(s) PROVE IInv'
<1>1. \/ Do(s, <<"mediaAck">>)
      \/ \E first \in {<<>>, <<"note">>},
           then \in {<<"reply">>, <<"apology">>, <<"silenced", "apology">>} :
           Do(s, first \o then)
  BY DEF Reply
<1>2. PICK steps \in Seq(Step) : Promises(steps) /\ Do(s, steps)
  <2>1. /\ {"mediaAck", "reply", "apology"} \subseteq Final
        /\ "note" \in Step /\ "silenced" \in Step
    BY DEF Final, Step, OutKind, ToMaster
  <2>2. CASE Do(s, <<"mediaAck">>)  BY <2>1, <2>2, StepsOne
  <2>3. ASSUME NEW first \in {<<>>, <<"note">>},
               NEW then \in {<<"reply">>, <<"apology">>, <<"silenced", "apology">>},
               Do(s, first \o then)
        PROVE  \E steps \in Seq(Step) : Promises(steps) /\ Do(s, steps)
    <3>1. then \in Seq(Step) /\ Promises(then)  BY <2>1, StepsOne, StepsTwo
    <3>2. first \in Seq(Step)
      <4>1. CASE first = <<>>  BY <4>1, EmptySeq
      <4>2. CASE first = <<"note">>  BY <2>1, <4>2
      <4> QED  BY <4>1, <4>2
    <3>3. first \o then \in Seq(Step) /\ Promises(first \o then)  BY <3>1, <3>2, StepsCat
    <3> QED  BY <2>3, <3>3
  <2> QED  BY <1>1, <2>2, <2>3
<1>3. /\ s \in Goroutine /\ pc[s] = "model"
      /\ UNCHANGED <<network, memory, read, dispatcher, history>>
  BY Kinds DEF Reply
<1>4. /\ pc' \in [Goroutine -> Place] /\ item' = item /\ todo' \in [Goroutine -> Seq(Step)]
      /\ Holding' /\ Marking' /\ Lives' /\ Owed'
  BY <1>2, <1>3, OwingStep DEF memory, history
<1>5. Types'  BY <1>3, <1>4 DEF IInv, Types, network, memory, dispatcher, history
<1>6. Spaced'  BY <1>3, SpacedStep DEF IInv, memory, history
<1> QED  BY <1>4, <1>5, <1>6 DEF IInv

\* A cascade is let through only when the last one lies far enough back.
LEMMA SpacedMore ==
  ASSUME Types, Spaced, NEW chat \in Sender, NEW t \in Nat,
         \A e \in lastAlert : e.chat = chat => e.at + Cooldown <= t,
         lastAlert' = {e \in lastAlert : e.chat # chat} \cup {[chat |-> chat, at |-> t]},
         cascades' = [cascades EXCEPT ![chat] = Append(@, t)]
  PROVE  Spaced'
<1> DEFINE c == cascades[chat]
           n == [chat |-> chat, at |-> t]
<1>1. /\ c \in Seq(Nat) /\ Len(c) \in Nat /\ DOMAIN c = 1..Len(c)
      /\ DOMAIN Append(c, t) = 1..(Len(c) + 1) /\ Append(c, t)[Len(c) + 1] = t
      /\ \A i \in DOMAIN c : Append(c, t)[i] = c[i]
  BY AppendOf DEF Types
<1>2. cascades'[chat] = Append(c, t) /\ \A s \in Sender : s # chat => cascades'[s] = cascades[s]
  BY DEF Types
<1>3. \A i \in DOMAIN c : c[i] \in Nat  BY <1>1, ElementOfSeq
<1>4. \A i \in DOMAIN c : c[i] + Cooldown <= t
  <2>1. TAKE i \in DOMAIN c
  <2>2. PICK e \in lastAlert : e.chat = chat /\ c[i] <= e.at  BY DEF Spaced
  <2>3. e.at \in Nat /\ e.at + Cooldown <= t /\ c[i] \in Nat  BY <1>3, <2>2 DEF Types
  <2> QED  BY <2>2, <2>3, BoundType
<1> HIDE DEF c
<1>5. AlertSpacing'
  <2> SUFFICES ASSUME NEW s \in Sender, NEW i \in DOMAIN cascades'[s],
                      NEW j \in DOMAIN cascades'[s], i < j
               PROVE  cascades'[s][i] + Cooldown <= cascades'[s][j]
    BY DEF AlertSpacing
  <2>1. CASE s # chat  BY <1>2, <2>1 DEF Spaced, AlertSpacing
  <2>2. CASE s = chat
    <3>1. i \in DOMAIN c /\ (j \in DOMAIN c \/ j = Len(c) + 1)  BY <1>1, <1>2, <2>2
    <3>2. CASE j \in DOMAIN c
      <4>1. c[i] + Cooldown <= c[j]  BY <3>1, <3>2 DEF Spaced, AlertSpacing, c
      <4> QED  BY <1>1, <1>2, <2>2, <3>1, <3>2, <4>1
    <3>3. CASE j = Len(c) + 1  BY <1>1, <1>2, <1>4, <2>2, <3>1, <3>3
    <3> QED  BY <3>1, <3>2, <3>3
  <2> QED  BY <2>1, <2>2
<1>6. ASSUME NEW s \in Sender, NEW i \in DOMAIN cascades'[s]
      PROVE  \E e \in lastAlert' : e.chat = s /\ cascades'[s][i] <= e.at
  <2>1. CASE s # chat
    <3>1. PICK e \in lastAlert : e.chat = s /\ cascades[s][i] <= e.at
      BY <1>2, <1>6, <2>1 DEF Spaced
    <3> QED  BY <1>2, <2>1, <3>1
  <2>2. CASE s = chat
    <3>1. n \in lastAlert' /\ n.chat = s /\ n.at = t  BY <2>2
    <3>2. i \in DOMAIN c \/ i = Len(c) + 1  BY <1>1, <1>2, <1>6, <2>2
    <3>3. ASSUME i \in DOMAIN c PROVE c[i] <= t
      <4>1. Cooldown \in Nat  BY BoundType
      <4> QED  BY <1>3, <1>4, <3>3, <4>1
    <3>4. cascades'[s][i] <= t  BY <1>1, <1>2, <2>2, <3>2, <3>3
    <3> QED  BY <3>1, <3>4
  <2> QED  BY <2>1, <2>2
<1> QED  BY <1>5, <1>6 DEF Spaced

LEMMA AlertAllowedInv == ASSUME IInv, NEW g \in Caller, AlertAllowed(g) PROVE IInv'
<1> USE DEF IInv
<1>1. /\ g \in Goroutine /\ pc[g] = "cooldown"
      /\ UNCHANGED <<network, dedup, tracked, dispatcher, entered, admitted, answered, lost>>
      /\ read' = [read EXCEPT ![g] = 0]
  BY Kinds DEF AlertAllowed
<1>2. PICK steps \in {<<"cooldown">>, <<"alarm", "alerted">>} : Do(g, steps)
  BY DEF AlertAllowed, Cascade
<1>3. steps \in Seq(Step) /\ Promises(steps)
  <2>1. {"cooldown", "alerted"} \subseteq Final /\ "alarm" \in Step
    BY DEF Final, Step, OutKind, ToMaster
  <2> QED  BY <2>1, StepsOne, StepsTwo
<1>4. /\ pc' \in [Goroutine -> Place] /\ item' = item /\ todo' \in [Goroutine -> Seq(Step)]
      /\ Holding' /\ Marking' /\ Lives' /\ Owed'
  BY <1>1, <1>2, <1>3, OwingStep
<1>5. Owner(item[g]) \in Sender /\ read[g] \in Nat  BY <1>1, HasMsg DEF Types
<1>6. read' \in [Goroutine -> Nat]  BY <1>1 DEF Types
<1>7. CASE UNCHANGED <<lastAlert, cascades>>
  <2>1. Types'  BY <1>1, <1>4, <1>6, <1>7 DEF Types, network, dispatcher
  <2> QED  BY <1>4, <1>7, <2>1, SpacedStep
<1>8. CASE ~Held(g) /\ ~UNCHANGED <<lastAlert, cascades>>
  <2> DEFINE chat == Owner(item[g])
             t == read[g]
  <2>1. /\ lastAlert' = {e \in lastAlert : e.chat # chat} \cup {[chat |-> chat, at |-> t]}
        /\ cascades' = [cascades EXCEPT ![chat] = Append(@, t)]
    BY <1>8 DEF AlertAllowed, Cascade
  <2>2. \A e \in lastAlert : e.chat = chat => e.at + Cooldown <= t
    <3>1. TAKE e \in lastAlert
    <3>2. e.at \in Nat  BY DEF Types
    <3> QED  BY <1>5, <1>8, <3>2, BoundType DEF Held
  <2> HIDE DEF chat, t
  <2>3. chat \in Sender /\ t \in Nat  BY <1>5 DEF chat, t
  <2>4. lastAlert' \subseteq [chat : Sender, at : Nat]  BY <2>1, <2>3 DEF Types
  <2>5. cascades' \in [Sender -> Seq(Nat)]
    <3>1. Append(cascades[chat], t) \in Seq(Nat)  BY <2>3, AppendOf DEF Types
    <3> QED  BY <2>1, <3>1 DEF Types
  <2>6. Types'  BY <1>1, <1>4, <1>6, <2>4, <2>5 DEF Types, network, dispatcher
  <2>7. Spaced'  BY <2>1, <2>2, <2>3, SpacedMore
  <2> QED  BY <1>4, <2>6, <2>7
<1> QED  BY <1>7, <1>8 DEF AlertAllowed

\* A goroutine that has done everything lets go of its message.
LEMMA RestStep ==
  ASSUME IInv, NEW g \in Goroutine, pc[g] = "todo", todo[g] = <<>>, Return(g),
         UNCHANGED <<network, memory, read, mailbox, history>>
  PROVE  IInv'
<1> USE DEF IInv
<1>1. /\ pc' \in [Goroutine -> Place] /\ item' \in [Goroutine -> Item \cup {NoItem}]
      /\ todo' = todo /\ Alone(g) /\ pc'[g] = "idle" /\ item'[g] = NoItem
  BY ReturnIs
<1>2. Types'  BY <1>1 DEF Types, network, memory, history
<1>3. Holding'  BY <1>1, Kinds, HoldingStep
<1>4. Marking'  BY <1>1, MarkingStep DEF history
<1>5. Lives'  BY <1>1, LivesStep DEF network, memory, history
<1>6. Spaced'  BY SpacedStep DEF memory, history
<1>7. Owed'
  <2> DEFINE x == item[g]
  <2>1. admitted \subseteq Msg /\ UNCHANGED <<mailbox, answered, lost, admitted>>
    BY DEF Types, history
  <2>2. ~Owes(g)  BY DEF Owes, Promises
  <2> QED  BY <1>1, <2>1, <2>2, KeptSame, OwedStep
<1> QED  BY <1>2, <1>3, <1>4, <1>5, <1>6, <1>7

LEMMA DoneInv == ASSUME IInv, NEW g \in Goroutine, Handled(g) \/ Processed(g) PROVE IInv'
BY RestStep DEF Handled, Processed, Mailboxes!Finish, dispatcher

LEMMA TransmitInv == ASSUME IInv, NEW g \in Goroutine, Transmit(g) PROVE IInv'
<1> USE DEF IInv
<1> DEFINE kind == Head(todo[g])
           x == item[g]
           n == [item |-> [kind |-> kind, about |-> x], life |-> boots]
<1>1. /\ pc[g] = "todo" /\ todo[g] # <<>> /\ kind # "enqueue"
      /\ answered' = IF kind \in Final THEN answered \cup {x} ELSE answered
      /\ UNCHANGED <<now, boots, memory, item, read, dispatcher, entered, cascades,
                     admitted, lost>>
  BY DEF Transmit
<1>2. x \in Msg /\ kind \in OutKind /\ todo[g] \in Seq(Step)
  <2>1. todo[g] \in Seq(Step) /\ kind \in Step  BY <1>1, TailOf DEF Types
  <2> QED  BY <1>1, <2>1, HasMsg DEF Step
<1>3. /\ n \in [item : Item, life : Nat] /\ n.item \in Out /\ n.life = boots
  BY <1>2, Kinds DEF Out, Types
<1>4. wire' \in {wire, wire \cup {n}}  BY DEF Transmit
<1>5. \/ pc' = pc /\ Advance(g)
      \/ pc' = [pc EXCEPT ![g] = "mark"] /\ todo' = todo
  BY DEF Transmit
<1> HIDE DEF n
<1>6. /\ Alone(g) /\ pc' \in [Goroutine -> Place] /\ item' = item
      /\ todo' \in [Goroutine -> Seq(Step)]
      /\ \/ pc'[g] = "todo" /\ todo'[g] = Tail(todo[g])
         \/ pc'[g] = "mark" /\ todo'[g] = todo[g]
  <2>1. CASE pc' = pc /\ Advance(g)
    BY <1>1, <2>1, AdvanceIs DEF Types, Alone
  <2>2. CASE pc' = [pc EXCEPT ![g] = "mark"] /\ todo' = todo
    BY <1>1, <2>2 DEF Types, Alone, Place
  <2> QED  BY <1>5, <2>1, <2>2
<1>7. Types'
  <2>1. wire' \subseteq [item : Item, life : Nat]  BY <1>3, <1>4 DEF Types
  <2>2. answered' \subseteq Msg  BY <1>1, <1>2 DEF Types
  <2> QED  BY <1>1, <1>6, <2>1, <2>2 DEF Types, memory, dispatcher
<1>8. Holding'  BY <1>2, <1>6, Kinds, HoldingStep
<1>9. Marking'
  <2>1. answered \subseteq answered'  BY <1>1
  <2>2. item'[g] = x  BY <1>6
  <2> QED  BY <1>1, <1>6, <2>1, <2>2, MarkingStep
<1>10. Lives'
  <2>1. wire \subseteq wire' /\ \A w \in wire' \ wire : w.item \in Out /\ w.life = boots
    BY <1>3, <1>4
  <2> QED  BY <1>1, <1>6, <2>1, LivesStep DEF memory
<1>11. Spaced'  BY <1>1, SpacedStep DEF memory
<1>12. Owed'
  <2>1. PICK m \in Msg : m = item[g]  BY <1>2
  <2>2. /\ admitted \subseteq Msg /\ UNCHANGED <<mailbox, lost, admitted>>
        /\ answered \subseteq answered' /\ item'[g] = m
    BY <1>1, <1>6, <2>1 DEF Types, dispatcher
  <2>3. ASSUME Owes(g) PROVE Kept(m)' \/ Owes(g)'
    <3>1. Promises(todo[g])  BY <1>1, <2>3 DEF Owes
    <3>2. CASE kind \in Final
      <4>1. m \in answered'  BY <1>1, <2>1, <3>2
      <4> QED  BY <4>1 DEF Kept
    <3>3. CASE kind \notin Final
      <4>1. Promises(Tail(todo[g]))  BY <1>1, <1>2, <3>1, <3>3, StillPromises
      <4>2. Promises(todo'[g])  BY <1>6, <3>1, <4>1
      <4> QED  BY <1>6, <4>2 DEF Owes, Promises
    <3> QED  BY <3>2, <3>3
  <2> QED  BY <1>6, <2>1, <2>2, <2>3, KeptSame, OwedStep
<1> QED  BY <1>7, <1>8, <1>9, <1>10, <1>11, <1>12

LEMMA MarkInv == ASSUME IInv, NEW g \in Goroutine, Mark(g) PROVE IInv'
<1> USE DEF IInv
<1>1. /\ pc[g] = "mark" /\ pc' = [pc EXCEPT ![g] = "todo"] /\ Advance(g)
      /\ UNCHANGED <<network, dedup, lastAlert, item, read, dispatcher, history>>
  BY DEF Mark
<1>2. /\ todo[g] # <<>> /\ todo[g] \in Seq(Step) /\ Head(todo[g]) # "enqueue"
      /\ Head(todo[g]) \in Final => item[g] \in answered
      /\ item[g] \in Msg
  BY <1>1, HasMsg DEF Marking, Types
<1>3. /\ todo' \in [Goroutine -> Seq(Step)] /\ todo'[g] = Tail(todo[g])
      /\ pc' \in [Goroutine -> Place] /\ pc'[g] = "todo" /\ item' = item /\ Alone(g)
  <2>1. /\ todo' \in [Goroutine -> Seq(Step)] /\ todo'[g] = Tail(todo[g])
        /\ \A h \in Goroutine \ {g} : todo'[h] = todo[h]
    BY <1>1, <1>2, AdvanceIs
  <2> QED  BY <1>1, <2>1 DEF Types, Alone, Place
<1>4. Types'  BY <1>1, <1>3 DEF Types, network, dispatcher, history
<1>5. Holding'  BY <1>2, <1>3, Kinds, HoldingStep
<1>6. Marking'  BY <1>1, <1>3, MarkingStep DEF history
<1>7. Lives'  BY <1>1, <1>3, LivesStep DEF network, history
<1>8. Spaced'  BY <1>1, SpacedStep DEF history
<1>9. Owed'
  <2>1. PICK m \in Msg : m = item[g]  BY <1>2
  <2>2. admitted \subseteq Msg /\ UNCHANGED <<mailbox, answered, lost, admitted>> /\ item'[g] = m
    BY <1>1, <1>3, <2>1 DEF Types, dispatcher, history
  <2>3. ASSUME Owes(g) PROVE Kept(m)' \/ Owes(g)'
    <3>1. Promises(todo[g])  BY <1>1, <2>3 DEF Owes
    <3>2. CASE Head(todo[g]) \in Final  BY <1>2, <2>1, <2>2, <3>2 DEF Kept
    <3>3. CASE Head(todo[g]) \notin Final
      <4>1. Promises(todo'[g])  BY <1>2, <1>3, <3>1, <3>3, StillPromises
      <4> QED  BY <1>3, <4>1 DEF Owes, Promises
    <3> QED  BY <3>2, <3>3
  <2> QED  BY <1>3, <2>1, <2>2, <2>3, KeptSame, OwedStep
<1> QED  BY <1>4, <1>5, <1>6, <1>7, <1>8, <1>9

LEMMA EnqueueInv == ASSUME IInv, NEW g \in Goroutine, Enqueue(g) PROVE IInv'
<1> USE DEF IInv
<1>1. /\ pc[g] = "todo" /\ todo[g] # <<>> /\ Advance(g)
      /\ UNCHANGED <<network, memory, pc, item, read, entered, cascades, admitted, answered>>
  BY DEF Enqueue
<1>2. PICK m \in Msg : m = item[g] /\ m \in Item /\ Owner(m) \in Sender  BY <1>1, HasMsg
<1>3. /\ todo' \in [Goroutine -> Seq(Step)] /\ pc' = pc /\ item' = item /\ Alone(g)
  <2>1. /\ todo' \in [Goroutine -> Seq(Step)]
        /\ \A h \in Goroutine \ {g} : todo'[h] = todo[h]
    BY <1>1, AdvanceIs
  <2> QED  BY <1>1, <2>1 DEF Alone
<1>4. /\ mailbox' \in [Sender -> Seq(Msg)] /\ lost' \subseteq Msg
      /\ \A k \in Msg : Kept(k) => Kept(k)'
      /\ Kept(m)'
  <2>1. CASE Mailboxes!Accept(m) /\ UNCHANGED lost
    <3>1. mailbox' = [mailbox EXCEPT ![Owner(m)] = Append(@, m)]
      BY <1>2, <2>1 DEF Mailboxes!Accept
    <3> DEFINE q == mailbox[Owner(m)]
    <3>2. /\ q \in Seq(Msg) /\ Append(q, m) \in Seq(Msg) /\ Len(q) \in Nat
          /\ DOMAIN q = 1..Len(q) /\ DOMAIN Append(q, m) = 1..(Len(q) + 1)
          /\ \A i \in DOMAIN q : Append(q, m)[i] = q[i]
          /\ Append(q, m)[Len(q) + 1] = m
      BY <1>2, AppendOf DEF Types
    <3>3. /\ mailbox' \in [Sender -> Seq(Msg)] /\ mailbox'[Owner(m)] = Append(q, m)
          /\ \A s \in Sender : s # Owner(m) => mailbox'[s] = mailbox[s]
      BY <1>2, <3>1, <3>2 DEF Types
    <3>4. \A s \in Sender : \A k \in Waiting(s) : k \in Waiting(s)'
      BY <3>2, <3>3 DEF Waiting
    <3>5. m \in Waiting(Owner(m))'
      <4>1. Len(q) + 1 \in DOMAIN mailbox'[Owner(m)] /\ mailbox'[Owner(m)][Len(q) + 1] = m
        BY <3>2, <3>3
      <4>2. \E i \in DOMAIN mailbox'[Owner(m)] : mailbox'[Owner(m)][i] = m  BY <4>1
      <4>3. PICK s \in Sender : s = Owner(m)  BY <1>2
      <4>4. m \in Waiting(s)'  BY <4>2, <4>3 DEF Waiting
      <4> QED  BY <4>3, <4>4 DEF Waiting, Owner
    <3> QED  BY <1>1, <1>2, <2>1, <3>3, <3>4, <3>5 DEF Kept, Types
  <2>2. CASE lost' = lost \cup {m} /\ UNCHANGED dispatcher
    BY <1>1, <1>2, <2>2, KeptSame DEF Kept, Types, dispatcher
  <2> QED  BY <1>2, <2>1, <2>2 DEF Enqueue
<1>5. Types'  BY <1>1, <1>3, <1>4 DEF Types, network, memory
<1>6. Holding'  BY <1>3 DEF Holding
<1>7. Marking'
  <2>1. answered \subseteq answered' /\ pc'[g] # "mark"  BY <1>1
  <2> QED  BY <1>3, <2>1, MarkingStep
<1>8. Lives'  BY <1>1, <1>3, LivesStep DEF network, memory
<1>9. Spaced'  BY <1>1, SpacedStep DEF memory
<1>10. Owed'
  <2>1. admitted \subseteq Msg /\ admitted' = admitted  BY <1>1 DEF Types
  <2> QED  BY <1>2, <1>3, <1>4, <2>1, OwedStep
<1> QED  BY <1>5, <1>6, <1>7, <1>8, <1>9, <1>10

LEMMA ReceiveInv == ASSUME IInv, NEW s \in Sender, Receive(s) PROVE IInv'
<1> USE DEF IInv
<1> DEFINE q == mailbox[s]
<1>1. /\ pc[s] = "idle" /\ pc' = [pc EXCEPT ![s] = "model"]
      /\ item' = [item EXCEPT ![s] = Head(q)]
      /\ q # <<>> /\ mailbox' = [mailbox EXCEPT ![s] = Tail(q)]
      /\ UNCHANGED <<network, memory, read, todo, history>>
  BY DEF Receive, Mailboxes!Begin
<1>2. /\ s \in Goroutine /\ Head(q) \in Msg /\ Tail(q) \in Seq(Msg)
      /\ \A i \in DOMAIN q : q[i] = Head(q) \/ \E j \in DOMAIN Tail(q) : Tail(q)[j] = q[i]
  BY <1>1, Kinds, TailOf DEF Types
<1> HIDE DEF q
<1>3. /\ pc' \in [Goroutine -> Place] /\ item' \in [Goroutine -> Item \cup {NoItem}]
      /\ Alone(s) /\ pc'[s] = "model" /\ item'[s] = Head(q)
  BY <1>1, <1>2, Kinds DEF Types, Alone, Place
<1>4. /\ mailbox' \in [Sender -> Seq(Msg)] /\ mailbox'[s] = Tail(q)
      /\ \A r \in Sender : r # s => mailbox'[r] = mailbox[r]
  BY <1>1, <1>2 DEF Types
<1>5. Types'  BY <1>1, <1>3, <1>4 DEF Types, network, memory, history
<1>6. Holding'  BY <1>2, <1>3, Kinds, HoldingStep
<1>7. Marking'  BY <1>1, <1>2, <1>3, MarkingStep DEF history
<1>8. Lives'  BY <1>1, <1>2, <1>3, LivesStep DEF network, memory, history
<1>9. Spaced'  BY <1>1, SpacedStep DEF memory, history
<1>10. ASSUME NEW m \in admitted
       PROVE  \/ m \in answered \cup lost \/ \E r \in Sender : m \in Waiting(r)'
              \/ \E g \in Goroutine : item'[g] = m /\ Owes(g)'
  <2>1. CASE \E r \in Sender : m \in Waiting(r)
    <3>1. PICK r \in Sender : \E i \in DOMAIN mailbox[r] : mailbox[r][i] = m
      BY <2>1 DEF Waiting
    <3>2. CASE r # s  BY <1>4, <3>1, <3>2 DEF Waiting
    <3>3. CASE r = s
      <4>1. m = Head(q) \/ \E j \in DOMAIN Tail(q) : Tail(q)[j] = m
        BY <1>2, <3>1, <3>3 DEF q
      <4>2. CASE m = Head(q)  BY <1>2, <1>3, <4>2 DEF Owes
      <4>3. CASE \E j \in DOMAIN Tail(q) : Tail(q)[j] = m  BY <1>4, <4>3 DEF Waiting
      <4> QED  BY <4>1, <4>2, <4>3
    <3> QED  BY <3>2, <3>3
  <2>2. CASE \E g \in Goroutine : item[g] = m /\ Owes(g)
    <3>1. PICK g \in Goroutine : item[g] = m /\ Owes(g)  BY <2>2
    <3>2. g # s  BY <1>1, <3>1 DEF Owes
    <3> QED  BY <1>3, <3>1, <3>2 DEF Alone, Owes, Promises
  <2> QED  BY <1>10, <2>1, <2>2 DEF Owed
<1>11. Owed'  BY <1>1, <1>10 DEF Owed, history
<1> QED  BY <1>5, <1>6, <1>7, <1>8, <1>9, <1>11

LEMMA InvStep == IInv /\ [Next]_vars => IInv'
<1> SUFFICES ASSUME IInv, [Next]_vars PROVE IInv'  OBVIOUS
<1>1. CASE \E g \in Caller : OnEvent(g) \/ Handle(g)
  BY <1>1, Kinds, OnEventInv, DedupInv, EvictInv, GateInv, AlertAllowedInv, PrehandleInv, DoneInv DEF Handle
<1>2. CASE \E g \in Goroutine : Sending(g)
  BY <1>2, TransmitInv, MarkInv, EnqueueInv DEF Sending
<1>3. CASE \E s \in Sender : Work(s)
  BY <1>3, Kinds, ReceiveInv, ReplyInv, DoneInv DEF Work
<1>4. CASE UNCHANGED vars
  BY <1>4 DEF IInv, Types, Holding, Marking, Lives, Windows, Entered, OnceInWindow, Spaced, AlertSpacing, Owed, Owes, Promises,
              Waiting, vars, network, memory, control, dispatcher, history
<1> QED  BY <1>1, <1>2, <1>3, <1>4, WriteInv, TickInv, RestartInv DEF Next

-----------------------------------------------------------------------------
(* the theorems *)

\* The inductive invariant holds in every reachable state.
THEOREM Invariance == Spec => []IInv
<1>1. Init => IInv  BY InitInv
<1>2. IInv /\ [Next]_vars => IInv'  BY InvStep
<1> QED  BY <1>1, <1>2, PTL DEF Spec

\* However often a message is delivered, concurrently or over any number of
\* restarts, it gets past the dedup in one life only, and there never twice
\* within dedupTTL, although entries are evicted all the while.
THEOREM EnteredOnce == Spec => []OnceInWindow
<1>1. IInv => OnceInWindow  BY DEF IInv, Lives
<1> QED  BY <1>1, Invariance, PTL

\* Clark's own words stop at the prefix check whatever the tracker remembers,
\* and never reach a command, an alert, a queue or a worker.
THEOREM OwnWordsIgnored == Spec => []EchoesIgnored
<1>1. IInv => EchoesIgnored
  <2> SUFFICES ASSUME IInv PROVE EchoesIgnored  OBVIOUS
  <2>1. \A g \in Caller : item[g] \in Out => pc[g] \in {"dedup", "evict", "gate"}
    BY Kinds DEF IInv, Holding
  <2>2. ASSUME NEW s \in Sender PROVE item[s] \notin Out /\ Waiting(s) \subseteq Msg
    <3>1. item[s] \notin Out  BY Kinds DEF IInv, Holding
    <3>2. mailbox[s] \in Seq(Msg)  BY DEF IInv, Types
    <3>3. ASSUME NEW i \in DOMAIN mailbox[s] PROVE mailbox[s][i] \in Msg
      <4>1. i \in 1..Len(mailbox[s])  BY <3>2, LenProperties
      <4> QED  BY <3>2, <4>1, ElementOfSeq
    <3> QED  BY <3>1, <3>3 DEF Waiting
  <2> QED  BY <2>1, <2>2 DEF EchoesIgnored
<1> QED  BY <1>1, Invariance, PTL

\* Two cascades of one chat are a cooldown apart by the clocks they read, in
\* whatever order concurrent calls took the lock.
THEOREM CascadesSpaced == Spec => []AlertSpacing
<1>1. IInv => AlertSpacing  BY DEF IInv, Spaced
<1> QED  BY <1>1, Invariance, PTL

\* A message that got past the gate is in somebody's hands or in a queue until
\* its sender was sent a final word, the queue refused it or the process ended.
THEOREM NobodyForgotten == Spec => []NobodyGhosted
<1>1. IInv => NobodyGhosted
  <2> SUFFICES ASSUME IInv, NEW m \in admitted
               PROVE  m \in answered \cup lost \cup {item[g] : g \in Goroutine}
                              \cup UNION {Waiting(s) : s \in Sender}
    BY DEF NobodyGhosted
  <2> QED  BY DEF IInv, Owed
<1> QED  BY <1>1, Invariance, PTL

=============================================================================
