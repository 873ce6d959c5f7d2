---------------------------- MODULE ServiceProofs ---------------------------
(***************************************************************************)
(* Proofs about how the people who write are served. Dispatcher: the       *)
(* worker discipline is an inductive invariant, from which follow the      *)
(* ordering, single-worker and drain properties and the refinement of      *)
(* OrderedReplies, for any sets of senders, messages and channels and any  *)
(* capacity. Circle: what a change still owes to the service's memory and  *)
(* to the away window at every step of every call is an inductive          *)
(* invariant; changes go live and the away window is paired, for any       *)
(* people, callers and tools and any number of calls and starts.           *)
(***************************************************************************)
EXTENDS Dispatcher, Circle, SequenceTheorems, TLAPS

-----------------------------------------------------------------------------
(* The inductive invariant, as named parts *)

\* The registered channel of s was made for s and has been given a worker; if
\* that worker has returned, it returned through close, on a drained channel.
Registered ==
  \A s \in Sender : queues[s] # NoChan =>
    /\ owner[queues[s]] = s
    /\ pc[queues[s]] # "unused"
    /\ pc[queues[s]] = "done" => /\ queues[s] \in chClosed
                                 /\ buf[queues[s]] = <<>>

\* A running worker serves the channel registered for its sender.
LiveRegistered ==
  \A c \in Live : owner[c] \in Sender /\ queues[owner[c]] = c

\* A channel that was not made yet holds nothing.
UnusedEmpty == \A c \in Chan : pc[c] = "unused" => buf[c] = <<>>

\* A worker holds a message exactly while it is inside process.
HoldsWhileBusy == \A c \in Chan : current[c] # NoMsg <=> pc[c] \in Busy

\* The flags, the closed channels and the workers agree.
Closing ==
  /\ chClosed # {} => closed
  /\ closed => \A s \in Sender : queues[s] # NoChan => queues[s] \in chClosed
  /\ cancelled => closed /\ Live = {}

IInv ==
  /\ TypeOK
  /\ Registered
  /\ LiveRegistered
  /\ UnusedEmpty
  /\ HoldsWhileBusy
  /\ Closing
  /\ NothingLostOrReordered

-----------------------------------------------------------------------------
(* Sequences *)

\* Appending to the right operand of a concatenation appends to the whole.
LEMMA AppendAtEnd ==
  ASSUME NEW a \in Seq(Msg), NEW b \in Seq(Msg), NEW m \in Msg
  PROVE  Append(a \o b, m) = a \o Append(b, m)
<1>1. /\ Append(a \o b, m) = (a \o b) \o <<m>>
      /\ Append(b, m) = b \o <<m>>
  BY ConcatProperties, AppendIsConcat
<1>2. <<m>> \in Seq(Msg)
  OBVIOUS
<1> QED
  BY <1>1, <1>2, ConcatAssociative

\* Taking the head of the waiting part in hand leaves the whole as it was.
LEMMA TakeHead ==
  ASSUME NEW S, NEW a \in Seq(S), NEW w \in Seq(S), w # <<>>
  PROVE  (a \o <<>>) \o w = (a \o <<Head(w)>>) \o Tail(w)
<1>1. /\ Head(w) \in S
      /\ Tail(w) \in Seq(S)
      /\ <<Head(w)>> \in Seq(S)
      /\ <<Head(w)>> \o Tail(w) = w
  BY HeadTailProperties, ConcatProperties
<1>2. a \o <<>> = a
  BY ConcatEmptySeq
<1>3. (a \o <<Head(w)>>) \o Tail(w) = a \o (<<Head(w)>> \o Tail(w))
  BY <1>1, ConcatAssociative
<1> QED
  BY <1>1, <1>2, <1>3

\* Moving what is in hand to the finished part leaves the whole as it was.
LEMMA PutDown ==
  ASSUME NEW S, NEW a \in Seq(S), NEW m \in S
  PROVE  Append(a, m) \o <<>> = a \o <<m>>
BY ConcatEmptySeq, AppendIsConcat, AppendProperties

-----------------------------------------------------------------------------
(* Facts about one state *)

USE DEF WorkerPC, Busy

LEMMA WaitingTypes ==
  ASSUME TypeOK, NEW s \in Sender
  PROVE  /\ Waiting(s) \in Seq(Msg)
         /\ InHandSeq(s) \in Seq(Msg)
         /\ InHand(s) \in Msg \cup {NoMsg}
BY NoMsgIsNew, NoChanIsNew DEF TypeOK, Waiting, InHandSeq, InHand

\* What the invariant says of the sender of a live worker.
LEMMA LiveFacts ==
  ASSUME IInv, NEW c \in Live
  PROVE  /\ c \in Chan
         /\ owner[c] \in Sender
         /\ queues[owner[c]] = c
         /\ Waiting(owner[c]) = buf[c]
         /\ InHand(owner[c]) = current[c]
         /\ ~cancelled
BY NoChanIsNew DEF IInv, LiveRegistered, Live, Waiting, InHand, Closing

LEMMA InitIInv == Init => IInv
<1> SUFFICES ASSUME Init PROVE IInv
  OBVIOUS
<1>1. TypeOK
  BY EmptySeq DEF Init, TypeOK
<1>2. Registered /\ LiveRegistered /\ UnusedEmpty /\ HoldsWhileBusy /\ Closing
  BY DEF Init, Registered, LiveRegistered, Live, UnusedEmpty, HoldsWhileBusy, Closing
<1>3. NothingLostOrReordered
  <2> SUFFICES ASSUME NEW s \in Sender
               PROVE  accepted[s] = (finished[s] \o InHandSeq(s)) \o Waiting(s)
    BY DEF NothingLostOrReordered
  <2>1. /\ accepted[s] = <<>>
        /\ finished[s] = <<>>
        /\ InHandSeq(s) = <<>>
        /\ Waiting(s) = <<>>
    BY DEF Init, InHandSeq, InHand, Waiting
  <2> QED
    BY <2>1, ConcatEmptySeq, EmptySeq
<1> QED
  BY <1>1, <1>2, <1>3 DEF IInv

-----------------------------------------------------------------------------
(* enqueue preserves the invariant *)

LEMMA TurnedAwayInv ==
  ASSUME IInv, NEW m \in Msg, Refuse(m) \/ Drop(m)
  PROVE  IInv'
<1>1. /\ UNCHANGED <<chanVars, workVars, ctrlVars, accepted, finished, outbox, alerts>>
      /\ lost' = lost \cup {m}
  BY DEF Refuse, Drop
<1> QED
  BY <1>1 DEF IInv, TypeOK, Registered, LiveRegistered, Live, UnusedEmpty,
    HoldsWhileBusy, Closing, NothingLostOrReordered, InHandSeq, InHand, Waiting,
    chanVars, workVars, ctrlVars

LEMMA EnqueueNewInv ==
  ASSUME IInv, NEW m \in Msg, EnqueueNew(m)
  PROVE  IInv'
<1> DEFINE s0 == From[m]
<1>1. s0 \in Sender
  BY FromType
<1>2. PICK c \in Chan :
        /\ pc[c] = "unused"
        /\ queues' = [queues EXCEPT ![s0] = c]
        /\ owner' = [owner EXCEPT ![c] = s0]
        /\ pc' = [pc EXCEPT ![c] = "select"]
        /\ buf' = [buf EXCEPT ![c] = Append(@, m)]
  BY DEF EnqueueNew
<1>3. /\ ~closed
      /\ queues[s0] = NoChan
      /\ accepted' = [accepted EXCEPT ![s0] = Append(@, m)]
      /\ UNCHANGED <<chClosed, current, closed, cancelled, lost, finished, outbox, alerts>>
  BY DEF EnqueueNew, ctrlVars
<1>4. buf[c] = <<>> /\ current[c] = NoMsg
  BY <1>2 DEF IInv, UnusedEmpty, HoldsWhileBusy
<1>5. \A s \in Sender : queues[s] # c
  BY <1>2, NoChanIsNew DEF IInv, Registered
<1>6. TypeOK'
  BY <1>1, <1>2, <1>3, AppendProperties DEF IInv, TypeOK
<1>7. Registered'
  BY <1>1, <1>2, <1>3, <1>5 DEF IInv, TypeOK, Registered
<1>8. LiveRegistered'
  <2> SUFFICES ASSUME NEW d \in Live'
               PROVE  owner'[d] \in Sender /\ queues'[owner'[d]] = d
    BY DEF LiveRegistered
  <2>1. CASE d = c
    BY <1>1, <1>2, <2>1 DEF IInv, TypeOK
  <2>2. CASE d # c
    <3>1. d \in Live /\ owner'[d] = owner[d]
      BY <1>2, <2>2 DEF Live, IInv, TypeOK
    <3>2. d \in Chan /\ owner[d] \in Sender /\ queues[owner[d]] = d
      BY <3>1, LiveFacts
    <3>3. owner[d] # s0
      BY <1>3, <3>2, NoChanIsNew
    <3> QED
      BY <1>1, <1>2, <3>1, <3>2, <3>3 DEF IInv, TypeOK
  <2> QED
    BY <2>1, <2>2
<1>9. UnusedEmpty' /\ HoldsWhileBusy'
  BY <1>2, <1>3, <1>4 DEF IInv, TypeOK, UnusedEmpty, HoldsWhileBusy
<1>10. Closing'
  BY <1>2, <1>3 DEF IInv, Closing
<1>11. NothingLostOrReordered'
  <2> SUFFICES ASSUME NEW s \in Sender
               PROVE  accepted'[s] = (finished'[s] \o InHandSeq(s)') \o Waiting(s)'
    BY DEF NothingLostOrReordered
  <2>1. CASE s = s0
    <3>1. /\ Waiting(s) = <<>>
          /\ InHandSeq(s) = <<>>
          /\ accepted[s] \in Seq(Msg)
          /\ finished[s] \in Seq(Msg)
      BY <1>3, <2>1 DEF Waiting, InHandSeq, InHand, IInv, TypeOK
    <3>2. /\ queues'[s] = c
          /\ InHandSeq(s)' = <<>>
          /\ Waiting(s)' = Append(<<>>, m)
          /\ accepted'[s] = Append(accepted[s], m)
          /\ finished'[s] = finished[s]
      BY <1>1, <1>2, <1>3, <1>4, <2>1, NoChanIsNew
        DEF Waiting, InHandSeq, InHand, IInv, TypeOK
    <3>3. accepted[s] = (finished[s] \o <<>>) \o <<>>
      BY <3>1 DEF IInv, NothingLostOrReordered
    <3>4. finished[s] \o <<>> \in Seq(Msg) /\ <<>> \in Seq(Msg)
      BY <3>1, ConcatEmptySeq
    <3> QED
      BY <3>2, <3>3, <3>4, AppendAtEnd
  <2>2. CASE s # s0
    <3>1. /\ queues'[s] = queues[s]
          /\ accepted'[s] = accepted[s]
          /\ finished'[s] = finished[s]
          /\ queues[s] # NoChan => buf'[queues[s]] = buf[queues[s]]
      BY <1>1, <1>2, <1>3, <1>5, <2>2 DEF IInv, TypeOK
    <3>2. InHandSeq(s)' = InHandSeq(s) /\ Waiting(s)' = Waiting(s)
      BY <3>1, <1>3 DEF InHandSeq, InHand, Waiting
    <3> QED
      BY <3>1, <3>2 DEF IInv, NothingLostOrReordered
  <2> QED
    BY <2>1, <2>2
<1> QED
  BY <1>6, <1>7, <1>8, <1>9, <1>10, <1>11 DEF IInv

LEMMA EnqueueExistingInv ==
  ASSUME IInv, NEW m \in Msg, EnqueueExisting(m)
  PROVE  IInv'
<1> DEFINE s0 == From[m]
<1> DEFINE c == queues[s0]
<1>1. s0 \in Sender
  BY FromType
<1>2. /\ ~closed
      /\ c # NoChan
      /\ buf' = [buf EXCEPT ![c] = Append(@, m)]
      /\ accepted' = [accepted EXCEPT ![s0] = Append(@, m)]
      /\ UNCHANGED <<queues, chClosed, owner, pc, current, closed, cancelled, lost,
                     finished, outbox, alerts>>
  BY DEF EnqueueExisting, workVars, ctrlVars
<1>3. c \in Chan /\ owner[c] = s0 /\ pc[c] # "unused" /\ pc[c] # "done"
  BY <1>1, <1>2 DEF IInv, TypeOK, Registered, Closing
<1>4. TypeOK'
  BY <1>1, <1>2, <1>3, AppendProperties DEF IInv, TypeOK
<1>5. Registered'
  BY <1>2, <1>3 DEF IInv, TypeOK, Registered
<1>6. LiveRegistered' /\ HoldsWhileBusy' /\ Closing'
  BY <1>2 DEF IInv, LiveRegistered, Live, HoldsWhileBusy, Closing
<1>7. UnusedEmpty'
  BY <1>2, <1>3 DEF IInv, TypeOK, UnusedEmpty
<1>8. NothingLostOrReordered'
  <2> SUFFICES ASSUME NEW s \in Sender
               PROVE  accepted'[s] = (finished'[s] \o InHandSeq(s)') \o Waiting(s)'
    BY DEF NothingLostOrReordered
  <2>0. InHandSeq(s)' = InHandSeq(s) /\ finished'[s] = finished[s]
    BY <1>2 DEF InHandSeq, InHand
  <2>1. CASE s = s0
    <3>1. /\ Waiting(s)' = Append(Waiting(s), m)
          /\ accepted'[s] = Append(accepted[s], m)
      BY <1>1, <1>2, <1>3, <2>1 DEF Waiting, IInv, TypeOK
    <3>2. /\ finished[s] \o InHandSeq(s) \in Seq(Msg)
          /\ Waiting(s) \in Seq(Msg)
      BY WaitingTypes, ConcatProperties DEF IInv, TypeOK
    <3>3. accepted[s] = (finished[s] \o InHandSeq(s)) \o Waiting(s)
      BY DEF IInv, NothingLostOrReordered
    <3>4. \A a, b \in Seq(Msg) : Append(a \o b, m) = a \o Append(b, m)
      BY AppendAtEnd
    <3> QED
      BY <2>0, <3>1, <3>2, <3>3, <3>4
  <2>2. CASE s # s0
    <3>1. queues[s] # NoChan => queues[s] # c
      BY <1>3, <2>2 DEF IInv, Registered
    <3>2. Waiting(s)' = Waiting(s) /\ accepted'[s] = accepted[s]
      BY <1>1, <1>2, <1>3, <2>2, <3>1 DEF Waiting, IInv, TypeOK
    <3> QED
      BY <2>0, <3>2 DEF IInv, NothingLostOrReordered
  <2> QED
    BY <2>1, <2>2
<1> QED
  BY <1>4, <1>5, <1>6, <1>7, <1>8 DEF IInv

-----------------------------------------------------------------------------
(* the worker's own steps preserve the invariant *)

LEMMA ReceiveInv ==
  ASSUME IInv, NEW c \in Chan, Receive(c)
  PROVE  IInv'
<1> DEFINE m == Head(buf[c])
<1> DEFINE s0 == owner[c]
<1>1. /\ pc[c] = "select"
      /\ buf[c] # <<>>
      /\ buf' = [buf EXCEPT ![c] = Tail(@)]
      /\ current' = [current EXCEPT ![c] = m]
      /\ UNCHANGED <<queues, chClosed, owner, closed, cancelled, accepted, lost,
                     finished, outbox, alerts>>
  BY DEF Receive, ctrlVars, histVars
<1>2. PICK to \in {"media", "model"} : pc' = [pc EXCEPT ![c] = to]
  BY DEF Receive
<1>3. c \in Live
  BY <1>1 DEF Live
<1>4. /\ s0 \in Sender
      /\ queues[s0] = c
      /\ Waiting(s0) = buf[c]
      /\ InHand(s0) = current[c]
      /\ ~cancelled
  BY <1>3, LiveFacts
<1>5. m \in Msg /\ Tail(buf[c]) \in Seq(Msg) /\ buf[c] \in Seq(Msg)
  BY <1>1, HeadTailProperties DEF IInv, TypeOK
<1>6. current[c] = NoMsg
  BY <1>1 DEF IInv, HoldsWhileBusy
<1>7. TypeOK'
  BY <1>1, <1>2, <1>5 DEF IInv, TypeOK
<1>8. Registered'
  BY <1>1, <1>2 DEF IInv, TypeOK, Registered
<1>9. LiveRegistered' /\ UnusedEmpty'
  BY <1>1, <1>2, <1>3 DEF IInv, TypeOK, LiveRegistered, Live, UnusedEmpty
<1>10. HoldsWhileBusy'
  BY <1>1, <1>2, <1>5, NoMsgIsNew DEF IInv, TypeOK, HoldsWhileBusy
<1>11. Closing'
  BY <1>1, <1>4 DEF IInv, Closing
<1>12. NothingLostOrReordered'
  <2> SUFFICES ASSUME NEW s \in Sender
               PROVE  accepted'[s] = (finished'[s] \o InHandSeq(s)') \o Waiting(s)'
    BY DEF NothingLostOrReordered
  <2>1. accepted'[s] = accepted[s] /\ finished'[s] = finished[s]
    BY <1>1
  <2>2. CASE s = s0
    <3>1. InHandSeq(s) = <<>> /\ Waiting(s) = buf[c]
      BY <1>4, <1>6, <2>2 DEF InHandSeq
    <3>2. InHandSeq(s)' = <<m>> /\ Waiting(s)' = Tail(buf[c])
      BY <1>1, <1>4, <1>5, <2>2, NoMsgIsNew, NoChanIsNew
        DEF InHandSeq, InHand, Waiting, IInv, TypeOK
    <3>3. (finished[s] \o <<>>) \o buf[c] = (finished[s] \o <<m>>) \o Tail(buf[c])
      BY <1>1, <1>5, TakeHead DEF IInv, TypeOK
    <3> QED
      BY <2>1, <3>1, <3>2, <3>3 DEF IInv, NothingLostOrReordered
  <2>3. CASE s # s0
    <3>1. queues[s] # c
      BY <1>4, <2>3, NoChanIsNew DEF IInv, Registered
    <3>2. InHandSeq(s)' = InHandSeq(s) /\ Waiting(s)' = Waiting(s)
      BY <1>1, <3>1 DEF InHandSeq, InHand, Waiting, IInv, TypeOK
    <3> QED
      BY <2>1, <3>2 DEF IInv, NothingLostOrReordered
  <2> QED
    BY <2>2, <2>3
<1> QED
  BY <1>7, <1>8, <1>9, <1>10, <1>11, <1>12 DEF IInv

\* Steps that only move a worker between its selecting, retiring and returned
\* states while it stays registered.
LEMMA MoveInv ==
  ASSUME IInv, NEW c \in Chan, NEW to \in WorkerPC \ (Busy \cup {"unused"}),
         pc[c] \in {"select", "retiring"},
         to = "done" => c \in chClosed /\ buf[c] = <<>>,
         pc' = [pc EXCEPT ![c] = to],
         UNCHANGED <<chanVars, current, ctrlVars, histVars>>
  PROVE  IInv'
<1>1. UNCHANGED <<queues, buf, chClosed, owner, current, closed, cancelled,
                  accepted, lost, finished, outbox, alerts>>
  BY DEF chanVars, ctrlVars, histVars
<1>2. c \in Live
  BY DEF Live
<1>3. TypeOK'
  BY <1>1 DEF IInv, TypeOK
<1>4. Registered'
  BY <1>1 DEF IInv, TypeOK, Registered
<1>5. LiveRegistered' /\ UnusedEmpty' /\ HoldsWhileBusy'
  BY <1>1, <1>2 DEF IInv, TypeOK, LiveRegistered, Live, UnusedEmpty, HoldsWhileBusy
<1>6. Closing'
  BY <1>1, <1>2, LiveFacts DEF IInv, Closing
<1>7. NothingLostOrReordered'
  BY <1>1 DEF IInv, NothingLostOrReordered, InHandSeq, InHand, Waiting
<1> QED
  BY <1>3, <1>4, <1>5, <1>6, <1>7 DEF IInv

LEMMA RetireInv ==
  ASSUME IInv, NEW c \in Chan, Retire(c)
  PROVE  IInv'
<1> DEFINE s0 == owner[c]
<1>1. /\ pc[c] = "retiring"
      /\ buf[c] = <<>>
      /\ ~closed
      /\ queues' = [queues EXCEPT ![s0] = NoChan]
      /\ pc' = [pc EXCEPT ![c] = "done"]
      /\ UNCHANGED <<buf, chClosed, owner, current, closed, cancelled, accepted,
                     lost, finished, outbox, alerts>>
  BY DEF Retire, MayRetire, ctrlVars, histVars
<1>2. c \in Live
  BY <1>1 DEF Live
<1>3. /\ s0 \in Sender
      /\ queues[s0] = c
      /\ Waiting(s0) = buf[c]
      /\ InHand(s0) = current[c]
  BY <1>2, LiveFacts
<1>4. current[c] = NoMsg
  BY <1>1 DEF IInv, HoldsWhileBusy
<1>5. \A s \in Sender : s # s0 => queues'[s] = queues[s] /\ queues[s] # c
  BY <1>1, <1>3, NoChanIsNew DEF IInv, TypeOK, Registered
<1>6. TypeOK'
  BY <1>1, <1>3 DEF IInv, TypeOK
<1>7. Registered'
  BY <1>1, <1>3, <1>5 DEF IInv, TypeOK, Registered
<1>8. LiveRegistered'
  <2> SUFFICES ASSUME NEW d \in Live'
               PROVE  owner'[d] \in Sender /\ queues'[owner'[d]] = d
    BY DEF LiveRegistered
  <2>1. d \in Live /\ d # c
    BY <1>1 DEF Live, IInv, TypeOK
  <2>2. owner[d] \in Sender /\ queues[owner[d]] = d
    BY <2>1, LiveFacts
  <2> QED
    BY <1>1, <1>3, <1>5, <2>1, <2>2
<1>9. UnusedEmpty' /\ HoldsWhileBusy'
  BY <1>1, <1>4 DEF IInv, TypeOK, UnusedEmpty, HoldsWhileBusy
<1>10. Closing'
  BY <1>1 DEF IInv, Closing
<1>11. NothingLostOrReordered'
  <2> SUFFICES ASSUME NEW s \in Sender
               PROVE  accepted'[s] = (finished'[s] \o InHandSeq(s)') \o Waiting(s)'
    BY DEF NothingLostOrReordered
  <2>1. InHandSeq(s)' = InHandSeq(s) /\ Waiting(s)' = Waiting(s)
    <3>1. CASE s = s0
      BY <1>1, <1>3, <1>4, <3>1 DEF InHandSeq, InHand, Waiting, IInv, TypeOK
    <3>2. CASE s # s0
      BY <1>1, <1>5, <3>2 DEF InHandSeq, InHand, Waiting
    <3> QED
      BY <3>1, <3>2
  <2> QED
    BY <1>1, <2>1 DEF IInv, NothingLostOrReordered
<1> QED
  BY <1>6, <1>7, <1>8, <1>9, <1>10, <1>11 DEF IInv

-----------------------------------------------------------------------------
(* process preserves the invariant *)

\* A step inside process that keeps the message in hand.
LEMMA GotoInv ==
  ASSUME IInv, NEW c \in Chan, pc[c] \in Busy, NEW to \in Busy, Goto(c, to),
         outbox' \in [Sender -> Seq([msg : Msg, kind : {"note", "ack", "apology", "reply"}])],
         alerts' \subseteq Msg
  PROVE  IInv'
<1>1. /\ pc' = [pc EXCEPT ![c] = to]
      /\ UNCHANGED <<queues, buf, chClosed, owner, current, closed, cancelled,
                     accepted, lost, finished>>
  BY DEF Goto, chanVars, ctrlVars
<1>2. c \in Live
  BY DEF Live
<1>3. TypeOK'
  BY <1>1 DEF IInv, TypeOK
<1>4. Registered'
  BY <1>1 DEF IInv, TypeOK, Registered
<1>5. LiveRegistered' /\ UnusedEmpty' /\ HoldsWhileBusy'
  BY <1>1, <1>2 DEF IInv, TypeOK, LiveRegistered, Live, UnusedEmpty, HoldsWhileBusy
<1>6. Closing'
  BY <1>1, <1>2, LiveFacts DEF IInv, Closing
<1>7. NothingLostOrReordered'
  BY <1>1 DEF IInv, NothingLostOrReordered, InHandSeq, InHand, Waiting
<1> QED
  BY <1>3, <1>4, <1>5, <1>6, <1>7 DEF IInv

\* The last step of process.
LEMMA DoneInv ==
  ASSUME IInv, NEW c \in Chan, pc[c] \in Busy, Done(c),
         outbox' \in [Sender -> Seq([msg : Msg, kind : {"note", "ack", "apology", "reply"}])],
         alerts' \subseteq Msg
  PROVE  IInv'
<1> DEFINE s0 == owner[c]
<1>1. /\ finished' = [finished EXCEPT ![s0] = Append(@, current[c])]
      /\ current' = [current EXCEPT ![c] = NoMsg]
      /\ pc' = [pc EXCEPT ![c] = "select"]
      /\ UNCHANGED <<queues, buf, chClosed, owner, closed, cancelled, accepted, lost>>
  BY DEF Done, chanVars, ctrlVars
<1>2. c \in Live
  BY DEF Live
<1>3. /\ s0 \in Sender
      /\ queues[s0] = c
      /\ Waiting(s0) = buf[c]
      /\ InHand(s0) = current[c]
      /\ ~cancelled
  BY <1>2, LiveFacts
<1>4. current[c] \in Msg /\ current[c] # NoMsg
  BY DEF IInv, TypeOK, HoldsWhileBusy
<1>5. TypeOK'
  BY <1>1, <1>3, <1>4, AppendProperties DEF IInv, TypeOK
<1>6. Registered'
  BY <1>1 DEF IInv, TypeOK, Registered
<1>7. LiveRegistered' /\ UnusedEmpty' /\ HoldsWhileBusy'
  BY <1>1, <1>2 DEF IInv, TypeOK, LiveRegistered, Live, UnusedEmpty, HoldsWhileBusy
<1>8. Closing'
  BY <1>1, <1>3 DEF IInv, Closing
<1>9. NothingLostOrReordered'
  <2> SUFFICES ASSUME NEW s \in Sender
               PROVE  accepted'[s] = (finished'[s] \o InHandSeq(s)') \o Waiting(s)'
    BY DEF NothingLostOrReordered
  <2>1. accepted'[s] = accepted[s] /\ Waiting(s)' = Waiting(s)
    BY <1>1 DEF Waiting
  <2>2. CASE s = s0
    <3>1. InHandSeq(s) = <<current[c]>> /\ InHandSeq(s)' = <<>>
      BY <1>1, <1>3, <1>4, <2>2 DEF InHandSeq, InHand, IInv, TypeOK
    <3>2. finished'[s] = Append(finished[s], current[c])
      BY <1>1, <2>2 DEF IInv, TypeOK
    <3>3. Append(finished[s], current[c]) \o <<>> = finished[s] \o <<current[c]>>
      BY <1>4, PutDown DEF IInv, TypeOK
    <3> QED
      BY <2>1, <3>1, <3>2, <3>3 DEF IInv, NothingLostOrReordered
  <2>3. CASE s # s0
    <3>1. queues[s] # c
      BY <1>3, <2>3, NoChanIsNew DEF IInv, Registered
    <3>2. InHandSeq(s)' = InHandSeq(s) /\ finished'[s] = finished[s]
      BY <1>1, <2>3, <3>1 DEF InHandSeq, InHand, IInv, TypeOK
    <3> QED
      BY <2>1, <3>2 DEF IInv, NothingLostOrReordered
  <2> QED
    BY <2>2, <2>3
<1> QED
  BY <1>5, <1>6, <1>7, <1>8, <1>9 DEF IInv

\* What Send does to the outbox keeps its type.
LEMMA SendType ==
  ASSUME IInv, NEW c \in Chan, pc[c] \in Busy,
         NEW kind \in {"note", "ack", "apology", "reply"}, Send(c, kind)
  PROVE  outbox' \in [Sender -> Seq([msg : Msg, kind : {"note", "ack", "apology", "reply"}])]
<1>1. c \in Live
  BY DEF Live
<1>2. owner[c] \in Sender
  BY <1>1, LiveFacts
<1>3. current[c] \in Msg
  BY DEF IInv, TypeOK, HoldsWhileBusy
<1>4. [msg |-> current[c], kind |-> kind]
        \in [msg : Msg, kind : {"note", "ack", "apology", "reply"}]
  BY <1>3
<1>5. outbox \in [Sender -> Seq([msg : Msg, kind : {"note", "ack", "apology", "reply"}])]
  BY DEF IInv, TypeOK
<1>6. Append(outbox[owner[c]], [msg |-> current[c], kind |-> kind])
        \in Seq([msg : Msg, kind : {"note", "ack", "apology", "reply"}])
  BY <1>2, <1>4, <1>5, AppendProperties
<1> QED
  BY <1>2, <1>5, <1>6 DEF Send

LEMMA ProcessInv ==
  ASSUME IInv, NEW c \in Chan, Process(c)
  PROVE  IInv'
<1>0. /\ outbox \in [Sender -> Seq([msg : Msg, kind : {"note", "ack", "apology", "reply"}])]
      /\ alerts \subseteq Msg
  BY DEF IInv, TypeOK
<1>1. CASE MediaOutcome(c)
  BY <1>0, <1>1, GotoInv DEF MediaOutcome
<1>2. CASE SendNote(c)
  BY <1>0, <1>2, GotoInv, SendType DEF SendNote
<1>3. CASE SendAck(c)
  BY <1>0, <1>3, DoneInv, SendType DEF SendAck
<1>4. CASE ModelOutcome(c)
  BY <1>0, <1>4, GotoInv DEF ModelOutcome
<1>5. CASE AlertMaster(c)
  <2>1. pc[c] = "silenced" /\ Goto(c, "apology") /\ outbox' = outbox
    BY <1>5 DEF AlertMaster
  <2>2. current[c] \in Msg
    BY <2>1 DEF IInv, TypeOK, HoldsWhileBusy
  <2>3. alerts' \subseteq Msg
    BY <1>0, <1>5, <2>2 DEF AlertMaster
  <2> QED
    BY <1>0, <2>1, <2>3, GotoInv
<1>6. CASE SendApology(c)
  BY <1>0, <1>6, DoneInv, SendType DEF SendApology
<1>7. CASE SendReply(c)
  BY <1>0, <1>7, DoneInv, SendType DEF SendReply
<1> QED
  BY <1>1, <1>2, <1>3, <1>4, <1>5, <1>6, <1>7 DEF Process

-----------------------------------------------------------------------------
(* close preserves the invariant *)

LEMMA StopAcceptingInv ==
  ASSUME IInv, StopAccepting
  PROVE  IInv'
<1>1. /\ ~closed
      /\ closed' = TRUE
      /\ chClosed' = {queues[s] : s \in Sender} \ {NoChan}
      /\ UNCHANGED <<queues, buf, owner, pc, current, cancelled, accepted, lost,
                     finished, outbox, alerts>>
  BY DEF StopAccepting, workVars, histVars
<1>2. TypeOK'
  <2>1. \A s \in Sender : queues[s] \in Chan \cup {NoChan}
    BY DEF IInv, TypeOK
  <2>2. chClosed' \subseteq Chan
    BY <1>1, <2>1
  <2> QED
    BY <1>1, <2>2 DEF IInv, TypeOK
<1>3. chClosed = {}
  BY <1>1 DEF IInv, Closing
<1>4. Registered' /\ LiveRegistered' /\ UnusedEmpty' /\ HoldsWhileBusy'
  BY <1>1, <1>3 DEF IInv, Registered, LiveRegistered, Live, UnusedEmpty, HoldsWhileBusy
<1>5. Closing'
  BY <1>1 DEF IInv, Closing, Live
<1>6. NothingLostOrReordered'
  BY <1>1 DEF IInv, NothingLostOrReordered, InHandSeq, InHand, Waiting
<1> QED
  BY <1>2, <1>4, <1>5, <1>6 DEF IInv

LEMMA CancelInv ==
  ASSUME IInv, Cancel
  PROVE  IInv'
<1>1. /\ closed
      /\ Live = {}
      /\ cancelled' = TRUE
      /\ UNCHANGED <<queues, buf, chClosed, owner, pc, current, closed, accepted,
                     lost, finished, outbox, alerts>>
  BY DEF Cancel, chanVars, workVars, histVars
<1> QED
  BY <1>1 DEF IInv, TypeOK, Registered, LiveRegistered, Live, UnusedEmpty,
    HoldsWhileBusy, Closing, NothingLostOrReordered, InHandSeq, InHand, Waiting

LEMMA StutterInv ==
  ASSUME IInv, UNCHANGED vars
  PROVE  IInv'
BY DEF vars, chanVars, workVars, ctrlVars, histVars, IInv, TypeOK, Registered,
  LiveRegistered, Live, UnusedEmpty, HoldsWhileBusy, Closing,
  NothingLostOrReordered, InHandSeq, InHand, Waiting

\* The invariant is inductive.
LEMMA NextIInv == IInv /\ [Next]_vars => IInv'
<1> SUFFICES ASSUME IInv, [Next]_vars PROVE IInv'
  OBVIOUS
<1>1. ASSUME NEW m \in Msg, Enqueue(m) PROVE IInv'
  BY <1>1, TurnedAwayInv, EnqueueNewInv, EnqueueExistingInv DEF Enqueue
<1>2. ASSUME NEW c \in Chan, Work(c) PROVE IInv'
  <2>1. CASE Receive(c)
    BY <2>1, ReceiveInv
  <2>2. CASE Exit(c)
    BY <2>2, MoveInv DEF Exit
  <2>3. CASE Retire(c)
    BY <2>3, RetireInv
  <2>4. CASE KeepWorking(c)
    BY <2>4, MoveInv DEF KeepWorking
  <2>5. CASE Process(c)
    BY <2>5, ProcessInv
  <2> QED
    BY <1>2, <2>1, <2>2, <2>3, <2>4, <2>5 DEF Work
<1>3. ASSUME NEW c \in Chan, IdleTimer(c) PROVE IInv'
  BY <1>3, MoveInv DEF IdleTimer
<1>4. CASE StopAccepting
  BY <1>4, StopAcceptingInv
<1>5. CASE Cancel
  BY <1>5, CancelInv
<1>6. CASE UNCHANGED vars
  BY <1>6, StutterInv
<1> QED
  BY <1>1, <1>2, <1>3, <1>4, <1>5, <1>6 DEF Next

-----------------------------------------------------------------------------
(* Theorems of the specification *)

\* Every reachable state satisfies the inductive invariant.
THEOREM Invariance == SafeSpec => []IInv
BY InitIInv, NextIInv, PTL DEF SafeSpec

\* Type correctness of the dispatcher's state.
THEOREM TypeCorrect == SafeSpec => []TypeOK
<1>1. IInv => TypeOK
  BY DEF IInv
<1> QED
  BY Invariance, <1>1, PTL

\* Accepted messages are finished, in hand or waiting, once and in order,
\* through retirement, recreation and close (handler.go, enqueue and worker).
THEOREM NothingLost == SafeSpec => []NothingLostOrReordered
<1>1. IInv => NothingLostOrReordered
  BY DEF IInv
<1> QED
  BY Invariance, <1>1, PTL

\* No sender is ever served by two workers (handler.go, worker).
THEOREM SingleWorker == SafeSpec => []OneWorkerPerSender
<1>1. IInv => OneWorkerPerSender
  <2> SUFFICES ASSUME IInv, NEW c \in Live, NEW d \in Live, owner[c] = owner[d]
               PROVE  c = d
    BY DEF OneWorkerPerSender
  <2> QED
    BY LiveFacts
<1> QED
  BY Invariance, <1>1, PTL

\* The context is cancelled only after every worker has returned and every
\* accepted message has been dealt with (handler.go, close).
THEOREM DrainedAtClose == SafeSpec => []CloseDrains
<1>1. IInv => CloseDrains
  <2> SUFFICES ASSUME IInv, cancelled
               PROVE  Live = {} /\ \A s \in Sender : finished[s] = accepted[s]
    BY DEF CloseDrains
  <2>1. Live = {}
    BY DEF IInv, Closing
  <2>2. ASSUME NEW s \in Sender PROVE finished[s] = accepted[s]
    <3>1. Waiting(s) = <<>> /\ InHandSeq(s) = <<>>
      <4>1. CASE queues[s] = NoChan
        BY <4>1 DEF Waiting, InHandSeq, InHand
      <4>2. CASE queues[s] # NoChan
        <5>1. queues[s] \in Chan /\ pc[queues[s]] = "done" /\ buf[queues[s]] = <<>>
          BY <2>1, <4>2 DEF Live, IInv, TypeOK, Registered
        <5>2. current[queues[s]] = NoMsg
          BY <5>1 DEF IInv, HoldsWhileBusy
        <5> QED
          BY <4>2, <5>1, <5>2 DEF Waiting, InHandSeq, InHand
      <4> QED
        BY <4>1, <4>2
    <3>2. accepted[s] = (finished[s] \o <<>>) \o <<>>
      BY <3>1 DEF IInv, NothingLostOrReordered
    <3>3. finished[s] \in Seq(Msg)
      BY DEF IInv, TypeOK
    <3> QED
      BY <3>2, <3>3, ConcatEmptySeq
  <2> QED
    BY <2>1, <2>2
<1> QED
  BY Invariance, <1>1, PTL

-----------------------------------------------------------------------------
(* Refinement of OrderedReplies *)

\* What a dispatcher step does to the mailboxes, the messages in hand and the
\* phase, sender by sender.
Same(s) == Waiting(s)' = Waiting(s) /\ InHand(s)' = InHand(s)

LEMMA AcceptMaps ==
  ASSUME IInv, NEW m \in Msg, EnqueueNew(m) \/ EnqueueExisting(m)
  PROVE  Mailboxes!Accept(m)
<1> DEFINE s0 == From[m]
<1>1. s0 \in Sender
  BY FromType
<1>2. ~closed /\ UNCHANGED <<closed, cancelled, finished>> /\ ~cancelled
  BY DEF EnqueueNew, EnqueueExisting, ctrlVars, IInv, Closing
<1>3. /\ Len(Waiting(s0)) < Capacity
      /\ Waiting(s0)' = Append(Waiting(s0), m)
      /\ InHand(s0)' = InHand(s0)
      /\ \A s \in Sender : s # s0 => Same(s)
  <2>1. CASE EnqueueNew(m)
    <3>1. PICK c \in Chan :
            /\ pc[c] = "unused"
            /\ queues' = [queues EXCEPT ![s0] = c]
            /\ owner' = [owner EXCEPT ![c] = s0]
            /\ buf' = [buf EXCEPT ![c] = Append(@, m)]
      BY <2>1 DEF EnqueueNew
    <3>2. queues[s0] = NoChan /\ UNCHANGED current
      BY <2>1 DEF EnqueueNew
    <3>3. /\ buf[c] = <<>>
          /\ current[c] = NoMsg
          /\ \A s \in Sender : queues[s] # c
      BY <3>1, NoChanIsNew DEF IInv, UnusedEmpty, HoldsWhileBusy, Registered
    <3>4. Waiting(s0) = <<>> /\ InHand(s0) = NoMsg /\ Len(<<>>) < Capacity
      BY <3>2, CapacityType DEF Waiting, InHand
    <3>5. Waiting(s0)' = Append(<<>>, m) /\ InHand(s0)' = NoMsg
      BY <1>1, <3>1, <3>2, <3>3, NoChanIsNew DEF Waiting, InHand, IInv, TypeOK
    <3>6. ASSUME NEW s \in Sender, s # s0 PROVE Same(s)
      BY <1>1, <3>1, <3>2, <3>3, <3>6 DEF Same, Waiting, InHand, IInv, TypeOK
    <3> QED
      BY <3>4, <3>5, <3>6
  <2>2. CASE EnqueueExisting(m)
    <3>1. /\ queues[s0] # NoChan
          /\ Len(buf[queues[s0]]) < Capacity
          /\ buf' = [buf EXCEPT ![queues[s0]] = Append(@, m)]
          /\ UNCHANGED <<queues, current>>
      BY <2>2 DEF EnqueueExisting, workVars
    <3>2. queues[s0] \in Chan
      BY <1>1, <3>1 DEF IInv, TypeOK
    <3>3. \A s \in Sender : s # s0 /\ queues[s] # NoChan => queues[s] # queues[s0]
      BY <1>1, <3>1 DEF IInv, Registered
    <3>4. Len(Waiting(s0)) < Capacity /\ Waiting(s0)' = Append(Waiting(s0), m)
      BY <3>1, <3>2 DEF Waiting, IInv, TypeOK
    <3>5. InHand(s0)' = InHand(s0)
      BY <3>1 DEF InHand
    <3>6. ASSUME NEW s \in Sender, s # s0 PROVE Same(s)
      BY <3>1, <3>2, <3>3, <3>6 DEF Same, Waiting, InHand, IInv, TypeOK
    <3> QED
      BY <3>4, <3>5, <3>6
  <2> QED
    BY <2>1, <2>2
<1> QED
  BY <1>1, <1>2, <1>3 DEF Mailboxes!Accept, Same

LEMMA ReceiveMaps ==
  ASSUME IInv, NEW c \in Chan, Receive(c)
  PROVE  Mailboxes!Begin(owner[c]) /\ owner[c] \in Sender
<1>1. /\ pc[c] = "select"
      /\ buf[c] # <<>>
      /\ buf' = [buf EXCEPT ![c] = Tail(@)]
      /\ current' = [current EXCEPT ![c] = Head(buf[c])]
      /\ UNCHANGED <<queues, closed, cancelled, finished>>
  BY DEF Receive, ctrlVars, histVars
<1>2. c \in Live
  BY <1>1 DEF Live
<1>3. PICK s0 \in Sender :
        /\ s0 = owner[c]
        /\ queues[s0] = c
        /\ Waiting(s0) = buf[c]
        /\ InHand(s0) = current[c]
        /\ ~cancelled
  BY <1>2, LiveFacts
<1>4. current[c] = NoMsg
  BY <1>1 DEF IInv, HoldsWhileBusy
<1>5. Waiting(s0)' = Tail(buf[c]) /\ InHand(s0)' = Head(buf[c])
  BY <1>1, <1>3, NoChanIsNew DEF Waiting, InHand, IInv, TypeOK
<1>6. ASSUME NEW s \in Sender, s # s0 PROVE Same(s)
  <2>1. queues[s] # c
    BY <1>3, <1>6, NoChanIsNew DEF IInv, Registered
  <2> QED
    BY <1>1, <2>1 DEF Same, Waiting, InHand, IInv, TypeOK
<1> QED
  BY <1>1, <1>3, <1>4, <1>5, <1>6 DEF Mailboxes!Begin, Same

LEMMA DoneMaps ==
  ASSUME IInv, NEW c \in Chan, pc[c] \in Busy, Done(c)
  PROVE  Mailboxes!Finish(owner[c]) /\ owner[c] \in Sender
<1>1. /\ finished' = [finished EXCEPT ![owner[c]] = Append(@, current[c])]
      /\ current' = [current EXCEPT ![c] = NoMsg]
      /\ UNCHANGED <<queues, buf, closed, cancelled>>
  BY DEF Done, chanVars, ctrlVars
<1>2. c \in Live
  BY DEF Live
<1>3. PICK s0 \in Sender :
        /\ s0 = owner[c]
        /\ queues[s0] = c
        /\ InHand(s0) = current[c]
        /\ ~cancelled
  BY <1>2, LiveFacts
<1>4. current[c] # NoMsg
  BY DEF IInv, HoldsWhileBusy
<1>5. InHand(s0)' = NoMsg
  BY <1>1, <1>3 DEF InHand, IInv, TypeOK
<1>6. \A s \in Sender : Waiting(s)' = Waiting(s)
  BY <1>1 DEF Waiting
<1>7. ASSUME NEW s \in Sender, s # s0 PROVE InHand(s)' = InHand(s)
  <2>1. queues[s] # c
    BY <1>3, <1>7, NoChanIsNew DEF IInv, Registered
  <2> QED
    BY <1>1, <2>1 DEF InHand, IInv, TypeOK
<1> QED
  BY <1>1, <1>3, <1>4, <1>5, <1>6, <1>7 DEF Mailboxes!Finish, IInv, TypeOK

\* Steps the mailboxes do not see.
LEMMA HiddenMaps ==
  ASSUME \A s \in Sender : Same(s), UNCHANGED <<finished, closed, cancelled>>
  PROVE  UNCHANGED Mailboxes!vars
BY DEF Mailboxes!vars, Same

LEMMA RetireHidden ==
  ASSUME IInv, NEW c \in Chan, Retire(c)
  PROVE  UNCHANGED Mailboxes!vars
<1>1. /\ pc[c] = "retiring"
      /\ buf[c] = <<>>
      /\ queues' = [queues EXCEPT ![owner[c]] = NoChan]
      /\ UNCHANGED <<buf, current, closed, cancelled, finished>>
  BY DEF Retire, MayRetire, ctrlVars, histVars
<1>2. c \in Live
  BY <1>1 DEF Live
<1>3. owner[c] \in Sender /\ queues[owner[c]] = c
  BY <1>2, LiveFacts
<1>4. current[c] = NoMsg
  BY <1>1 DEF IInv, HoldsWhileBusy
<1>5. ASSUME NEW s \in Sender PROVE Same(s)
  BY <1>1, <1>3, <1>4 DEF Same, Waiting, InHand, IInv, TypeOK
<1> QED
  BY <1>1, <1>5, HiddenMaps

LEMMA ProcessMaps ==
  ASSUME IInv, NEW c \in Chan, Process(c)
  PROVE  \/ Mailboxes!Finish(owner[c]) /\ owner[c] \in Sender
         \/ UNCHANGED Mailboxes!vars
<1>1. pc[c] \in Busy
  BY DEF Process, MediaOutcome, SendNote, SendAck, ModelOutcome,
    AlertMaster, SendApology, SendReply
<1>2. CASE Done(c)
  BY <1>1, <1>2, DoneMaps
<1>3. CASE \E to \in WorkerPC : Goto(c, to)
  <2>1. UNCHANGED <<queues, buf, current, finished, closed, cancelled>>
    BY <1>3 DEF Goto, chanVars, ctrlVars
  <2>2. ASSUME NEW s \in Sender PROVE Same(s)
    BY <2>1 DEF Same, Waiting, InHand
  <2> QED
    BY <2>1, <2>2, HiddenMaps
<1>4. Done(c) \/ \E to \in WorkerPC : Goto(c, to)
  BY DEF Process, MediaOutcome, SendNote, SendAck, ModelOutcome,
    AlertMaster, SendApology, SendReply
<1> QED
  BY <1>2, <1>3, <1>4

LEMMA CloseMaps ==
  ASSUME IInv
  PROVE  /\ StopAccepting => Mailboxes!StopAccepting
         /\ Cancel => Mailboxes!Closed
<1>1. ASSUME StopAccepting PROVE Mailboxes!StopAccepting
  <2>1. /\ ~closed
        /\ ~cancelled
        /\ closed' = TRUE
        /\ UNCHANGED <<queues, buf, current, cancelled, finished>>
    BY <1>1 DEF StopAccepting, workVars, histVars, IInv, Closing
  <2>2. ASSUME NEW s \in Sender PROVE Same(s)
    BY <2>1 DEF Same, Waiting, InHand
  <2> QED
    BY <2>1, <2>2 DEF Mailboxes!StopAccepting, Same
<1>2. ASSUME Cancel PROVE Mailboxes!Closed
  <2>1. /\ closed
        /\ ~cancelled
        /\ Live = {}
        /\ cancelled' = TRUE
        /\ UNCHANGED <<queues, buf, current, closed, finished>>
    BY <1>2 DEF Cancel, chanVars, workVars, histVars
  <2>2. ASSUME NEW s \in Sender PROVE Same(s)
    BY <2>1 DEF Same, Waiting, InHand
  <2>3. ASSUME NEW s \in Sender PROVE Waiting(s) = <<>> /\ InHand(s) = NoMsg
    <3>1. CASE queues[s] = NoChan
      BY <3>1 DEF Waiting, InHand
    <3>2. CASE queues[s] # NoChan
      <4>1. queues[s] \in Chan /\ pc[queues[s]] = "done" /\ buf[queues[s]] = <<>>
        BY <2>1, <3>2 DEF Live, IInv, TypeOK, Registered
      <4>2. current[queues[s]] = NoMsg
        BY <4>1 DEF IInv, HoldsWhileBusy
      <4> QED
        BY <3>2, <4>1, <4>2 DEF Waiting, InHand
    <3> QED
      BY <3>1, <3>2
  <2> QED
    BY <2>1, <2>2, <2>3 DEF Mailboxes!Closed, Same
<1> QED
  BY <1>1, <1>2

LEMMA InitMaps == Init => Mailboxes!Init
<1> SUFFICES ASSUME Init PROVE Mailboxes!Init
  OBVIOUS
<1>1. /\ queues = [s \in Sender |-> NoChan]
      /\ finished = [s \in Sender |-> <<>>]
      /\ closed = FALSE
      /\ cancelled = FALSE
  BY DEF Init
<1>2. \A s \in Sender : Waiting(s) = <<>> /\ InHand(s) = NoMsg
  BY <1>1 DEF Waiting, InHand
<1> QED
  BY <1>1, <1>2 DEF Mailboxes!Init

LEMMA NextMaps == IInv /\ [Next]_vars => [Mailboxes!Next]_Mailboxes!vars
<1> SUFFICES ASSUME IInv, [Next]_vars PROVE [Mailboxes!Next]_Mailboxes!vars
  OBVIOUS
<1>1. ASSUME NEW m \in Msg, Enqueue(m) PROVE [Mailboxes!Next]_Mailboxes!vars
  <2>1. CASE EnqueueNew(m) \/ EnqueueExisting(m)
    BY <2>1, AcceptMaps DEF Mailboxes!Next
  <2>2. CASE Refuse(m) \/ Drop(m)
    <3>1. UNCHANGED <<queues, buf, current, finished, closed, cancelled>>
      BY <2>2 DEF Refuse, Drop, chanVars, workVars, ctrlVars
    <3>2. ASSUME NEW s \in Sender PROVE Same(s)
      BY <3>1 DEF Same, Waiting, InHand
    <3> QED
      BY <3>1, <3>2, HiddenMaps
  <2> QED
    BY <1>1, <2>1, <2>2 DEF Enqueue
<1>2. ASSUME NEW c \in Chan, Exit(c) \/ KeepWorking(c) \/ IdleTimer(c)
      PROVE  UNCHANGED Mailboxes!vars
  <2>1. UNCHANGED <<queues, buf, current, finished, closed, cancelled>>
    BY <1>2 DEF Exit, KeepWorking, IdleTimer, chanVars, ctrlVars, histVars
  <2>2. ASSUME NEW s \in Sender PROVE Same(s)
    BY <2>1 DEF Same, Waiting, InHand
  <2> QED
    BY <2>1, <2>2, HiddenMaps
<1>3. ASSUME NEW c \in Chan, Work(c) PROVE [Mailboxes!Next]_Mailboxes!vars
  BY <1>2, <1>3, ReceiveMaps, RetireHidden, ProcessMaps DEF Work, Mailboxes!Next
<1>4. CASE StopAccepting
  BY <1>4, CloseMaps DEF Mailboxes!Next
<1>5. CASE Cancel
  BY <1>5, CloseMaps DEF Mailboxes!Next
<1>6. CASE UNCHANGED vars
  <2>1. UNCHANGED <<queues, buf, current, finished, closed, cancelled>>
    BY <1>6 DEF vars, chanVars, workVars, ctrlVars, histVars
  <2>2. ASSUME NEW s \in Sender PROVE Same(s)
    BY <2>1 DEF Same, Waiting, InHand
  <2> QED
    BY <2>1, <2>2, HiddenMaps
<1> QED
  BY <1>1, <1>2, <1>3, <1>4, <1>5, <1>6 DEF Next

\* Goroutines, channels, idle retirement and close implement the per-sender
\* mailboxes of OrderedReplies (its safety part; TLC checks its fairness).
THEOREM Refinement == SafeSpec => Mailboxes!SafeSpec
BY InitMaps, NextMaps, Invariance, PTL DEF SafeSpec, Mailboxes!SafeSpec

---------------------------------------------------------------------------
(* Who Clark serves. The inductive invariant says of every step of a call  *)
(* what the memory may still owe to the tables there.                      *)

StatusSteps == {"status", "set", "wipe", "forget", "show", "away"}
Ending == {"signal", "pidfile", "listen"}
Loading == {"all", "empty", "fill"}
Striking == {"admit", "strike", "strike access", "strike status"}
CallKinds == {"none", "status", "setting", "person", "add", "delete", "grant", "rest",
              "reload"}

Fields(c) ==
  c = [step |-> c.step, kind |-> c.kind, who |-> c.who, on |-> c.on, set |-> c.set,
       tool |-> c.tool, was |-> c.was, rows |-> c.rows, list |-> c.list,
       alone |-> c.alone]

\* What a call is, whoever makes it.
IsCall(c) ==
  /\ Fields(c)
  /\ c.kind \in CallKinds
  /\ c.on \in BOOLEAN /\ c.set \in BOOLEAN /\ c.was \in BOOLEAN /\ c.alone \in BOOLEAN
  /\ c.rows \subseteq Person /\ c.who \subseteq Person
  /\ c.kind = "none" <=> c.step = "idle"
  /\ c.step \in StatusSteps => c.kind = "status"
  /\ c.kind = "status" => c.step \in StatusSteps \cup Ending

\* What a call of p may be.
Fits(p, c) ==
  /\ p = Hup => /\ c.kind \in {"none", "reload"}
                /\ c.step \in {"idle", "reread", "reshow", "tell"} \cup Loading
  /\ c.kind = "reload" => p = Hup
  /\ p = Main => /\ c.kind \in {"none", "status"}
                 /\ c.step \in {"idle", "pidfile", "listen"} \cup StatusSteps
  /\ p \in Caller => c.step \notin Ending
  /\ p = Cli => c.step \notin {"pidfile", "listen"}

Copy == [status : BOOLEAN, setting : BOOLEAN, entries : SUBSET Person,
         over : [Person -> BOOLEAN \cup {None}]]

Tables ==
  /\ status \in BOOLEAN /\ away \in BOOLEAN /\ setting \in BOOLEAN /\ think \in BOOLEAN
  /\ vip \subseteq Person
  /\ over \in [Person -> BOOLEAN \cup {None}]
  /\ cache \in [{"service", "cli"} -> Copy]

Flags ==
  /\ phase \in {"down", "starting", "up"} /\ sig \in BOOLEAN
  /\ raced \in BOOLEAN /\ muddled \in BOOLEAN

Callers ==
  /\ call = [p \in Proc |-> call[p]]
  /\ \A p \in Proc : IsCall(call[p]) /\ Fits(p, call[p])

\* Who may be in a call in each phase.
Stages ==
  /\ phase = "up" => ~InCall(Main)
  /\ phase = "starting" => InCall(Main) /\ \A p \in Service \ {Main} : ~InCall(p)
  /\ phase = "down" => \A p \in Service : ~InCall(p)
  /\ sig => phase = "up"

\* A reload that runs alone, and calls that have not overlapped.
Alone == InCall(Hup) /\ call[Hup].alone

Solo ==
  /\ Alone => \A p \in Proc \ {Hup} : ~InCall(p)
  /\ ~raced => /\ \A p, q \in Service : p # q => ~InCall(p) \/ ~InCall(q)
               /\ ~InCall(Main) \/ ~InCall(Cli)

\* A reload is due: a signal waits, or a command has written and will send one.
Owed == sig \/ (InCall(Cli) /\ call[Cli].step \notin {"person", "grants"})

Steady == ~raced \/ Alone

Mem == cache["service"]
StoredOver == [j \in Person |-> IF j \in vip THEN over[j] ELSE None]

\* The steps at which the members in memory may be behind.
Refilling(p) ==
  Loading \cup Striking \cup {"reread", "reshow"} \cup (IF p = Hup THEN {"tell"} ELSE {})

\* What the memory shows while p is at each step of its call.
Midway(p) ==
  /\ call[p].step \notin {"reread", "reshow", "wipe", "forget", "show"} =>
       Mem.status = status
  /\ call[p].step \in {"reshow", "wipe", "forget", "show"} => call[p].on = status
  /\ call[p].step \notin {"reread", "reshow", "publish"} => Mem.setting = setting
  /\ call[p].step \in {"reshow", "publish", "tell"} => call[p].set = setting
  /\ call[p].step \notin {"reread", "reshow", "publish", "tell"} => think = setting
  /\ call[p].step \notin Refilling(p) => Mem.entries = vip
  /\ call[p].step = "empty" => call[p].rows = vip
  /\ call[p].step = "fill" =>
       /\ call[p].rows \subseteq vip
       /\ Mem.entries = vip \ call[p].rows
       /\ Mem.over = [j \in Person |-> IF j \in Mem.entries THEN over[j] ELSE None]
  /\ call[p].step \notin Refilling(p) \cup {"forget", "apply"} => Mem.over = StoredOver
  /\ call[p].step \in {"forget", "show"} => over = NoOverride
  /\ call[p].step = "apply" =>
       StoredOver = [Mem.over EXCEPT ![TheOne(p)] = call[p].on]

Tuned ==
  phase # "down" /\ Steady /\ ~Owed =>
    /\ (\A p \in Service : ~InCall(p)) => InTune
    /\ \A p \in Service : InCall(p) => Midway(p)

\* What the away window shows while p is at each step of a status change.
InStatus(p) ==
  /\ call[p].step \in {"status", "set"} => away = status /\ cache[Home(p)].status = status
  /\ call[p].step = "set" => call[p].was = status
  /\ call[p].step \in {"wipe", "forget", "show", "away"} =>
       status = call[p].on /\ away = call[p].was
  /\ call[p].step = "away" => cache[Home(p)].status = status
  /\ call[p].step \in Ending => away = status
  /\ call[p].step \in {"pidfile", "listen"} => cache[Home(p)].status = status

\* What the status in memory shows during a reload.
InReload ==
  /\ call[Hup].step = "reshow" => call[Hup].on = status
  /\ call[Hup].step \notin {"reread", "reshow"} => Mem.status = status

Paired ==
  ~muddled =>
    /\ \A p, q \in Proc :
         p # q /\ call[p].kind = "status" => call[q].kind \notin {"status", "reload"}
    /\ \A p \in Proc : call[p].kind = "status" => InStatus(p)
    /\ (\A p \in Proc : call[p].kind # "status") => away = status
    /\ (\A p \in Proc : call[p].kind \notin {"status", "reload"}) /\ ~sig
          /\ phase # "down" => Mem.status = status
    /\ call[Hup].kind = "reload" /\ ~sig => InReload

CircleInv == Tables /\ Flags /\ Callers /\ Stages /\ Solo /\ Tuned /\ Paired

\* What an update of one field leaves of a call.
Alike(c, d) ==
  /\ d.kind = c.kind /\ d.who = c.who /\ d.on = c.on /\ d.set = c.set /\ d.tool = c.tool
  /\ d.was = c.was /\ d.rows = c.rows /\ d.list = c.list /\ d.alone = c.alone

\* An update of a call keeps the fields it does not name.
LEMMA StepSet ==
  ASSUME NEW c, Fields(c), NEW s
  PROVE  LET d == [c EXCEPT !.step = s] IN Fields(d) /\ d.step = s /\ Alike(c, d)
  BY DEF Fields, Alike

WithWas(c, s, w) == [c EXCEPT !.step = s, !.was = w]
WithRows(c, s, w) == [c EXCEPT !.step = s, !.rows = w]
WithWho(c, s, w) == [c EXCEPT !.step = s, !.who = w]
WithList(c, s, w) == [c EXCEPT !.step = s, !.list = w]
WithOnSet(c, s, w, x) == [c EXCEPT !.step = s, !.on = w, !.set = x]
OnlyRows(c, w) == [c EXCEPT !.rows = w]
OnlyAlone(c, w) == [c EXCEPT !.alone = w]

LEMMA StepAndWas ==
  ASSUME NEW c, Fields(c), NEW s, NEW w
  PROVE  LET d == WithWas(c, s, w)
         IN  /\ Fields(d) /\ d.step = s /\ d.was = w
             /\ d.kind = c.kind /\ d.on = c.on /\ d.set = c.set /\ d.rows = c.rows
             /\ d.alone = c.alone /\ d.who = c.who
<1> DEFINE e == [c EXCEPT !.step = s]
           d == [e EXCEPT !.was = w]
<1>1. Fields(e) /\ e.step = s /\ Alike(c, e)
  BY StepSet
<1>2. d = WithWas(c, s, w)
  BY DEF WithWas
<1> HIDE DEF e
<1>3. /\ Fields(d) /\ d.step = e.step /\ d.was = w
      /\ d.kind = e.kind /\ d.on = e.on /\ d.set = e.set /\ d.rows = e.rows
      /\ d.alone = e.alone /\ d.who = e.who
  BY <1>1 DEF Fields
<1> QED BY <1>1, <1>2, <1>3 DEF Alike

LEMMA StepAndRest ==
  ASSUME NEW c, Fields(c), NEW s, NEW w
  PROVE  /\ LET d == WithRows(c, s, w)
            IN  /\ Fields(d) /\ d.step = s /\ d.rows = w
                /\ d.kind = c.kind /\ d.on = c.on /\ d.set = c.set /\ d.was = c.was
                /\ d.alone = c.alone /\ d.who = c.who
         /\ LET d == WithWho(c, s, w)
            IN  /\ Fields(d) /\ d.step = s /\ d.who = w
                /\ d.kind = c.kind /\ d.on = c.on /\ d.set = c.set /\ d.was = c.was
                /\ d.alone = c.alone /\ d.rows = c.rows
         /\ LET d == WithList(c, s, w)
            IN  /\ Fields(d) /\ d.step = s /\ d.who = c.who
                /\ d.kind = c.kind /\ d.on = c.on /\ d.set = c.set /\ d.was = c.was
                /\ d.alone = c.alone /\ d.rows = c.rows
<1> DEFINE e == [c EXCEPT !.step = s]
           d1 == [e EXCEPT !.rows = w]
           d2 == [e EXCEPT !.who = w]
           d3 == [e EXCEPT !.list = w]
<1>1. Fields(e) /\ e.step = s /\ Alike(c, e)
  BY StepSet
<1>2. d1 = WithRows(c, s, w) /\ d2 = WithWho(c, s, w) /\ d3 = WithList(c, s, w)
  BY DEF WithRows, WithWho, WithList
<1> HIDE DEF e
<1>3. /\ Fields(d1) /\ d1.step = e.step /\ d1.rows = w
      /\ d1.kind = e.kind /\ d1.on = e.on /\ d1.set = e.set /\ d1.was = e.was
      /\ d1.alone = e.alone /\ d1.who = e.who
  BY <1>1 DEF Fields
<1>4. /\ Fields(d2) /\ d2.step = e.step /\ d2.who = w /\ d2.rows = e.rows
      /\ d2.kind = e.kind /\ d2.on = e.on /\ d2.set = e.set /\ d2.was = e.was
      /\ d2.alone = e.alone
  BY <1>1 DEF Fields
<1>5. /\ Fields(d3) /\ d3.step = e.step /\ d3.who = e.who /\ d3.rows = e.rows
      /\ d3.kind = e.kind /\ d3.on = e.on /\ d3.set = e.set /\ d3.was = e.was
      /\ d3.alone = e.alone
  BY <1>1 DEF Fields
<1> HIDE DEF d1, d2, d3
<1>6. /\ Fields(d1) /\ d1.step = s /\ d1.rows = w
      /\ d1.kind = c.kind /\ d1.on = c.on /\ d1.set = c.set /\ d1.was = c.was
      /\ d1.alone = c.alone /\ d1.who = c.who
  BY <1>1, <1>3 DEF Alike
<1>7. /\ Fields(d2) /\ d2.step = s /\ d2.who = w /\ d2.rows = c.rows
      /\ d2.kind = c.kind /\ d2.on = c.on /\ d2.set = c.set /\ d2.was = c.was
      /\ d2.alone = c.alone
  BY <1>1, <1>4 DEF Alike
<1>8. /\ Fields(d3) /\ d3.step = s /\ d3.who = c.who /\ d3.rows = c.rows
      /\ d3.kind = c.kind /\ d3.on = c.on /\ d3.set = c.set /\ d3.was = c.was
      /\ d3.alone = c.alone
  BY <1>1, <1>5 DEF Alike
<1> QED BY <1>2, <1>6, <1>7, <1>8, Zenon

LEMMA RowsField ==
  ASSUME NEW c, Fields(c), NEW w
  PROVE  LET d == OnlyRows(c, w)
         IN  /\ Fields(d) /\ d.step = c.step /\ d.rows = w
             /\ d.kind = c.kind /\ d.on = c.on /\ d.set = c.set /\ d.was = c.was
             /\ d.alone = c.alone /\ d.who = c.who
  BY DEF Fields, OnlyRows

LEMMA AloneField ==
  ASSUME NEW c, Fields(c), NEW w
  PROVE  LET d == OnlyAlone(c, w)
         IN  /\ Fields(d) /\ d.step = c.step /\ d.alone = w
             /\ d.kind = c.kind /\ d.on = c.on /\ d.set = c.set /\ d.was = c.was
             /\ d.rows = c.rows /\ d.who = c.who
  BY DEF Fields, OnlyAlone

LEMMA StepOnSet ==
  ASSUME NEW c, Fields(c), NEW s, NEW w, NEW x
  PROVE  LET d == WithOnSet(c, s, w, x)
         IN  /\ Fields(d) /\ d.step = s /\ d.on = w /\ d.set = x
             /\ d.kind = c.kind /\ d.rows = c.rows /\ d.was = c.was
             /\ d.alone = c.alone /\ d.who = c.who
<1> DEFINE e == [c EXCEPT !.step = s]
           f == [e EXCEPT !.on = w]
           d == [f EXCEPT !.set = x]
<1>1. Fields(e) /\ e.step = s /\ Alike(c, e)
  BY StepSet
<1>2. d = WithOnSet(c, s, w, x)
  BY DEF WithOnSet
<1> HIDE DEF e
<1>3. /\ Fields(f) /\ f.step = e.step /\ f.on = w
      /\ f.kind = e.kind /\ f.rows = e.rows /\ f.was = e.was /\ f.alone = e.alone /\ f.who = e.who
  BY <1>1 DEF Fields
<1> HIDE DEF f
<1>4. /\ Fields(d) /\ d.step = f.step /\ d.on = f.on /\ d.set = x
      /\ d.kind = f.kind /\ d.rows = f.rows /\ d.was = f.was /\ d.alone = f.alone /\ d.who = f.who
  BY <1>3 DEF Fields
<1> HIDE DEF d
<1>5. /\ Fields(d) /\ d.step = s /\ d.on = w /\ d.set = x
      /\ d.kind = c.kind /\ d.rows = c.rows /\ d.was = c.was /\ d.alone = c.alone /\ d.who = c.who
  BY <1>1, <1>3, <1>4 DEF Alike
<1> QED BY <1>2, <1>5, Zenon

Requests == {"status", "setting", "person", "add", "delete", "grant", "rest"}

LEMMA FirstSteps ==
  /\ FirstStep["status"] = "status" /\ FirstStep["setting"] = "put"
  /\ FirstStep["person"] = "person" /\ FirstStep["add"] = "admit"
  /\ FirstStep["delete"] = "strike" /\ FirstStep["grant"] = "grants"
  /\ FirstStep["rest"] = "grants"
  BY DEF FirstStep

NewCall(k, who, on, set, t) ==
  [step |-> FirstStep[k], kind |-> k, who |-> who, on |-> on, set |-> set,
   tool |-> t, was |-> FALSE, rows |-> {}, list |-> {}, alone |-> TRUE]

Starts(c) == IsCall(c) /\ c.kind \in Requests /\ c.step = FirstStep[c.kind]

\* The calls that are made are calls, at their first step.
LEMMA FreshCall ==
  ASSUME NEW k \in Requests, NEW who \in SUBSET Person, NEW on \in BOOLEAN,
         NEW set \in BOOLEAN, NEW t
  PROVE  Starts(NewCall(k, who, on, set, t))
<1> DEFINE c == NewCall(k, who, on, set, t)
<1>1. /\ c.step = FirstStep[k] /\ c.kind = k /\ c.on = on /\ c.set = set /\ c.was = FALSE
      /\ c.rows = {} /\ c.alone = TRUE /\ c.who = who
  BY DEF NewCall
<1>2. Fields(c)
  BY DEF Fields, NewCall
<1> HIDE DEF c
<1>3. /\ c.kind \in CallKinds /\ c.kind # "none" /\ c.step # "idle"
      /\ c.kind = "status" => c.step \in StatusSteps
      /\ c.kind # "status" => c.step \notin StatusSteps
  BY <1>1, FirstSteps DEF CallKinds, Requests, StatusSteps
<1>4. IsCall(c)
  BY <1>1, <1>2, <1>3 DEF IsCall
<1> QED BY <1>1, <1>4 DEF Starts, c

LEMMA NewCalls ==
  ASSUME NEW c \in ServiceCalls
  PROVE  Starts(c)
<1>0. /\ "status" \in Requests /\ "setting" \in Requests /\ "person" \in Requests
      /\ "add" \in Requests /\ "delete" \in Requests /\ "grant" \in Requests
      /\ "rest" \in Requests /\ FALSE \in BOOLEAN
  BY DEF Requests
<1>1. CASE c \in StatusCalls
  <2> PICK on \in BOOLEAN : c = [Call("status") EXCEPT !.who = Person, !.on = on]
    BY <1>1 DEF StatusCalls
  <2>1. c = NewCall("status", Person, on, FALSE, 0)
    BY DEF Call, Blank, NewCall
  <2>2. Starts(NewCall("status", Person, on, FALSE, 0))
    BY <1>0, FreshCall
  <2> QED BY <2>1, <2>2
<1>2. CASE c \in SettingCalls
  <2> PICK v \in BOOLEAN : c = [Call("setting") EXCEPT !.set = v]
    BY <1>2 DEF SettingCalls
  <2>1. c = NewCall("setting", {}, FALSE, v, 0)
    BY DEF Call, Blank, NewCall
  <2>2. Starts(NewCall("setting", {}, FALSE, v, 0))
    BY <1>0, FreshCall
  <2> QED BY <2>1, <2>2
<1>3. CASE c \in PersonCalls
  <2> DEFINE E(j, on) == [Call("person") EXCEPT !.who = {j}, !.on = on]
  <2>1. ASSUME NEW j, NEW on, NEW e, e = E(j, on)
        PROVE  e = NewCall("person", {j}, on, FALSE, 0)
    BY <2>1 DEF Call, Blank, NewCall
  <2>2. PersonCalls = {E(j, on) : j \in Person, on \in BOOLEAN}
    BY DEF PersonCalls
  <2> HIDE DEF E
  <2>3. PICK j \in Person, on \in BOOLEAN : c = E(j, on)
    BY <1>3, <2>2
  <2>4. Starts(NewCall("person", {j}, on, FALSE, 0))
    BY <1>0, FreshCall
  <2>5. E(j, on) = NewCall("person", {j}, on, FALSE, 0)
    BY <2>1
  <2> QED BY <2>3, <2>4, <2>5
<1>4. CASE c \in MemberCalls
  <2> DEFINE E(k, w) == [Call(k) EXCEPT !.who = w]
  <2>1. ASSUME NEW k, NEW w, NEW e, e = E(k, w)
        PROVE  e = NewCall(k, w, FALSE, FALSE, 0)
    BY <2>1 DEF Call, Blank, NewCall
  <2>2. MemberCalls = {E(k, w) : k \in {"add", "delete"}, w \in (SUBSET Person) \ {{}}}
    BY DEF MemberCalls
  <2> HIDE DEF E
  <2>3. PICK k \in {"add", "delete"}, w \in (SUBSET Person) \ {{}} : c = E(k, w)
    BY <1>4, <2>2
  <2>4. Starts(NewCall(k, w, FALSE, FALSE, 0))
    BY <1>0, FreshCall
  <2>5. E(k, w) = NewCall(k, w, FALSE, FALSE, 0)
    BY <2>1
  <2> QED BY <2>3, <2>4, <2>5
<1>5. ASSUME NEW k \in {"grant", "rest"}, c \in GrantCalls(k)
      PROVE  Starts(c)
  <2> DEFINE E(j, on, t) == [Call(k) EXCEPT !.who = {j}, !.on = on, !.tool = t]
  <2>1. ASSUME NEW j, NEW on, NEW t, NEW e, e = E(j, on, t)
        PROVE  e = NewCall(k, {j}, on, FALSE, t)
    BY <2>1 DEF Call, Blank, NewCall
  <2>2. GrantCalls(k) = {E(j, on, t) : j \in Person, on \in BOOLEAN, t \in Tool}
    BY DEF GrantCalls
  <2> HIDE DEF E
  <2>3. PICK j \in Person, on \in BOOLEAN, t \in Tool : c = E(j, on, t)
    BY <1>5, <2>2
  <2>4. Starts(NewCall(k, {j}, on, FALSE, t))
    BY <1>0, FreshCall
  <2>5. E(j, on, t) = NewCall(k, {j}, on, FALSE, t)
    BY <2>1
  <2> QED BY <2>3, <2>4, <2>5
<1> QED
  BY <1>1, <1>2, <1>3, <1>4, <1>5 DEF ServiceCalls, CommandCalls

\* The processes and their homes.
LEMMA Procs ==
  /\ Hup \in Service /\ Main \in Service /\ Cli \in Proc /\ Service \subseteq Proc
  /\ Caller \subseteq Service /\ Hup \in Proc /\ Main \in Proc
  /\ Hup # Main /\ Hup # Cli /\ Main # Cli /\ Cli \notin Service
  /\ Hup \notin Caller /\ Main \notin Caller /\ Cli \notin Caller
  /\ Proc = Service \cup {Cli} /\ Service = Caller \cup {Hup, Main}
  BY CircleConstants DEF Hup, Main, Cli, Service, Proc

LEMMA Homes ==
  ASSUME NEW p \in Proc
  PROVE  /\ Home(p) \in {"service", "cli"}
         /\ p \in Service => Home(p) = "service"
         /\ p = Cli => Home(p) = "cli"
  BY Procs DEF Home

LEMMA Idle == IsCall(Blank) /\ Blank.step = "idle" /\ Blank.kind = "none"
<1>1. /\ Blank.step = "idle" /\ Blank.kind = "none" /\ Blank.on = FALSE /\ Blank.set = FALSE
      /\ Blank.was = FALSE /\ Blank.alone = TRUE /\ Blank.rows = {} /\ Blank.who = {}
  BY DEF Blank
<1>2. Fields(Blank)
  BY DEF Fields, Blank
<1> QED BY <1>1, <1>2 DEF IsCall, CallKinds, StatusSteps

\* A call of p goes from one step to the next.
Moves(p) ==
  /\ call' = [q \in Proc |-> call'[q]]
  /\ \A q \in Proc \ {p} : call'[q] = call[q]
  /\ IsCall(call'[p]) /\ Fits(p, call'[p])
  /\ call[p].step # "idle" /\ call'[p].step # "idle"
  /\ call'[p].kind = call[p].kind /\ call'[p].alone = call[p].alone
  /\ UNCHANGED <<phase, sig, raced, muddled>>

\* A call of p ends.
Ends(p) ==
  /\ p # Main
  /\ call' = [call EXCEPT ![p] = Blank]
  /\ call[p].step # "idle"
  /\ raced' = (raced /\ ~(p = Hup /\ call[p].alone))
  /\ UNCHANGED <<phase, sig, muddled>>

LEMMA EndsCalls ==
  ASSUME Callers, NEW p \in Proc, Ends(p)
  PROVE  /\ call' = [q \in Proc |-> call'[q]]
         /\ \A q \in Proc \ {p} : call'[q] = call[q]
         /\ call'[p].step = "idle" /\ call'[p].kind = "none" /\ IsCall(call'[p])
<1>1. /\ call' = [q \in Proc |-> call'[q]]
      /\ \A q \in Proc \ {p} : call'[q] = call[q]
      /\ call'[p] = Blank
  BY DEF Ends, Callers
<1> QED BY <1>1, Idle

\* A step of a call, or its end, keeps the parts that do not look into the step.
LEMMA MovesShape ==
  ASSUME CircleInv, NEW p \in Proc, Moves(p)
  PROVE  Flags' /\ Callers' /\ Stages' /\ Solo'
<1> USE Procs DEF CircleInv
<1>1. Flags'
  BY DEF Flags, Moves
<1>2. Callers'
  BY DEF Callers, Moves
<1>3. \A q \in Proc : call'[q].step = "idle" <=> call[q].step = "idle"
  BY DEF Moves
<1>4. Stages'
  BY <1>3 DEF Stages, Moves, InCall, At
<1>5. \A q \in Proc : call'[q].alone = call[q].alone
  BY DEF Moves
<1>6. Solo'
  BY <1>3, <1>5 DEF Solo, Alone, Moves, InCall, At
<1> QED BY <1>1, <1>2, <1>4, <1>6

LEMMA EndsShape ==
  ASSUME CircleInv, NEW p \in Proc, Ends(p)
  PROVE  Flags' /\ Callers' /\ Stages' /\ Solo'
<1> USE Procs DEF CircleInv
<1>0. /\ call' = [q \in Proc |-> call'[q]]
      /\ \A q \in Proc \ {p} : call'[q] = call[q]
      /\ call'[p].step = "idle" /\ call'[p].kind = "none" /\ IsCall(call'[p])
  BY EndsCalls
<1>1. Flags'
  BY DEF Flags, Ends
<1>2. Callers'
  <2>1. Fits(p, call'[p])
    BY <1>0 DEF Fits, StatusSteps, Ending
  <2> QED BY <1>0, <2>1 DEF Callers
<1>3. \A q \in Proc : call[q].step = "idle" => call'[q].step = "idle"
  BY <1>0
<1>4. Stages'
  BY <1>0, <1>3 DEF Stages, Ends, InCall, At
<1>5. Alone' => Alone /\ p # Hup
  BY <1>0 DEF Alone, InCall, At
<1>6. ASSUME raced' = raced PROVE Solo'
  <2>1. Alone' => \A q \in Proc \ {Hup} : ~InCall(q)'
    BY <1>3, <1>5 DEF Solo, InCall, At
  <2>2. ~raced' => /\ \A q, r \in Service : q # r => ~InCall(q)' \/ ~InCall(r)'
                   /\ ~InCall(Main)' \/ ~InCall(Cli)'
    BY <1>3, <1>6 DEF Solo, InCall, At
  <2> QED BY <2>1, <2>2 DEF Solo
<1>7. ASSUME p = Hup, call[p].alone PROVE Solo'
  <2>1. \A q \in Proc \ {Hup} : ~InCall(q)
    BY <1>7 DEF Solo, Alone, Ends, InCall, At
  <2>2. \A q \in Proc : ~InCall(q)'
    BY <1>0, <1>7, <2>1 DEF InCall, At
  <2> QED BY <2>2, <1>5, <1>7 DEF Solo, InCall, At
<1> QED
  BY <1>1, <1>2, <1>4, <1>6, <1>7 DEF Ends, Flags

\* What it means for the service to agree with the tables.
LEMMA InTuneMeans ==
  ASSUME Tables
  PROVE  InTune <=> /\ Mem.status = status /\ Mem.setting = setting /\ Mem.entries = vip
                    /\ Mem.over = StoredOver /\ think = setting
<1>1. cache.service = Mem
  BY DEF Tables, Copy, Mem
<1>2. Mem = [status |-> Mem.status, setting |-> Mem.setting, entries |-> Mem.entries,
             over |-> Mem.over]
  BY DEF Tables, Copy, Mem
<1>3. Stored = [status |-> status, setting |-> setting, entries |-> vip,
                over |-> StoredOver]
  BY DEF Stored, StoredOver
<1>4. Mem = Stored <=> /\ Mem.status = status /\ Mem.setting = setting /\ Mem.entries = vip
                       /\ Mem.over = StoredOver
  BY <1>2, <1>3
<1> QED BY <1>1, <1>4 DEF InTune

LEMMA InTuneNext ==
  ASSUME Tables'
  PROVE  InTune' <=> /\ Mem'.status = status' /\ Mem'.setting = setting'
                     /\ Mem'.entries = vip' /\ Mem'.over = StoredOver' /\ think' = setting'
<1>1. (Tables => (InTune <=> /\ Mem.status = status /\ Mem.setting = setting
                             /\ Mem.entries = vip /\ Mem.over = StoredOver
                             /\ think = setting))'
  BY InTuneMeans, PTL
<1> QED BY <1>1

\* When calls have not overlapped, the one in a call is the only one.
LEMMA OnlyCall ==
  ASSUME CircleInv, Steady, NEW p \in Service, InCall(p), NEW q \in Service, q # p
  PROVE  ~InCall(q)
  BY Procs DEF CircleInv, Solo, Steady, Alone

\* The memory of the service, when one of its own calls takes a step or ends.
LEMMA MovesTuned ==
  ASSUME CircleInv, NEW p \in Service, Moves(p), Midway(p) => Midway(p)'
  PROVE  Tuned'
<1> USE Procs
<1> SUFFICES ASSUME phase' # "down", Steady', ~Owed'
             PROVE  /\ (\A q \in Service : ~InCall(q)') => InTune'
                    /\ \A q \in Service : InCall(q)' => Midway(q)'
  BY DEF Tuned
<1>0. InCall(p) /\ InCall(p)'
  BY DEF Moves, InCall, At
<1>1. Steady
  BY DEF Steady, Alone, Moves, InCall, At
<1>2. ~Owed
  BY DEF Owed, Moves, InCall, At
<1>3. Midway(p)'
  BY <1>0, <1>1, <1>2 DEF CircleInv, Tuned, Moves
<1>4. \A q \in Service \ {p} : ~InCall(q)
  BY <1>0, <1>1, OnlyCall
<1>5. \A q \in Service \ {p} : ~InCall(q)'
  BY <1>4 DEF Moves, InCall, At
<1> QED BY <1>0, <1>3, <1>5

LEMMA EndsTuned ==
  ASSUME CircleInv, NEW p \in Service, Ends(p), Midway(p) => InTune'
  PROVE  Tuned'
<1> USE Procs
<1> SUFFICES ASSUME phase' # "down", Steady', ~Owed'
             PROVE  /\ (\A q \in Service : ~InCall(q)') => InTune'
                    /\ \A q \in Service : InCall(q)' => Midway(q)'
  BY DEF Tuned
<1>a. /\ \A q \in Proc \ {p} : call'[q] = call[q]
      /\ call'[p].step = "idle"
  BY EndsCalls DEF CircleInv
<1>0. InCall(p)
  BY DEF Ends, InCall, At
<1>1. Steady
  BY <1>a DEF Steady, Alone, Ends, InCall, At
<1>2. ~Owed
  BY <1>a DEF Owed, Ends, InCall, At
<1>3. InTune'
  BY <1>0, <1>1, <1>2 DEF CircleInv, Tuned, Ends
<1>4. \A q \in Service \ {p} : ~InCall(q)
  BY <1>0, <1>1, OnlyCall
<1>5. \A q \in Service : ~InCall(q)'
  BY <1>4, <1>a DEF InCall, At
<1> QED BY <1>3, <1>5

\* Once a command has written it owes a reload.
LEMMA CliTuned ==
  ASSUME CircleInv, Moves(Cli), call'[Cli].step \notin {"person", "grants"}
  PROVE  Tuned'
<1>1. Owed'
  BY DEF Owed, Moves, InCall, At
<1> QED BY <1>1 DEF Tuned

\* A step that leaves the tables and the service alone.
ServiceSame ==
  /\ UNCHANGED <<status, setting, vip, over, think>>
  /\ Mem' = Mem

LEMMA SameTuned ==
  ASSUME CircleInv, Tables', ServiceSame, Tuned,
         \A p \in Service : call'[p].step = call[p].step,
         \A p \in Service : Midway(p) => Midway(p)',
         phase' # "down" /\ Steady' /\ ~Owed' => phase # "down" /\ Steady /\ ~Owed
  PROVE  Tuned'
<1>0. InTune' <=> /\ Mem'.status = status' /\ Mem'.setting = setting'
                    /\ Mem'.entries = vip' /\ Mem'.over = StoredOver' /\ think' = setting'
  BY InTuneNext
<1>1. InTune => InTune'
  BY <1>0, InTuneMeans DEF CircleInv, ServiceSame, StoredOver
<1>2. \A p \in Service : InCall(p)' <=> InCall(p)
  BY DEF InCall, At
<1> QED BY <1>1, <1>2 DEF Tuned

LEMMA MidwaySame ==
  ASSUME NEW p \in Service, ServiceSame,
         call'[p].step = call[p].step, call'[p].on = call[p].on, call'[p].set = call[p].set,
         call'[p].rows = call[p].rows, call'[p].who = call[p].who
  PROVE  Midway(p)' = Midway(p)
<1>1. TheOne(p)' = TheOne(p)
  BY DEF TheOne
<1>2. StoredOver' = StoredOver
  BY DEF StoredOver, ServiceSame
<1> QED BY <1>1, <1>2 DEF Midway, ServiceSame

\* What the pairing of status and away window says once nothing is muddled.
Pairs ==
  /\ \A p, q \in Proc :
       p # q /\ call[p].kind = "status" => call[q].kind \notin {"status", "reload"}
  /\ \A p \in Proc : call[p].kind = "status" => InStatus(p)
  /\ (\A p \in Proc : call[p].kind # "status") => away = status
  /\ (\A p \in Proc : call[p].kind \notin {"status", "reload"}) /\ ~sig
        /\ phase # "down" => Mem.status = status
  /\ call[Hup].kind = "reload" /\ ~sig => InReload

LEMMA PairsHere == Paired <=> (~muddled => Pairs)
  BY DEF Paired, Pairs

LEMMA PairsNext == Paired' <=> (~muddled' => Pairs')
  BY PairsHere, PTL

StatusSame == \A h \in {"service", "cli"} : cache'[h].status = cache[h].status

LEMMA InStatusSame ==
  ASSUME NEW p \in Proc, StatusSame, status' = status, away' = away,
         call'[p].step = call[p].step, call'[p].on = call[p].on,
         call'[p].was = call[p].was
  PROVE  InStatus(p)' = InStatus(p)
  BY Homes DEF InStatus, StatusSame

\* A step of a call that is no status change.
LEMMA MovesPaired ==
  ASSUME CircleInv, NEW p \in Proc, Moves(p), call[p].kind # "status",
         status' = status, away' = away,
         p # Hup => StatusSame,
         p = Hup => (InReload => InReload')
  PROVE  Paired'
<1> USE Procs
<1> SUFFICES ASSUME ~muddled' PROVE Pairs'
  BY PairsNext
<1>1. Pairs /\ call[Hup].kind \in {"none", "reload"}
  BY PairsHere DEF Moves, CircleInv, Callers, Fits
<1>2. \A q \in Proc : call'[q].kind = call[q].kind
  BY DEF Moves
<1>3. \A r, q \in Proc :
        r # q /\ call'[r].kind = "status" => call'[q].kind \notin {"status", "reload"}
  BY <1>1, <1>2 DEF Pairs
<1>4. ASSUME NEW q \in Proc, call'[q].kind = "status"
      PROVE  InStatus(q)'
  <2>1. q # p /\ call'[q] = call[q] /\ call[q].kind = "status" /\ InStatus(q)
    BY <1>1, <1>2, <1>4 DEF Pairs, Moves
  <2>2. p # Hup
    <3> SUFFICES ASSUME p = Hup PROVE FALSE
      OBVIOUS
    <3>1. call[p].kind = "reload"
      BY <1>1 DEF Moves, CircleInv, Callers, IsCall
    <3> QED BY <1>1, <2>1, <3>1 DEF Pairs
  <2> QED BY <2>1, <2>2, InStatusSame
<1>5. (\A q \in Proc : call'[q].kind # "status") => away' = status'
  BY <1>1, <1>2 DEF Pairs
<1>6. ASSUME \A q \in Proc : call'[q].kind \notin {"status", "reload"}, ~sig', phase' # "down"
      PROVE  Mem'.status = status'
  <2>1. p # Hup
    <3> SUFFICES ASSUME p = Hup PROVE FALSE
      OBVIOUS
    <3>1. call[p].kind = "reload"
      BY <1>1 DEF Moves, CircleInv, Callers, IsCall
    <3> QED BY <1>2, <1>6, <3>1
  <2>2. Mem.status = status
    BY <1>1, <1>2, <1>6 DEF Pairs, Moves
  <2> QED BY <2>1, <2>2 DEF StatusSame, Mem
<1>7. ASSUME call'[Hup].kind = "reload", ~sig'
      PROVE  InReload'
  <2>1. InReload
    BY <1>1, <1>2, <1>7 DEF Pairs, Moves
  <2>2. CASE p = Hup
    BY <2>1, <2>2
  <2>3. CASE p # Hup
    BY <2>1, <2>3 DEF InReload, Moves, StatusSame, Mem
  <2> QED BY <2>2, <2>3
<1> QED BY <1>3, <1>4, <1>5, <1>6, <1>7 DEF Pairs

LEMMA EndsPaired ==
  ASSUME CircleInv, NEW p \in Proc, Ends(p), call[p].kind # "status",
         status' = status, away' = away, StatusSame,
         p = Hup => call[Hup].step \notin {"reread", "reshow"}
  PROVE  Paired'
<1> USE Procs
<1> SUFFICES ASSUME ~muddled' PROVE Pairs'
  BY PairsNext
<1>0. /\ \A q \in Proc \ {p} : call'[q] = call[q]
      /\ call'[p].step = "idle" /\ call'[p].kind = "none"
  BY EndsCalls DEF CircleInv
<1>1. Pairs /\ call[Hup].kind \in {"none", "reload"}
  BY PairsHere DEF Ends, CircleInv, Callers, Fits
<1>2. \A q \in Proc : call'[q].kind \in {call[q].kind, "none"}
  BY <1>0
<1>3. \A r, q \in Proc :
        r # q /\ call'[r].kind = "status" => call'[q].kind \notin {"status", "reload"}
  BY <1>1, <1>2 DEF Pairs
<1>4. ASSUME NEW q \in Proc, call'[q].kind = "status"
      PROVE  InStatus(q)'
  <2>1. q # p /\ call'[q] = call[q] /\ call[q].kind = "status" /\ InStatus(q)
    BY <1>0, <1>1, <1>4 DEF Pairs
  <2> QED BY <2>1, InStatusSame
<1>5. (\A q \in Proc : call'[q].kind # "status") => away' = status'
  BY <1>0, <1>1 DEF Pairs
<1>6. ASSUME \A q \in Proc : call'[q].kind \notin {"status", "reload"}, ~sig', phase' # "down"
      PROVE  Mem'.status = status'
  <2>1. Mem'.status = Mem.status
    BY DEF StatusSame, Mem
  <2>2. CASE p = Hup
    <3>1. call[p].kind = "reload"
      BY <1>1, <2>2 DEF Ends, CircleInv, Callers, IsCall
    <3>2. Mem.status = status
      BY <1>1, <1>6, <2>2, <3>1 DEF Pairs, InReload, Ends
    <3> QED BY <2>1, <3>2
  <2>3. CASE p # Hup
    <3>1. call[p].kind # "reload"
      BY <2>3 DEF CircleInv, Callers, Fits
    <3>2. \A q \in Proc : call[q].kind \notin {"status", "reload"}
      BY <1>0, <1>6, <3>1
    <3>3. Mem.status = status
      BY <1>1, <1>6, <3>2 DEF Pairs, Ends
    <3> QED BY <2>1, <3>3
  <2> QED BY <2>2, <2>3
<1>7. ASSUME call'[Hup].kind = "reload", ~sig'
      PROVE  InReload'
  <2>1. p # Hup /\ call'[Hup] = call[Hup]
    BY <1>0, <1>7
  <2>2. InReload
    BY <1>1, <1>7, <2>1 DEF Pairs, Ends
  <2> QED BY <2>1, <2>2 DEF InReload, StatusSame, Mem
<1> QED BY <1>3, <1>4, <1>5, <1>6, <1>7 DEF Pairs

\* A step of a status change.
LEMMA MovesStatus ==
  ASSUME CircleInv, NEW p \in Proc, Moves(p), call[p].kind = "status",
         InStatus(p) => InStatus(p)'
  PROVE  Paired'
<1> USE Procs
<1> SUFFICES ASSUME ~muddled' PROVE Pairs'
  BY PairsNext
<1>1. Pairs
  BY PairsHere DEF Moves, CircleInv
<1>2. \A q \in Proc : call'[q].kind = call[q].kind
  BY DEF Moves
<1>3. \A r, q \in Proc :
        r # q /\ call'[r].kind = "status" => call'[q].kind \notin {"status", "reload"}
  BY <1>1, <1>2 DEF Pairs
<1>4. InStatus(p)'
  BY <1>1 DEF Pairs
<1>5. \A q \in Proc \ {p} : call'[q].kind \notin {"status", "reload"}
  BY <1>1, <1>2 DEF Pairs
<1>6. call'[p].kind = "status" /\ call'[Hup].kind # "reload"
  BY <1>2, <1>5 
<1> QED BY <1>3, <1>4, <1>5, <1>6 DEF Pairs

LEMMA EndsStatus ==
  ASSUME CircleInv, NEW p \in Proc, Ends(p), call[p].kind = "status",
         InStatus(p) => away' = status' /\ (~sig' /\ phase' # "down" => Mem'.status = status')
  PROVE  Paired'
<1> USE Procs
<1> SUFFICES ASSUME ~muddled' PROVE Pairs'
  BY PairsNext
<1>0. /\ \A q \in Proc \ {p} : call'[q] = call[q]
      /\ call'[p].step = "idle" /\ call'[p].kind = "none"
  BY EndsCalls DEF CircleInv
<1>1. Pairs
  BY PairsHere DEF Ends, CircleInv
<1>2. \A q \in Proc : call'[q].kind \notin {"status", "reload"}
  BY <1>0, <1>1 DEF Pairs
<1>3. away' = status' /\ (~sig' /\ phase' # "down" => Mem'.status = status')
  BY <1>1 DEF Pairs
<1> QED BY <1>2, <1>3 DEF Pairs

\* The steps that a call of kind k may be at in process p.
Allowed(p, k, s) ==
  /\ s # "idle"
  /\ s \in StatusSteps => k = "status"
  /\ k = "status" => s \in StatusSteps \cup Ending
  /\ p = Hup => s \in {"reread", "reshow", "tell"} \cup Loading
  /\ p = Main => s \in {"pidfile", "listen"} \cup StatusSteps
  /\ p \in Caller => s \notin Ending
  /\ p = Cli => s \notin {"pidfile", "listen"}

LEMMA Moving ==
  ASSUME CircleInv, NEW p \in Proc, call[p].step # "idle",
         call' = [q \in Proc |-> call'[q]],
         \A q \in Proc \ {p} : call'[q] = call[q],
         Fields(call'[p]), call'[p].kind = call[p].kind, call'[p].alone = call[p].alone,
         call'[p].on \in BOOLEAN, call'[p].set \in BOOLEAN, call'[p].was \in BOOLEAN,
         call'[p].rows \subseteq Person, call'[p].who \subseteq Person,
         Allowed(p, call[p].kind, call'[p].step),
         UNCHANGED <<phase, sig, raced, muddled>>
  PROVE  Moves(p)
<1>1. IsCall(call[p]) /\ Fits(p, call[p])
  BY DEF CircleInv, Callers
<1>2. IsCall(call'[p])
  BY <1>1 DEF IsCall, Allowed
<1>3. Fits(p, call'[p])
  BY <1>1 DEF Fits, Allowed
<1> QED BY <1>2, <1>3 DEF Moves, Allowed

LEMMA Goes ==
  ASSUME Callers, NEW p \in Proc, NEW s, Go(p, s)
  PROVE  /\ call' = [q \in Proc |-> call'[q]]
         /\ \A q \in Proc \ {p} : call'[q] = call[q]
         /\ Fields(call'[p]) /\ call'[p].step = s /\ Alike(call[p], call'[p])
<1> DEFINE c == call[p]
<1>1. /\ call' = [q \in Proc |-> call'[q]]
      /\ \A q \in Proc \ {p} : call'[q] = call[q]
      /\ call'[p] = [c EXCEPT !.step = s]
  BY DEF Go, Callers
<1>2. Fields(c)
  BY DEF Callers, IsCall
<1>3. LET d == [c EXCEPT !.step = s] IN Fields(d) /\ d.step = s /\ Alike(c, d)
  BY <1>2, StepSet
<1>4. Fields(call'[p]) /\ call'[p].step = s /\ Alike(c, call'[p])
  BY <1>1, <1>3, Zenon
<1> QED BY <1>1, <1>4

LEMMA GoMoves ==
  ASSUME CircleInv, NEW p \in Proc, NEW s, Go(p, s), call[p].step # "idle",
         Allowed(p, call[p].kind, s), UNCHANGED <<phase, sig, raced, muddled>>
  PROVE  Moves(p) /\ call'[p].step = s /\ Alike(call[p], call'[p])
<1>1. /\ call' = [q \in Proc |-> call'[q]]
      /\ \A q \in Proc \ {p} : call'[q] = call[q]
      /\ Fields(call'[p]) /\ call'[p].step = s /\ Alike(call[p], call'[p])
  BY Goes DEF CircleInv
<1>2. /\ call[p].on \in BOOLEAN /\ call[p].set \in BOOLEAN /\ call[p].was \in BOOLEAN
      /\ call[p].rows \subseteq Person /\ call[p].who \subseteq Person
  BY DEF CircleInv, Callers, IsCall
<1>3. /\ call'[p].on \in BOOLEAN /\ call'[p].set \in BOOLEAN /\ call'[p].was \in BOOLEAN
      /\ call'[p].rows \subseteq Person /\ call'[p].who \subseteq Person
      /\ call'[p].kind = call[p].kind /\ call'[p].alone = call[p].alone
  BY <1>1, <1>2 DEF Alike
<1>4. Moves(p)
  BY <1>1, <1>3, Moving
<1> QED BY <1>1, <1>4

LEMMA EndCases ==
  ASSUME CircleInv, NEW p \in Proc, End(p), call[p].step # "idle",
         UNCHANGED <<phase, sig>>
  PROVE  \/ p \in Caller \cup {Hup} /\ Ends(p)
         \/ /\ p = Cli /\ Moves(p) /\ call'[p].step = "signal"
            /\ Alike(call[p], call'[p])
         \/ /\ p = Main /\ Moves(p) /\ call'[p].step = "pidfile"
            /\ Alike(call[p], call'[p])
<1> USE Procs
<1>1. CASE p = Cli
  <2>1. Go(p, "signal") /\ raced' = raced /\ muddled' = muddled
    BY <1>1 DEF End, CircleInv, Flags
  <2>2. Allowed(p, call[p].kind, "signal")
    BY <1>1 DEF Allowed, StatusSteps, Ending
  <2> QED BY <1>1, <2>1, <2>2, GoMoves
<1>2. CASE p = Main
  <2>1. Go(p, "pidfile") /\ raced' = raced /\ muddled' = muddled
    BY <1>2 DEF End, CircleInv, Flags
  <2>2. Allowed(p, call[p].kind, "pidfile")
    BY <1>2 DEF Allowed, StatusSteps, Ending
  <2> QED BY <1>2, <2>1, <2>2, GoMoves
<1>3. CASE p \in Caller \cup {Hup}
  BY <1>3 DEF End, Ends
<1> QED BY <1>1, <1>2, <1>3

\* One field of one memory is shown.
LEMMA StatusShown ==
  ASSUME NEW p \in Proc, Tables, NEW v, v \in BOOLEAN, Show(p, "status", v)
  PROVE  /\ cache' \in [{"service", "cli"} -> Copy]
         /\ cache'[Home(p)].status = v
         /\ cache'[Home(p)].setting = cache[Home(p)].setting
         /\ cache'[Home(p)].entries = cache[Home(p)].entries
         /\ cache'[Home(p)].over = cache[Home(p)].over
         /\ \A h \in {"service", "cli"} \ {Home(p)} : cache'[h] = cache[h]
  BY DEF Tables, Copy, Show, Home

LEMMA SettingShown ==
  ASSUME NEW p \in Proc, Tables, NEW v, v \in BOOLEAN, Show(p, "setting", v)
  PROVE  /\ cache' \in [{"service", "cli"} -> Copy]
         /\ cache'[Home(p)].status = cache[Home(p)].status
         /\ cache'[Home(p)].setting = v
         /\ cache'[Home(p)].entries = cache[Home(p)].entries
         /\ cache'[Home(p)].over = cache[Home(p)].over
         /\ \A h \in {"service", "cli"} \ {Home(p)} : cache'[h] = cache[h]
  BY DEF Tables, Copy, Show, Home

LEMMA OverShown ==
  ASSUME NEW p \in Proc, Tables, NEW v, v \in [Person -> BOOLEAN \cup {None}], Show(p, "over", v)
  PROVE  /\ cache' \in [{"service", "cli"} -> Copy]
         /\ cache'[Home(p)].status = cache[Home(p)].status
         /\ cache'[Home(p)].setting = cache[Home(p)].setting
         /\ cache'[Home(p)].entries = cache[Home(p)].entries
         /\ cache'[Home(p)].over = v
         /\ \A h \in {"service", "cli"} \ {Home(p)} : cache'[h] = cache[h]
  BY DEF Tables, Copy, Show, Home

\* Where the step p is at places it.
LEMMA Placed ==
  ASSUME CircleInv, NEW p \in Proc
  PROVE  /\ IsCall(call[p]) /\ Fits(p, call[p]) /\ Fields(call[p])
         /\ call[p].on \in BOOLEAN /\ call[p].set \in BOOLEAN /\ call[p].was \in BOOLEAN
         /\ call[p].rows \subseteq Person /\ call[p].who \subseteq Person
  BY DEF CircleInv, Callers, IsCall

\* SetStatus.
LEMMA ReadStatusKeeps ==
  ASSUME CircleInv, NEW p \in Proc, ReadStatus(p)
  PROVE  CircleInv'
<1> USE Procs, Homes
<1> DEFINE c == call[p]
<1>0. At(p, "status") /\ UNCHANGED <<tables, cache, memory, phase, sig, raced, muddled>>
  BY DEF ReadStatus
<1>1. /\ call' = [q \in Proc |-> call'[q]]
      /\ \A q \in Proc \ {p} : call'[q] = call[q]
      /\ call'[p] = WithWas(c, "set", Mine(p).status)
  BY DEF WithWas, ReadStatus, CircleInv, Callers
<1>a. Fields(c)
  BY Placed
<1>2. LET d == WithWas(c, "set", Mine(p).status)
      IN  /\ Fields(d) /\ d.step = "set" /\ d.was = Mine(p).status
          /\ d.kind = c.kind /\ d.on = c.on /\ d.set = c.set /\ d.rows = c.rows
          /\ d.alone = c.alone /\ d.who = c.who
  BY <1>a, StepAndWas
<1>3. /\ Fields(call'[p]) /\ call'[p].step = "set" /\ call'[p].was = Mine(p).status
      /\ call'[p].kind = c.kind /\ call'[p].on = c.on /\ call'[p].set = c.set
      /\ call'[p].rows = c.rows /\ call'[p].alone = c.alone /\ call'[p].who = c.who
  BY <1>1, <1>2, Zenon
<1>4. Tables'
  BY <1>0 DEF CircleInv, Tables, tables, memory
<1>5. Mine(p).status \in BOOLEAN
  BY DEF Mine, CircleInv, Tables, Copy
<1>6. Allowed(p, c.kind, "set") /\ c.kind = "status" /\ p # Hup
  BY <1>0, Placed DEF At, Fits, IsCall, Allowed, StatusSteps, Ending, Loading
<1>7. Moves(p)
  BY <1>0, <1>1, <1>3, <1>5, <1>6, Placed, Moving DEF At
<1>8. ASSUME p \in Service PROVE Tuned'
  <2>1. Midway(p) => Midway(p)'
    BY <1>0, <1>3, <1>8
      DEF Midway, At, tables, memory, Mem, StoredOver, Refilling, Loading, Striking
  <2> QED BY <1>7, <1>8, <2>1, MovesTuned
<1>9. ASSUME p = Cli PROVE Tuned'
  BY <1>3, <1>7, <1>9, CliTuned
<1>10. Paired'
  <2>1. InStatus(p) => InStatus(p)'
    BY <1>0, <1>3 DEF InStatus, At, tables, Mine, Ending
  <2> QED BY <1>6, <1>7, <2>1, MovesStatus
<1> QED BY <1>4, <1>7, <1>8, <1>9, <1>10, MovesShape DEF CircleInv

LEMMA SetRowKeeps ==
  ASSUME CircleInv, NEW p \in Proc, SetRow(p)
  PROVE  CircleInv'
<1> USE Procs, Homes
<1>0. /\ At(p, "set") /\ Go(p, "wipe") /\ status' = call[p].on
      /\ UNCHANGED <<away, setting, vip, over, cache, think, phase, sig, raced, muddled>>
  BY DEF SetRow, Onward, memory
<1>1. Tables'
  BY <1>0, Placed DEF CircleInv, Tables
<1>2. Allowed(p, call[p].kind, "wipe") /\ call[p].kind = "status"
  BY <1>0, Placed DEF At, Fits, IsCall, Allowed, StatusSteps, Ending, Loading
<1>3. Moves(p) /\ call'[p].step = "wipe" /\ Alike(call[p], call'[p])
  BY <1>0, <1>2, GoMoves DEF At
<1>4. ASSUME p \in Service PROVE Tuned'
  <2>1. Midway(p) => Midway(p)'
    BY <1>0, <1>3, <1>4 DEF Midway, At, Alike, Mem, StoredOver, Refilling, Loading, Striking
  <2> QED BY <1>3, <1>4, <2>1, MovesTuned
<1>5. ASSUME p = Cli PROVE Tuned'
  BY <1>3, <1>5, CliTuned
<1>6. Paired'
  <2>1. InStatus(p) => InStatus(p)'
    BY <1>0, <1>3 DEF InStatus, At, Alike, Ending
  <2> QED BY <1>2, <1>3, <2>1, MovesStatus
<1> QED BY <1>1, <1>3, <1>4, <1>5, <1>6, MovesShape DEF CircleInv

LEMMA ClearAllEnabledKeeps ==
  ASSUME CircleInv, NEW p \in Proc, ClearAllEnabled(p)
  PROVE  CircleInv'
<1> USE Procs, Homes
<1>0. /\ At(p, "wipe") /\ Go(p, "forget")
      /\ over' = NoOverride
      /\ UNCHANGED <<status, away, setting, vip, cache, think, phase, sig, raced, muddled>>
  BY DEF ClearAllEnabled, Onward, memory
<1>1. Tables'
  BY <1>0 DEF CircleInv, Tables, NoOverride
<1>2. Allowed(p, call[p].kind, "forget") /\ call[p].kind = "status"
  BY <1>0, Placed DEF At, Fits, IsCall, Allowed, StatusSteps, Ending, Loading
<1>3. Moves(p) /\ call'[p].step = "forget" /\ Alike(call[p], call'[p])
  BY <1>0, <1>2, GoMoves DEF At
<1>4. ASSUME p \in Service PROVE Tuned'
  <2>1. Midway(p) => Midway(p)'
    BY <1>0, <1>3, <1>4 DEF Midway, At, Alike, Mem, StoredOver, Refilling, Loading, Striking
  <2> QED BY <1>3, <1>4, <2>1, MovesTuned
<1>5. ASSUME p = Cli PROVE Tuned'
  BY <1>3, <1>5, CliTuned
<1>6. Paired'
  <2>1. InStatus(p) => InStatus(p)'
    BY <1>0, <1>3 DEF InStatus, At, Alike, Ending
  <2> QED BY <1>2, <1>3, <2>1, MovesStatus
<1> QED BY <1>1, <1>3, <1>4, <1>5, <1>6, MovesShape DEF CircleInv

LEMMA ForgetOverridesKeeps ==
  ASSUME CircleInv, NEW p \in Proc, ForgetOverrides(p)
  PROVE  CircleInv'
<1> USE Procs, Homes
<1>0. /\ At(p, "forget") /\ Go(p, "show")
      /\ Show(p, "over", NoOverride)
      /\ UNCHANGED <<status, away, setting, vip, over, think, phase, sig, raced, muddled>>
  BY DEF ForgetOverrides, Onward, memory, tables
<1>1. Tables'
  <2>1. NoOverride \in [Person -> BOOLEAN \cup {None}]
    BY DEF NoOverride
  <2>2. cache' \in [{"service", "cli"} -> Copy]
    BY <1>0, <2>1, OverShown DEF CircleInv
  <2> QED BY <1>0, <2>2 DEF CircleInv, Tables
<1>2. Allowed(p, call[p].kind, "show") /\ call[p].kind = "status"
  BY <1>0, Placed DEF At, Fits, IsCall, Allowed, StatusSteps, Ending, Loading
<1>3. Moves(p) /\ call'[p].step = "show" /\ Alike(call[p], call'[p])
  BY <1>0, <1>2, GoMoves DEF At
<1>4. ASSUME p \in Service PROVE Tuned'
  <2>0. /\ Mem'.status = Mem.status /\ Mem'.setting = Mem.setting
        /\ Mem'.entries = Mem.entries /\ Mem'.over = NoOverride
    <3>1. NoOverride \in [Person -> BOOLEAN \cup {None}]
      BY DEF NoOverride
    <3> QED BY <1>0, <1>4, <3>1, OverShown DEF CircleInv, Mem
  <2>2. over = NoOverride => StoredOver = NoOverride
    BY DEF StoredOver, NoOverride
  <2>1. Midway(p) => Midway(p)'
    BY <1>0, <1>3, <1>4, <2>0, <2>2
      DEF Midway, At, Alike, StoredOver, Refilling, Loading, Striking
  <2> QED BY <1>3, <1>4, <2>1, MovesTuned
<1>5. ASSUME p = Cli PROVE Tuned'
  BY <1>3, <1>5, CliTuned
<1>6. Paired'
  <2>1. InStatus(p) => InStatus(p)'
    BY <1>0, <1>3 DEF InStatus, At, Alike, Ending
  <2> QED BY <1>2, <1>3, <2>1, MovesStatus
<1> QED BY <1>1, <1>3, <1>4, <1>5, <1>6, MovesShape DEF CircleInv

LEMMA ShowStatusKeeps ==
  ASSUME CircleInv, NEW p \in Proc, ShowStatus(p)
  PROVE  CircleInv'
<1> USE Procs, Homes
<1>0. /\ At(p, "show") /\ Go(p, "away")
      /\ Show(p, "status", call[p].on)
      /\ UNCHANGED <<status, away, setting, vip, over, think, phase, sig, raced, muddled>>
  BY DEF ShowStatus, Onward, memory, tables
<1>1. Tables'
  <2>1. cache' \in [{"service", "cli"} -> Copy]
    BY <1>0, Placed, StatusShown DEF CircleInv
  <2> QED BY <1>0, <2>1 DEF CircleInv, Tables
<1>2. Allowed(p, call[p].kind, "away") /\ call[p].kind = "status"
  BY <1>0, Placed DEF At, Fits, IsCall, Allowed, StatusSteps, Ending, Loading
<1>3. Moves(p) /\ call'[p].step = "away" /\ Alike(call[p], call'[p])
  BY <1>0, <1>2, GoMoves DEF At
<1>4. ASSUME p \in Service PROVE Tuned'
  <2>0. /\ Mem'.status = call[p].on /\ Mem'.setting = Mem.setting
        /\ Mem'.entries = Mem.entries /\ Mem'.over = Mem.over
    BY <1>0, <1>4, Placed, StatusShown DEF CircleInv, Mem
  <2>1. Midway(p) => Midway(p)'
    BY <1>0, <1>3, <1>4, <2>0
      DEF Midway, At, Alike, StoredOver, Refilling, Loading, Striking
  <2> QED BY <1>3, <1>4, <2>1, MovesTuned
<1>5. ASSUME p = Cli PROVE Tuned'
  BY <1>3, <1>5, CliTuned
<1>6. Paired'
  <2>0. cache'[Home(p)].status = call[p].on
    BY <1>0, Placed, StatusShown DEF CircleInv
  <2>1. InStatus(p) => InStatus(p)'
    BY <1>0, <1>3, <2>0 DEF InStatus, At, Alike, Ending
  <2> QED BY <1>2, <1>3, <2>1, MovesStatus
<1> QED BY <1>1, <1>3, <1>4, <1>5, <1>6, MovesShape DEF CircleInv

\* A call of the service ends, or the call of App.Run or of the command goes on.
LEMMA EndShape ==
  ASSUME CircleInv, NEW p \in Proc, End(p), call[p].step # "idle", UNCHANGED <<phase, sig>>
  PROVE  Flags' /\ Callers' /\ Stages' /\ Solo'
  BY Procs, EndCases, MovesShape, EndsShape

LEMMA KeepAwayKeeps ==
  ASSUME CircleInv, NEW p \in Proc, KeepAway(p)
  PROVE  CircleInv'
<1> USE Procs, Homes
<1>0. /\ At(p, "away") /\ End(p)
      /\ away' = AwayWindow(call[p].was, call[p].on, away)
      /\ UNCHANGED <<status, setting, vip, over, cache, think, phase, sig>>
  BY DEF KeepAway
<1>1. Tables'
  <2>1. away' \in BOOLEAN
    BY <1>0, Placed DEF CircleInv, Tables, AwayWindow
  <2> QED BY <1>0, <2>1 DEF CircleInv, Tables
<1>2. call[p].step # "idle" /\ call[p].kind = "status" /\ p # Hup
  BY <1>0, Placed DEF At, Fits, IsCall, StatusSteps, Loading
<1>3. InStatus(p) => away' = status'
  BY <1>0 DEF InStatus, At, AwayWindow
<1>4. CASE p \in Caller /\ Ends(p)
  <2>1. Midway(p) => InTune'
    <3>1. Midway(p) => InTune
      BY <1>0, InTuneMeans DEF CircleInv, Midway, At, Refilling, Loading, Striking
    <3>2. InTune => InTune'
      BY <1>0, <1>1, InTuneMeans, InTuneNext DEF CircleInv, Mem, StoredOver
    <3> QED BY <3>1, <3>2
  <2>2. Tuned'
    BY <1>4, <2>1, EndsTuned
  <2>3. InStatus(p) => Mem'.status = status'
    BY <1>0, <1>4 DEF InStatus, At, Mem
  <2>4. Paired'
    BY <1>2, <1>3, <1>4, <2>3, EndsStatus
  <2> QED BY <1>1, <1>4, <2>2, <2>4, EndsShape DEF CircleInv
<1>5. CASE /\ p = Cli /\ Moves(p) /\ call'[p].step = "signal"
           /\ Alike(call[p], call'[p])
  <2>1. Tuned'
    BY <1>5, CliTuned
  <2>2. InStatus(p) => InStatus(p)'
    BY <1>0, <1>3, <1>5 DEF InStatus, At, Alike, Ending
  <2>3. Paired'
    BY <1>2, <1>5, <2>2, MovesStatus
  <2> QED BY <1>1, <1>5, <2>1, <2>3, MovesShape DEF CircleInv
<1>6. CASE /\ p = Main /\ Moves(p) /\ call'[p].step = "pidfile"
           /\ Alike(call[p], call'[p])
  <2>1. Midway(p) => Midway(p)'
    BY <1>0, <1>6 DEF Midway, At, Alike, Mem, StoredOver, Refilling, Loading, Striking
  <2>2. Tuned'
    BY <1>6, <2>1, MovesTuned
  <2>3. InStatus(p) => InStatus(p)'
    BY <1>0, <1>3, <1>6 DEF InStatus, At, Alike, Ending
  <2>4. Paired'
    BY <1>2, <1>6, <2>3, MovesStatus
  <2> QED BY <1>1, <1>6, <2>2, <2>4, MovesShape DEF CircleInv
<1> QED
  BY <1>0, <1>2, <1>4, <1>5, <1>6, EndCases

\* A scalar setting, and the strikes of a deletion.
LEMMA StoreSettingKeeps ==
  ASSUME CircleInv, NEW p \in Proc, StoreSetting(p)
  PROVE  CircleInv'
<1> USE Procs, Homes
<1>0. /\ At(p, "put") /\ Go(p, "publish")
      /\ setting' = call[p].set
      /\ UNCHANGED <<status, away, vip, over, cache, think, phase, sig, raced, muddled>>
  BY DEF StoreSetting, Onward, memory
<1>1. Tables'
  BY <1>0, Placed DEF CircleInv, Tables
<1>2. Allowed(p, call[p].kind, "publish") /\ call[p].kind # "status" /\ p # Hup
  BY <1>0, Placed DEF At, Fits, IsCall, Allowed, StatusSteps, Ending, Loading
<1>3. Moves(p) /\ call'[p].step = "publish" /\ Alike(call[p], call'[p])
  BY <1>0, <1>2, GoMoves DEF At
<1>4. ASSUME p \in Service PROVE Tuned'
  <2>1. Midway(p) => Midway(p)'
    BY <1>0, <1>3, <1>4 DEF Midway, At, Alike, Mem, StoredOver, Refilling, Loading, Striking
  <2> QED BY <1>3, <1>4, <2>1, MovesTuned
<1>5. ASSUME p = Cli PROVE Tuned'
  BY <1>3, <1>5, CliTuned
<1>6. Paired'
  <2>1. StatusSame
    BY <1>0 DEF StatusSame
  <2>2. p = Hup => (InReload => InReload')
    BY <1>2
  <2> QED BY <1>0, <1>2, <1>3, <2>1, <2>2, MovesPaired
<1> QED BY <1>1, <1>3, <1>4, <1>5, <1>6, MovesShape DEF CircleInv

LEMMA ShowSettingKeeps ==
  ASSUME CircleInv, NEW p \in Proc, ShowSetting(p)
  PROVE  CircleInv'
<1> USE Procs, Homes
<1>0. /\ At(p, "publish") /\ Go(p, "tell")
      /\ Show(p, "setting", call[p].set)
      /\ UNCHANGED <<status, away, setting, vip, over, think, phase, sig, raced, muddled>>
  BY DEF ShowSetting, Onward, memory, tables
<1>1. Tables'
  <2>1. cache' \in [{"service", "cli"} -> Copy]
    BY <1>0, Placed, SettingShown DEF CircleInv
  <2> QED BY <1>0, <2>1 DEF CircleInv, Tables
<1>2. Allowed(p, call[p].kind, "tell") /\ call[p].kind # "status" /\ p # Hup
  BY <1>0, Placed DEF At, Fits, IsCall, Allowed, StatusSteps, Ending, Loading
<1>3. Moves(p) /\ call'[p].step = "tell" /\ Alike(call[p], call'[p])
  BY <1>0, <1>2, GoMoves DEF At
<1>4. ASSUME p \in Service PROVE Tuned'
  <2>0. /\ Mem'.status = Mem.status /\ Mem'.setting = call[p].set
        /\ Mem'.entries = Mem.entries /\ Mem'.over = Mem.over
    BY <1>0, <1>4, Placed, SettingShown DEF CircleInv, Mem
  <2>1. Midway(p) => Midway(p)'
    BY <1>0, <1>3, <1>4, <2>0
      DEF Midway, At, Alike, StoredOver, Refilling, Loading, Striking
  <2> QED BY <1>3, <1>4, <2>1, MovesTuned
<1>5. ASSUME p = Cli PROVE Tuned'
  BY <1>3, <1>5, CliTuned
<1>6. Paired'
  <2>1. StatusSame
    BY <1>0, Placed, SettingShown DEF CircleInv, StatusSame
  <2>2. p = Hup => (InReload => InReload')
    BY <1>2
  <2> QED BY <1>0, <1>2, <1>3, <2>1, <2>2, MovesPaired
<1> QED BY <1>1, <1>3, <1>4, <1>5, <1>6, MovesShape DEF CircleInv

LEMMA StrikeMemberKeeps ==
  ASSUME CircleInv, NEW p \in Proc, StrikeMember(p)
  PROVE  CircleInv'
<1> USE Procs, Homes
<1>0. /\ At(p, "strike") /\ Go(p, "strike access")
      /\ vip' = vip \ call[p].who
      /\ UNCHANGED <<status, away, setting, over, cache, think, phase, sig, raced, muddled>>
  BY DEF StrikeMember, Onward, memory
<1>1. Tables'
  BY <1>0 DEF CircleInv, Tables
<1>2. Allowed(p, call[p].kind, "strike access") /\ call[p].kind # "status" /\ p # Hup
  BY <1>0, Placed DEF At, Fits, IsCall, Allowed, StatusSteps, Ending, Loading
<1>3. Moves(p) /\ call'[p].step = "strike access" /\ Alike(call[p], call'[p])
  BY <1>0, <1>2, GoMoves DEF At
<1>4. ASSUME p \in Service PROVE Tuned'
  <2>1. Midway(p) => Midway(p)'
    BY <1>0, <1>3, <1>4 DEF Midway, At, Alike, Mem, StoredOver, Refilling, Loading, Striking
  <2> QED BY <1>3, <1>4, <2>1, MovesTuned
<1>5. ASSUME p = Cli PROVE Tuned'
  BY <1>3, <1>5, CliTuned
<1>6. Paired'
  <2>1. StatusSame
    BY <1>0 DEF StatusSame
  <2>2. p = Hup => (InReload => InReload')
    BY <1>2
  <2> QED BY <1>0, <1>2, <1>3, <2>1, <2>2, MovesPaired
<1> QED BY <1>1, <1>3, <1>4, <1>5, <1>6, MovesShape DEF CircleInv

LEMMA StrikeAccessKeeps ==
  ASSUME CircleInv, NEW p \in Proc, StrikeAccess(p)
  PROVE  CircleInv'
<1> USE Procs, Homes
<1>0. /\ At(p, "strike access") /\ Go(p, "strike status")
      /\ UNCHANGED <<status, away, setting, vip, over, cache, think, phase, sig, raced,
                     muddled>>
  BY DEF StrikeAccess, Onward, memory
<1>1. Tables'
  BY <1>0 DEF CircleInv, Tables
<1>2. Allowed(p, call[p].kind, "strike status") /\ call[p].kind # "status" /\ p # Hup
  BY <1>0, Placed DEF At, Fits, IsCall, Allowed, StatusSteps, Ending, Loading
<1>3. Moves(p) /\ call'[p].step = "strike status" /\ Alike(call[p], call'[p])
  BY <1>0, <1>2, GoMoves DEF At
<1>4. ASSUME p \in Service PROVE Tuned'
  <2>1. Midway(p) => Midway(p)'
    BY <1>0, <1>3, <1>4 DEF Midway, At, Alike, Mem, StoredOver, Refilling, Loading, Striking
  <2> QED BY <1>3, <1>4, <2>1, MovesTuned
<1>5. ASSUME p = Cli PROVE Tuned'
  BY <1>3, <1>5, CliTuned
<1>6. Paired'
  <2>1. StatusSame
    BY <1>0 DEF StatusSame
  <2>2. p = Hup => (InReload => InReload')
    BY <1>2
  <2> QED BY <1>0, <1>2, <1>3, <2>1, <2>2, MovesPaired
<1> QED BY <1>1, <1>3, <1>4, <1>5, <1>6, MovesShape DEF CircleInv

LEMMA StrikeStatusKeeps ==
  ASSUME CircleInv, NEW p \in Proc, StrikeStatus(p)
  PROVE  CircleInv'
<1> USE Procs, Homes
<1>0. /\ At(p, "strike status") /\ Go(p, "all")
      /\ over' = [j \in Person |-> IF j \in call[p].who THEN None ELSE over[j]]
      /\ UNCHANGED <<status, away, setting, vip, cache, think, phase, sig, raced, muddled>>
  BY DEF StrikeStatus, Onward, memory
<1>1. Tables'
  BY <1>0 DEF CircleInv, Tables
<1>2. Allowed(p, call[p].kind, "all") /\ call[p].kind # "status" /\ p # Hup
  BY <1>0, Placed DEF At, Fits, IsCall, Allowed, StatusSteps, Ending, Loading
<1>3. Moves(p) /\ call'[p].step = "all" /\ Alike(call[p], call'[p])
  BY <1>0, <1>2, GoMoves DEF At
<1>4. ASSUME p \in Service PROVE Tuned'
  <2>1. Midway(p) => Midway(p)'
    BY <1>0, <1>3, <1>4 DEF Midway, At, Alike, Mem, StoredOver, Refilling, Loading, Striking
  <2> QED BY <1>3, <1>4, <2>1, MovesTuned
<1>5. ASSUME p = Cli PROVE Tuned'
  BY <1>3, <1>5, CliTuned
<1>6. Paired'
  <2>1. StatusSame
    BY <1>0 DEF StatusSame
  <2>2. p = Hup => (InReload => InReload')
    BY <1>2
  <2> QED BY <1>0, <1>2, <1>3, <2>1, <2>2, MovesPaired
<1> QED BY <1>1, <1>3, <1>4, <1>5, <1>6, MovesShape DEF CircleInv

\* The last steps of calls.
LEMMA StoreGrantsKeeps ==
  ASSUME CircleInv, NEW p \in Proc, StoreGrants(p)
  PROVE  CircleInv'
<1> USE Procs, Homes
<1>0. /\ At(p, "store") /\ End(p)
      /\ UNCHANGED <<status, away, setting, vip, over, cache, think, phase, sig>>
  BY DEF StoreGrants, memory
<1>1. Tables'
  BY <1>0 DEF CircleInv, Tables
<1>2. /\ call[p].step # "idle" /\ call[p].kind # "status" /\ p # Main
      /\ call[p].step \notin {"reread", "reshow"}
  BY <1>0, Placed DEF At, Fits, IsCall, StatusSteps, Ending, Loading
<1>3. StatusSame
    BY <1>0 DEF StatusSame
<1>4. CASE p \in Caller \cup {Hup} /\ Ends(p)
  <2>1. Midway(p) => InTune'
    <3>1. Midway(p) => InTune
      BY <1>0, InTuneMeans DEF CircleInv, Midway, At, Refilling, Loading, Striking
    <3>2. InTune => InTune'
      BY <1>0, <1>1, InTuneMeans, InTuneNext DEF CircleInv, Mem, StoredOver
    <3> QED BY <3>1, <3>2
  <2>2. Tuned'
    BY <1>4, <2>1, EndsTuned
  <2>3. Paired'
    BY <1>0, <1>2, <1>3, <1>4, EndsPaired
  <2> QED BY <1>1, <1>4, <2>2, <2>3, EndsShape DEF CircleInv
<1>5. CASE /\ p = Cli /\ Moves(p) /\ call'[p].step = "signal"
           /\ Alike(call[p], call'[p])
  <2>1. Tuned'
    BY <1>5, CliTuned
  <2>2. Paired'
    BY <1>0, <1>2, <1>3, <1>5, MovesPaired
  <2> QED BY <1>1, <1>5, <2>1, <2>2, MovesShape DEF CircleInv
<1> QED
  BY <1>0, <1>2, <1>4, <1>5, EndCases

LEMMA LoadedKeeps ==
  ASSUME CircleInv, NEW p \in Proc, Loaded(p)
  PROVE  CircleInv'
<1> USE Procs, Homes
<1>0. /\ At(p, "fill") /\ End(p)
      /\ call[p].rows = {}
      /\ UNCHANGED <<status, away, setting, vip, over, cache, think, phase, sig>>
  BY DEF Loaded, memory, tables
<1>1. Tables'
  BY <1>0 DEF CircleInv, Tables
<1>2. /\ call[p].step # "idle" /\ call[p].kind # "status" /\ p # Main
      /\ call[p].step \notin {"reread", "reshow"}
  BY <1>0, Placed DEF At, Fits, IsCall, StatusSteps, Ending, Loading
<1>3. StatusSame
    BY <1>0 DEF StatusSame
<1>4. CASE p \in Caller \cup {Hup} /\ Ends(p)
  <2>1. Midway(p) => InTune'
    <3>1. Midway(p) => InTune
      BY <1>0, InTuneMeans
        DEF CircleInv, Midway, At, Refilling, Loading, Striking, StoredOver
    <3>2. InTune => InTune'
      BY <1>0, <1>1, InTuneMeans, InTuneNext DEF CircleInv, Mem, StoredOver
    <3> QED BY <3>1, <3>2
  <2>2. Tuned'
    BY <1>4, <2>1, EndsTuned
  <2>3. Paired'
    BY <1>0, <1>2, <1>3, <1>4, EndsPaired
  <2> QED BY <1>1, <1>4, <2>2, <2>3, EndsShape DEF CircleInv
<1>5. CASE /\ p = Cli /\ Moves(p) /\ call'[p].step = "signal"
           /\ Alike(call[p], call'[p])
  <2>1. Tuned'
    BY <1>5, CliTuned
  <2>2. Paired'
    BY <1>0, <1>2, <1>3, <1>5, MovesPaired
  <2> QED BY <1>1, <1>5, <2>1, <2>2, MovesShape DEF CircleInv
<1> QED
  BY <1>0, <1>2, <1>4, <1>5, EndCases

LEMMA ApplyTyped ==
  ASSUME CircleInv, NEW p \in Proc
  PROVE  [Mine(p).over EXCEPT ![TheOne(p)] = call[p].on]
           \in [Person -> BOOLEAN \cup {None}]
<1>1. Mine(p).over \in [Person -> BOOLEAN \cup {None}]
  BY Homes DEF Mine, CircleInv, Tables, Copy
<1>2. call[p].on \in BOOLEAN \cup {None}
  BY Placed
<1> QED BY <1>1, <1>2

LEMMA ApplyOverrideKeeps ==
  ASSUME CircleInv, NEW p \in Proc, ApplyOverride(p)
  PROVE  CircleInv'
<1> USE Procs, Homes
<1>0. /\ At(p, "apply") /\ End(p)
      /\ Show(p, "over", [Mine(p).over EXCEPT ![TheOne(p)] = call[p].on])
      /\ UNCHANGED <<status, away, setting, vip, over, think, phase, sig>>
  BY DEF ApplyOverride, memory, tables
<1>1. Tables'
  <2>1. cache' \in [{"service", "cli"} -> Copy]
    BY <1>0, ApplyTyped, OverShown DEF CircleInv
  <2> QED BY <1>0, <2>1 DEF CircleInv, Tables
<1>2. /\ call[p].step # "idle" /\ call[p].kind # "status" /\ p # Main
      /\ call[p].step \notin {"reread", "reshow"}
  BY <1>0, Placed DEF At, Fits, IsCall, StatusSteps, Ending, Loading
<1>3. StatusSame
    BY <1>0, ApplyTyped, OverShown DEF CircleInv, StatusSame
<1>4. CASE p \in Caller \cup {Hup} /\ Ends(p)
  <2>0. /\ Mem'.status = Mem.status /\ Mem'.setting = Mem.setting
        /\ Mem'.entries = Mem.entries
        /\ Mem'.over = [Mem.over EXCEPT ![TheOne(p)] = call[p].on]
    BY <1>0, <1>4, ApplyTyped, OverShown DEF CircleInv, Mem, Mine
  <2>1. Midway(p) => InTune'
    <3>1. StoredOver' = StoredOver
      BY <1>0 DEF StoredOver
    <3>2. Midway(p) =>
            /\ Mem.status = status /\ Mem.setting = setting /\ Mem.entries = vip
            /\ think = setting
            /\ StoredOver = [Mem.over EXCEPT ![TheOne(p)] = call[p].on]
      BY <1>0 DEF Midway, At, Refilling, Loading, Striking
    <3> QED BY <1>0, <1>1, <2>0, <3>1, <3>2, InTuneNext
  <2>2. Tuned'
    BY <1>4, <2>1, EndsTuned
  <2>3. Paired'
    BY <1>0, <1>2, <1>3, <1>4, EndsPaired
  <2> QED BY <1>1, <1>4, <2>2, <2>3, EndsShape DEF CircleInv
<1>5. CASE /\ p = Cli /\ Moves(p) /\ call'[p].step = "signal"
           /\ Alike(call[p], call'[p])
  <2>1. Tuned'
    BY <1>5, CliTuned
  <2>2. Paired'
    BY <1>0, <1>2, <1>3, <1>5, MovesPaired
  <2> QED BY <1>1, <1>5, <2>1, <2>2, MovesShape DEF CircleInv
<1> QED
  BY <1>0, <1>2, <1>4, <1>5, EndCases

\* A member's own status.
LEMMA FailKeeps ==
  ASSUME CircleInv, NEW p \in Proc, call[p].step \in {"person", "grants"}, Fail(p),
         UNCHANGED <<think, phase, sig>>
  PROVE  CircleInv'
<1> USE Procs, Homes
<1>0. UNCHANGED <<status, away, setting, vip, over, cache, raced, muddled>>
  BY DEF Fail, tables
<1>1. Tables'
  BY <1>0 DEF CircleInv, Tables
<1>2. /\ call[p].step # "idle" /\ call[p].kind # "status" /\ p # Main /\ p # Hup
  BY Placed DEF Fits, IsCall, StatusSteps, Ending, Loading
<1>3. Ends(p)
  BY <1>0, <1>2 DEF Ends, Fail, CircleInv, Flags
<1>4. StatusSame
  BY <1>0 DEF StatusSame
<1>5. Paired'
  BY <1>0, <1>2, <1>3, <1>4, EndsPaired
<1>6. ASSUME p \in Service PROVE Tuned'
  <2>1. Midway(p) => InTune'
    <3>1. Midway(p) => InTune
      BY InTuneMeans DEF CircleInv, Midway, Refilling, Loading, Striking
    <3>2. InTune => InTune'
      BY <1>0, <1>1, InTuneMeans, InTuneNext DEF CircleInv, Mem, StoredOver
    <3> QED BY <3>1, <3>2
  <2> QED BY <1>3, <1>6, <2>1, EndsTuned
<1>7. ASSUME p = Cli PROVE Tuned'
  <2>1. \A q \in Service : call'[q] = call[q]
    BY <1>3, <1>7, EndsCalls DEF CircleInv
  <2>2. ServiceSame
    BY <1>0 DEF ServiceSame, Mem
  <2>3. \A q \in Service : Midway(q) => Midway(q)'
    BY <2>1, <2>2, MidwaySame
  <2>4. phase' # "down" /\ Steady' /\ ~Owed' => phase # "down" /\ Steady /\ ~Owed
    BY <1>0, <1>7, <2>1 DEF Steady, Alone, Owed, InCall, At
  <2> QED BY <1>1, <2>1, <2>2, <2>3, <2>4, SameTuned DEF CircleInv
<1> QED BY <1>1, <1>3, <1>5, <1>6, <1>7, EndsShape DEF CircleInv

LEMMA StoreOverrideKeeps ==
  ASSUME CircleInv, NEW p \in Proc, StoreOverride(p)
  PROVE  CircleInv'
<1> USE Procs, Homes
<1>0. /\ At(p, "person") /\ UNCHANGED <<think, phase, sig>>
      /\ TheOne(p) \notin Mine(p).entries => Fail(p)
      /\ TheOne(p) \in Mine(p).entries =>
           /\ over' = [over EXCEPT ![TheOne(p)] = call[p].on]
           /\ Go(p, "apply")
           /\ UNCHANGED <<status, away, setting, vip, cache, raced, muddled>>
  BY DEF StoreOverride, Onward, memory
<1>1. CASE TheOne(p) \notin Mine(p).entries
  BY <1>0, <1>1, FailKeeps DEF At
<1>2. CASE TheOne(p) \in Mine(p).entries
  <2>0. /\ over' = [over EXCEPT ![TheOne(p)] = call[p].on]
        /\ Go(p, "apply")
        /\ UNCHANGED <<status, away, setting, vip, cache, raced, muddled>>
    BY <1>0, <1>2
  <2>1. Tables'
    <3>1. over' \in [Person -> BOOLEAN \cup {None}]
      BY <2>0, Placed DEF CircleInv, Tables
    <3> QED BY <1>0, <2>0, <3>1 DEF CircleInv, Tables
  <2>2. Allowed(p, call[p].kind, "apply") /\ call[p].kind # "status" /\ p # Hup
    BY <1>0, Placed DEF At, Fits, IsCall, Allowed, StatusSteps, Ending, Loading
  <2>3. Moves(p) /\ call'[p].step = "apply" /\ Alike(call[p], call'[p])
    BY <1>0, <2>0, <2>2, GoMoves DEF At
  <2>4. ASSUME p \in Service PROVE Tuned'
    <3> DEFINE one == TheOne(p)
    <3>1. TheOne(p)' = TheOne(p) /\ call'[p].on = call[p].on
      BY <2>3 DEF TheOne, Alike
    <3>2. ASSUME Midway(p)
          PROVE  StoredOver' = [Mem.over EXCEPT ![TheOne(p)] = call[p].on]
      <4>1. one \in vip /\ vip \subseteq Person /\ Mem.over = StoredOver
        BY <1>0, <1>2, <2>4, <3>2
          DEF Midway, At, Refilling, Loading, Striking, Mine, Mem, CircleInv,
           Tables
      <4>2. over \in [Person -> BOOLEAN \cup {None}]
        BY DEF CircleInv, Tables
      <4> HIDE DEF one
      <4>3. over' = [over EXCEPT ![one] = call[p].on] /\ vip' = vip
        BY <2>0 DEF one
      <4>4. StoredOver' = [StoredOver EXCEPT ![one] = call[p].on]
        BY <4>1, <4>2, <4>3 DEF StoredOver
      <4> QED BY <4>1, <4>4 DEF one
    <3>3. Midway(p) => Midway(p)'
      BY <1>0, <2>0, <2>3, <2>4, <3>1, <3>2
        DEF Midway, At, Alike, StoredOver, Refilling, Loading, Striking, Mem
    <3> QED BY <2>3, <2>4, <3>3, MovesTuned
  <2>5. ASSUME p = Cli PROVE Tuned'
    BY <2>3, <2>5, CliTuned
  <2>6. Paired'
    <3>1. StatusSame
      BY <2>0 DEF StatusSame
    <3> QED BY <2>0, <2>2, <2>3, <3>1, MovesPaired
  <2> QED BY <2>1, <2>3, <2>4, <2>5, <2>6, MovesShape DEF CircleInv
<1> QED BY <1>1, <1>2

Refilled(c, s, t) == [c EXCEPT !.entries = s, !.over = t]
Reshown(c, s, t) == [c EXCEPT !.status = s, !.setting = t]

\* Two fields of a memory are set at once.
LEMMA CopyTwice ==
  ASSUME NEW c, c \in Copy
  PROVE  /\ \A s \in SUBSET Person, t \in [Person -> BOOLEAN \cup {None}] :
              LET d == Refilled(c, s, t)
              IN  /\ d \in Copy /\ d.status = c.status /\ d.setting = c.setting
                  /\ d.entries = s /\ d.over = t
         /\ \A s, t : s \in BOOLEAN /\ t \in BOOLEAN =>
              LET d == Reshown(c, s, t)
              IN  /\ d \in Copy /\ d.status = s /\ d.setting = t
                  /\ d.entries = c.entries /\ d.over = c.over
<1>1. ASSUME NEW s \in SUBSET Person, NEW t \in [Person -> BOOLEAN \cup {None}]
      PROVE  LET d == Refilled(c, s, t)
             IN  /\ d \in Copy /\ d.status = c.status /\ d.setting = c.setting
                 /\ d.entries = s /\ d.over = t
  <2> DEFINE e == [c EXCEPT !.entries = s]
             d == [e EXCEPT !.over = t]
  <2>1. e \in Copy /\ e.status = c.status /\ e.entries = s /\ e.setting = c.setting
    BY DEF Copy
  <2>2. d = Refilled(c, s, t)
    BY DEF Refilled
  <2> HIDE DEF e
  <2>3. /\ d \in Copy /\ d.setting = e.setting /\ d.status = e.status
        /\ d.entries = e.entries /\ d.over = t
    BY <2>1 DEF Copy
  <2> QED BY <2>1, <2>2, <2>3
<1>2. ASSUME NEW s, NEW t, s \in BOOLEAN, t \in BOOLEAN
      PROVE  LET d == Reshown(c, s, t)
             IN  /\ d \in Copy /\ d.status = s /\ d.setting = t
                 /\ d.entries = c.entries /\ d.over = c.over
  <2> DEFINE e == [c EXCEPT !.status = s]
             d == [e EXCEPT !.setting = t]
  <2>1. e \in Copy /\ e.status = s /\ e.entries = c.entries /\ e.over = c.over
    BY <1>2 DEF Copy
  <2>2. d = Reshown(c, s, t)
    BY DEF Reshown
  <2> HIDE DEF e
  <2>3. /\ d \in Copy /\ d.setting = t /\ d.status = e.status
        /\ d.entries = e.entries /\ d.over = e.over
    BY <1>2, <2>1 DEF Copy
  <2> QED BY <2>1, <2>2, <2>3
<1> QED BY <1>1, <1>2

LEMMA CopySet ==
  ASSUME Tables, NEW p \in Proc, NEW d, d \in Copy,
         cache' = [cache EXCEPT ![Home(p)] = d]
  PROVE  /\ cache' \in [{"service", "cli"} -> Copy] /\ cache'[Home(p)] = d
         /\ \A h \in {"service", "cli"} \ {Home(p)} : cache'[h] = cache[h]
  BY Homes DEF Tables

LEMMA TellModelKeeps ==
  ASSUME CircleInv, NEW p \in Proc, TellModel(p)
  PROVE  CircleInv'
<1> USE Procs, Homes
<1>0. /\ At(p, "tell")
      /\ p = Cli => think' = think
      /\ p # Cli => think' = call[p].set
      /\ p = Hup => Go(p, "all") /\ UNCHANGED <<raced, muddled>>
      /\ p # Hup => End(p)
      /\ UNCHANGED <<status, away, setting, vip, over, cache, phase, sig>>
  BY DEF TellModel, Onward, tables
<1>1. Tables'
  <2>1. think' \in BOOLEAN
    BY <1>0, Placed DEF CircleInv, Tables
  <2> QED BY <1>0, <2>1 DEF CircleInv, Tables
<1>2. call[p].step # "idle" /\ call[p].kind # "status" /\ p # Main
  BY <1>0, Placed DEF At, Fits, IsCall, StatusSteps, Ending, Loading
<1>3. StatusSame
  BY <1>0 DEF StatusSame
<1>4. CASE p = Hup
  <2>1. Allowed(p, call[p].kind, "all")
    BY <1>2, <1>4 DEF Allowed, StatusSteps, Loading
  <2>2. Moves(p) /\ call'[p].step = "all" /\ Alike(call[p], call'[p])
    BY <1>0, <1>2, <1>4, <2>1, GoMoves
  <2>3. Midway(p) => Midway(p)'
    BY <1>0, <1>4, <2>2 DEF Midway, At, Alike, Mem, StoredOver, Refilling, Loading, Striking
  <2>4. Tuned'
    BY <1>4, <2>2, <2>3, MovesTuned
  <2>5. InReload => InReload'
    BY <1>0, <1>4, <2>2 DEF InReload, At, Mem
  <2>6. Paired'
    BY <1>0, <1>2, <1>4, <2>2, <2>5, MovesPaired
  <2> QED BY <1>1, <2>2, <2>4, <2>6, MovesShape DEF CircleInv
<1>5. CASE p \in Caller /\ Ends(p)
  <2>1. Midway(p) => InTune'
    <3>1. StoredOver' = StoredOver /\ Mem' = Mem
      BY <1>0 DEF StoredOver, Mem
    <3> QED BY <1>0, <1>1, <1>5, <3>1, InTuneNext DEF Midway, At, Refilling, Loading, Striking
  <2>2. Tuned'
    BY <1>5, <2>1, EndsTuned
  <2>3. Paired'
    BY <1>0, <1>2, <1>3, <1>5, EndsPaired
  <2> QED BY <1>1, <1>5, <2>2, <2>3, EndsShape DEF CircleInv
<1>6. CASE /\ p = Cli /\ Moves(p) /\ call'[p].step = "signal"
           /\ Alike(call[p], call'[p])
  <2>1. Tuned'
    BY <1>6, CliTuned
  <2>2. Paired'
    BY <1>0, <1>2, <1>3, <1>6, MovesPaired
  <2> QED BY <1>1, <1>6, <2>1, <2>2, MovesShape DEF CircleInv
<1> QED
  BY <1>0, <1>2, <1>4, <1>5, <1>6, EndCases

\* Members, the load and the grants.
LEMMA AdmitKeeps ==
  ASSUME CircleInv, NEW p \in Proc, Admit(p)
  PROVE  CircleInv'
<1> USE Procs, Homes
<1> DEFINE c == call[p]
<1>0. PICK j \in call[p].who :
        /\ vip' = vip \cup {j}
        /\ call' = [call EXCEPT ![p] =
                      WithWho(@, IF c.who = {j} THEN "all" ELSE "admit", c.who \ {j})]
  BY DEF Admit, WithWho
<1> DEFINE s == IF c.who = {j} THEN "all" ELSE "admit"
           left == c.who \ {j}
<1>1. At(p, "admit") /\ UNCHANGED <<status, away, setting, over, cache, think, phase,
                                    sig, raced, muddled>>
  BY DEF Admit, memory
<1>2. /\ call' = [q \in Proc |-> call'[q]]
      /\ \A q \in Proc \ {p} : call'[q] = call[q]
      /\ call'[p] = WithWho(c, s, left)
  BY <1>0 DEF CircleInv, Callers
<1>a. Fields(c)
  BY Placed
<1>3. LET d == WithWho(c, s, left)
      IN  /\ Fields(d) /\ d.step = s /\ d.who = left
          /\ d.kind = c.kind /\ d.on = c.on /\ d.set = c.set /\ d.was = c.was
          /\ d.alone = c.alone /\ d.rows = c.rows
  BY <1>a, StepAndRest
<1>4. /\ Fields(call'[p]) /\ call'[p].step = s /\ call'[p].who = left
      /\ call'[p].kind = c.kind /\ call'[p].on = c.on /\ call'[p].set = c.set
      /\ call'[p].was = c.was /\ call'[p].rows = c.rows /\ call'[p].alone = c.alone
  BY <1>2, <1>3
<1>5. Tables'
  BY <1>0, <1>1, Placed DEF CircleInv, Tables
<1>6. Allowed(p, c.kind, s) /\ c.kind # "status" /\ p # Hup /\ s \in {"admit", "all"}
  BY <1>1, Placed DEF At, Fits, IsCall, Allowed, StatusSteps, Ending, Loading
<1> HIDE DEF s, left
<1>7. Moves(p)
  <2>1. left \subseteq Person
    BY Placed DEF left
  <2> QED BY <1>1, <1>2, <1>4, <1>6, <2>1, Placed, Moving DEF At
<1>8. ASSUME p \in Service PROVE Tuned'
  <2>1. Midway(p) => Midway(p)'
    BY <1>1, <1>4, <1>6, <1>8 DEF Midway, At, Mem, StoredOver, Refilling, Loading, Striking
  <2> QED BY <1>7, <1>8, <2>1, MovesTuned
<1>9. ASSUME p = Cli PROVE Tuned'
  BY <1>4, <1>6, <1>7, <1>9, CliTuned
<1>10. Paired'
  <2>1. StatusSame
    BY <1>1 DEF StatusSame
  <2> QED BY <1>1, <1>6, <1>7, <2>1, MovesPaired
<1> QED BY <1>5, <1>7, <1>8, <1>9, <1>10, MovesShape DEF CircleInv

LEMMA ReadAllKeeps ==
  ASSUME CircleInv, NEW p \in Proc, ReadAll(p)
  PROVE  CircleInv'
<1> USE Procs, Homes
<1> DEFINE c == call[p]
<1>0. /\ At(p, "all")
      /\ UNCHANGED <<status, away, setting, vip, over, cache, think, phase, sig, raced,
                     muddled>>
  BY DEF ReadAll, tables, memory
<1>1. /\ call' = [q \in Proc |-> call'[q]]
      /\ \A q \in Proc \ {p} : call'[q] = call[q]
      /\ call'[p] = WithRows(c, "empty", vip)
  BY DEF ReadAll, WithRows, CircleInv, Callers
<1>a. Fields(c)
  BY Placed
<1>2. LET d == WithRows(c, "empty", vip)
      IN  /\ Fields(d) /\ d.step = "empty" /\ d.rows = vip
          /\ d.kind = c.kind /\ d.on = c.on /\ d.set = c.set /\ d.was = c.was
          /\ d.alone = c.alone /\ d.who = c.who
  BY <1>a, StepAndRest
<1>3. /\ Fields(call'[p]) /\ call'[p].step = "empty" /\ call'[p].rows = vip
      /\ call'[p].kind = c.kind /\ call'[p].on = c.on /\ call'[p].set = c.set
      /\ call'[p].was = c.was /\ call'[p].alone = c.alone /\ call'[p].who = c.who
  BY <1>1, <1>2
<1>4. Tables'
  BY <1>0 DEF CircleInv, Tables
<1>5. Allowed(p, c.kind, "empty") /\ c.kind # "status"
  BY <1>0, Placed DEF At, Fits, IsCall, Allowed, StatusSteps, Ending, Loading
<1>6. Moves(p)
  <2>1. vip \subseteq Person
    BY DEF CircleInv, Tables
  <2> QED BY <1>0, <1>1, <1>3, <1>5, <2>1, Placed, Moving DEF At
<1>7. ASSUME p \in Service PROVE Tuned'
  <2>1. Midway(p) => Midway(p)'
    BY <1>0, <1>3, <1>7 DEF Midway, At, Mem, StoredOver, Refilling, Loading, Striking
  <2> QED BY <1>6, <1>7, <2>1, MovesTuned
<1>8. ASSUME p = Cli PROVE Tuned'
  BY <1>3, <1>6, <1>8, CliTuned
<1>9. Paired'
  <2>1. StatusSame
    BY <1>0 DEF StatusSame
  <2>2. p = Hup => (InReload => InReload')
    BY <1>0, <1>3 DEF InReload, At, Mem
  <2> QED BY <1>0, <1>5, <1>6, <2>1, <2>2, MovesPaired
<1> QED BY <1>4, <1>6, <1>7, <1>8, <1>9, MovesShape DEF CircleInv

LEMMA EmptyMapsKeeps ==
  ASSUME CircleInv, NEW p \in Proc, EmptyMaps(p)
  PROVE  CircleInv'
<1> USE Procs, Homes
<1>0. /\ At(p, "empty") /\ Go(p, "fill")
      /\ cache' = [cache EXCEPT ![Home(p)] = Refilled(cache[Home(p)], {}, NoOverride)]
      /\ UNCHANGED <<status, away, setting, vip, over, think, phase, sig, raced, muddled>>
  BY DEF EmptyMaps, Onward, tables, memory, Refilled
<1>1. /\ cache' \in [{"service", "cli"} -> Copy]
      /\ cache'[Home(p)].status = cache[Home(p)].status
      /\ cache'[Home(p)].setting = cache[Home(p)].setting
      /\ cache'[Home(p)].entries = {} /\ cache'[Home(p)].over = NoOverride
      /\ \A h \in {"service", "cli"} \ {Home(p)} : cache'[h] = cache[h]
  <2> DEFINE d == Refilled(cache[Home(p)], {}, NoOverride)
  <2>1. cache[Home(p)] \in Copy
    BY DEF CircleInv, Tables
  <2>2. NoOverride \in [Person -> BOOLEAN \cup {None}] /\ {} \in SUBSET Person
    BY DEF NoOverride
  <2>3. /\ d \in Copy /\ d.status = cache[Home(p)].status
        /\ d.setting = cache[Home(p)].setting /\ d.entries = {} /\ d.over = NoOverride
    BY <2>1, <2>2, CopyTwice
  <2> HIDE DEF d
  <2>4. cache' = [cache EXCEPT ![Home(p)] = d]
    BY <1>0 DEF d
  <2>5. /\ cache' \in [{"service", "cli"} -> Copy] /\ cache'[Home(p)] = d
        /\ \A h \in {"service", "cli"} \ {Home(p)} : cache'[h] = cache[h]
    BY <2>3, <2>4, CopySet DEF CircleInv
  <2> QED BY <2>3, <2>5
<1>2. Tables'
  BY <1>0, <1>1 DEF CircleInv, Tables
<1>3. Allowed(p, call[p].kind, "fill") /\ call[p].kind # "status"
  BY <1>0, Placed DEF At, Fits, IsCall, Allowed, StatusSteps, Ending, Loading
<1>4. Moves(p) /\ call'[p].step = "fill" /\ Alike(call[p], call'[p])
  BY <1>0, <1>3, GoMoves DEF At
<1>5. ASSUME p \in Service PROVE Tuned'
  <2>1. /\ Mem'.status = Mem.status /\ Mem'.setting = Mem.setting
        /\ Mem'.entries = {} /\ Mem'.over = NoOverride
    BY <1>1, <1>5 DEF Mem
  <2>2. NoOverride = [j \in Person |-> IF j \in {} THEN over'[j] ELSE None]
    BY DEF NoOverride
  <2>3. Midway(p) => Midway(p)'
    BY <1>0, <1>4, <1>5, <2>1, <2>2
    DEF Midway, At, Alike, StoredOver, Refilling, Loading, Striking
  <2> QED BY <1>4, <1>5, <2>3, MovesTuned
<1>6. ASSUME p = Cli PROVE Tuned'
  BY <1>4, <1>6, CliTuned
<1>7. Paired'
  <2>1. StatusSame
    BY <1>1 DEF StatusSame
  <2>2. p = Hup => (InReload => InReload')
    BY <1>0, <1>1, <1>4 DEF InReload, At, Mem
  <2> QED BY <1>0, <1>3, <1>4, <2>1, <2>2, MovesPaired
<1> QED BY <1>2, <1>4, <1>5, <1>6, <1>7, MovesShape DEF CircleInv

LEMMA FillMapsKeeps ==
  ASSUME CircleInv, NEW p \in Proc, FillMaps(p)
  PROVE  CircleInv'
<1> USE Procs, Homes
<1> DEFINE c == call[p]
           old == cache[Home(p)]
<1>0. PICK j \in call[p].rows :
        /\ cache' = [cache EXCEPT ![Home(p)] =
                       Refilled(old, old.entries \cup {j}, [old.over EXCEPT ![j] = over[j]])]
        /\ call' = [call EXCEPT ![p] = OnlyRows(c, c.rows \ {j})]
  BY DEF FillMaps, Refilled, OnlyRows, Mine
<1> DEFINE more == old.entries \cup {j}
           known == [old.over EXCEPT ![j] = over[j]]
           left == c.rows \ {j}
<1>1. /\ At(p, "fill")
      /\ UNCHANGED <<status, away, setting, vip, over, think, phase, sig, raced, muddled>>
  BY DEF FillMaps, tables, memory
<1>2. /\ call' = [q \in Proc |-> call'[q]]
      /\ \A q \in Proc \ {p} : call'[q] = call[q]
      /\ call'[p] = OnlyRows(c, left)
  BY <1>0 DEF CircleInv, Callers
<1>a. Fields(c)
  BY Placed
<1>3. LET d == OnlyRows(c, left)
      IN  /\ Fields(d) /\ d.step = c.step /\ d.rows = left
          /\ d.kind = c.kind /\ d.on = c.on /\ d.set = c.set /\ d.was = c.was
          /\ d.alone = c.alone /\ d.who = c.who
  BY <1>a, RowsField
<1>4. /\ Fields(call'[p]) /\ call'[p].step = "fill" /\ call'[p].rows = left
      /\ call'[p].kind = c.kind /\ call'[p].on = c.on /\ call'[p].set = c.set
      /\ call'[p].was = c.was /\ call'[p].alone = c.alone /\ call'[p].who = c.who
  BY <1>1, <1>2, <1>3 DEF At
<1>b. j \in Person /\ left \subseteq Person
  BY Placed
<1>c. old \in Copy /\ more \in SUBSET Person /\ known \in [Person -> BOOLEAN \cup {None}]
  <2>1. old \in Copy
    BY DEF CircleInv, Tables
  <2>2. old.entries \subseteq Person /\ old.over \in [Person -> BOOLEAN \cup {None}]
    BY <2>1 DEF Copy
  <2>3. over[j] \in BOOLEAN \cup {None}
    BY <1>b DEF CircleInv, Tables
  <2> QED BY <1>b, <2>1, <2>2, <2>3
<1>5. /\ cache' \in [{"service", "cli"} -> Copy]
      /\ cache'[Home(p)].status = old.status /\ cache'[Home(p)].setting = old.setting
      /\ cache'[Home(p)].entries = more /\ cache'[Home(p)].over = known
      /\ \A h \in {"service", "cli"} \ {Home(p)} : cache'[h] = cache[h]
  <2> DEFINE d == Refilled(old, more, known)
  <2>0. cache' = [cache EXCEPT ![Home(p)] = d]
    BY <1>0
  <2> HIDE DEF old, more, known
  <2>1. /\ d \in Copy /\ d.status = old.status
        /\ d.setting = old.setting /\ d.entries = more /\ d.over = known
    BY <1>c, CopyTwice
  <2> HIDE DEF d
  <2>2. /\ cache' \in [{"service", "cli"} -> Copy] /\ cache'[Home(p)] = d
        /\ \A h \in {"service", "cli"} \ {Home(p)} : cache'[h] = cache[h]
    BY <2>0, <2>1, CopySet DEF CircleInv
  <2> QED BY <2>1, <2>2
<1>6. Tables'
  BY <1>1, <1>5 DEF CircleInv, Tables
<1>7. Allowed(p, c.kind, "fill") /\ c.kind # "status"
  BY <1>1, Placed DEF At, Fits, IsCall, Allowed, StatusSteps, Ending, Loading
<1>8. Moves(p)
  BY <1>1, <1>2, <1>4, <1>7, <1>b, Placed, Moving DEF At
<1>9. ASSUME p \in Service PROVE Tuned'
  <2>1. ASSUME Midway(p)
        PROVE  /\ left \subseteq vip /\ more = vip \ left
               /\ known = [i \in Person |-> IF i \in more THEN over[i] ELSE None]
    <3>1. /\ c.rows \subseteq vip /\ old.entries = vip \ c.rows
          /\ old.over = [i \in Person |-> IF i \in old.entries THEN over[i] ELSE None]
      BY <1>1, <1>9, <2>1 DEF Midway, At, Mem
    <3>2. left \subseteq vip /\ more = vip \ left
      BY <1>0, <3>1
    <3>3. known = [i \in Person |-> IF i \in more THEN over[i] ELSE None]
      BY <1>b, <3>1
    <3> QED BY <3>2, <3>3
  <2>2. /\ Mem'.status = Mem.status /\ Mem'.setting = Mem.setting
        /\ Mem'.entries = more /\ Mem'.over = known
    BY <1>5, <1>9 DEF Mem
  <2> HIDE DEF more, known, left
  <2>3. Midway(p) => Midway(p)'
    BY <1>1, <1>4, <1>9, <2>1, <2>2 DEF Midway, At, StoredOver, Refilling, Loading, Striking
  <2> QED BY <1>8, <1>9, <2>3, MovesTuned
<1>10. ASSUME p = Cli PROVE Tuned'
  BY <1>4, <1>8, <1>10, CliTuned
<1>11. Paired'
  <2>1. StatusSame
    BY <1>5 DEF StatusSame
  <2>2. p = Hup => (InReload => InReload')
    BY <1>1, <1>4, <1>5 DEF InReload, At, Mem
  <2> QED BY <1>1, <1>7, <1>8, <2>1, <2>2, MovesPaired
<1> QED BY <1>6, <1>8, <1>9, <1>10, <1>11, MovesShape DEF CircleInv

LEMMA ReadGrantsKeeps ==
  ASSUME CircleInv, NEW p \in Proc, ReadGrants(p)
  PROVE  CircleInv'
<1> USE Procs, Homes
<1> DEFINE c == call[p]
<1>1. CASE Fail(p)
  BY <1>1, FailKeeps DEF ReadGrants, At
<1>2. CASE ~Fail(p)
  <2>0. PICK x : call' = [call EXCEPT ![p] = WithList(c, "store", x)]
    BY <1>2 DEF ReadGrants, WithList
  <2>1. /\ At(p, "grants")
        /\ UNCHANGED <<status, away, setting, vip, over, cache, think, phase, sig, raced,
                       muddled>>
    BY <1>2 DEF ReadGrants, tables
  <2>2. /\ call' = [q \in Proc |-> call'[q]]
        /\ \A q \in Proc \ {p} : call'[q] = call[q]
        /\ call'[p] = WithList(c, "store", x)
    BY <2>0 DEF CircleInv, Callers
  <2>a. Fields(c)
    BY Placed
  <2>3. LET d == WithList(c, "store", x)
        IN  /\ Fields(d) /\ d.step = "store" /\ d.who = c.who
            /\ d.kind = c.kind /\ d.on = c.on /\ d.set = c.set /\ d.was = c.was
            /\ d.alone = c.alone /\ d.rows = c.rows
    BY <2>a, StepAndRest
  <2>4. /\ Fields(call'[p]) /\ call'[p].step = "store" /\ call'[p].who = c.who
        /\ call'[p].kind = c.kind /\ call'[p].on = c.on /\ call'[p].set = c.set
        /\ call'[p].was = c.was /\ call'[p].rows = c.rows /\ call'[p].alone = c.alone
    BY <2>2, <2>3
  <2>5. Tables'
    BY <2>1 DEF CircleInv, Tables
  <2>6. Allowed(p, c.kind, "store") /\ c.kind # "status" /\ p # Hup
    BY <2>1, Placed DEF At, Fits, IsCall, Allowed, StatusSteps, Ending, Loading
  <2>7. Moves(p)
    BY <2>1, <2>2, <2>4, <2>6, Placed, Moving DEF At
  <2>8. ASSUME p \in Service PROVE Tuned'
    <3>1. Midway(p) => Midway(p)'
      BY <2>1, <2>4, <2>8 DEF Midway, At, Mem, StoredOver, Refilling, Loading, Striking
    <3> QED BY <2>7, <2>8, <3>1, MovesTuned
  <2>9. ASSUME p = Cli PROVE Tuned'
    BY <2>4, <2>7, <2>9, CliTuned
  <2>10. Paired'
    <3>1. StatusSame
      BY <2>1 DEF StatusSame
    <3> QED BY <2>1, <2>6, <2>7, <3>1, MovesPaired
  <2> QED BY <2>5, <2>7, <2>8, <2>9, <2>10, MovesShape DEF CircleInv
<1> QED BY <1>1, <1>2

\* The reload.
LEMMA RereadKeeps ==
  ASSUME CircleInv, Reread
  PROVE  CircleInv'
<1> USE Procs, Homes
<1> DEFINE c == call[Hup]
<1>0. /\ At(Hup, "reread")
      /\ UNCHANGED <<status, away, setting, vip, over, cache, think, phase, sig, raced,
                     muddled>>
  BY DEF Reread, tables, memory
<1>1. /\ call' = [q \in Proc |-> call'[q]]
      /\ \A q \in Proc \ {Hup} : call'[q] = call[q]
      /\ call'[Hup] = WithOnSet(c, "reshow", status, setting)
  BY DEF Reread, WithOnSet, CircleInv, Callers
<1>a. Fields(c)
  BY Placed
<1>2. LET d == WithOnSet(c, "reshow", status, setting)
      IN  /\ Fields(d) /\ d.step = "reshow" /\ d.on = status /\ d.set = setting
          /\ d.kind = c.kind /\ d.rows = c.rows /\ d.was = c.was
          /\ d.alone = c.alone /\ d.who = c.who
  BY <1>a, StepOnSet
<1>3. /\ Fields(call'[Hup]) /\ call'[Hup].step = "reshow" /\ call'[Hup].on = status
      /\ call'[Hup].set = setting /\ call'[Hup].kind = c.kind /\ call'[Hup].rows = c.rows
      /\ call'[Hup].was = c.was /\ call'[Hup].alone = c.alone /\ call'[Hup].who = c.who
  BY <1>1, <1>2
<1>4. Tables'
  BY <1>0 DEF CircleInv, Tables
<1>5. Allowed(Hup, c.kind, "reshow") /\ c.kind # "status"
  BY <1>0, Placed DEF At, Fits, IsCall, Allowed, StatusSteps, Ending, Loading
<1>6. Moves(Hup)
  <2>1. status \in BOOLEAN /\ setting \in BOOLEAN
    BY DEF CircleInv, Tables
  <2> QED BY <1>0, <1>1, <1>3, <1>5, <2>1, Placed, Moving DEF At
<1>7. Tuned'
  <2>1. Midway(Hup) => Midway(Hup)'
    BY <1>0, <1>3 DEF Midway, At, Mem, StoredOver, Refilling, Loading, Striking
  <2> QED BY <1>6, <2>1, MovesTuned
<1>8. Paired'
  <2>1. InReload => InReload'
    BY <1>0, <1>3 DEF InReload
  <2> QED BY <1>0, <1>5, <1>6, <2>1, MovesPaired
<1> QED BY <1>4, <1>6, <1>7, <1>8, MovesShape DEF CircleInv

LEMMA ReshowKeeps ==
  ASSUME CircleInv, Reshow
  PROVE  CircleInv'
<1> USE Procs, Homes
<1> DEFINE c == call[Hup]
           d == Reshown(cache[Home(Hup)], c.on, c.set)
<1>0. /\ At(Hup, "reshow") /\ Go(Hup, "tell")
      /\ cache' = [cache EXCEPT ![Home(Hup)] = d]
      /\ UNCHANGED <<status, away, setting, vip, over, think, phase, sig, raced, muddled>>
  <2>1. /\ At(Hup, "reshow") /\ Go(Hup, "tell")
        /\ UNCHANGED <<status, away, setting, vip, over, think, phase, sig, raced, muddled>>
    BY DEF Reshow, Onward, tables, memory
  <2>2. cache' = [cache EXCEPT !["service"] = Reshown(@, c.on, c.set)]
    BY DEF Reshow, Reshown
  <2> QED BY <2>1, <2>2
<1>1. /\ cache' \in [{"service", "cli"} -> Copy]
      /\ Mem'.status = c.on /\ Mem'.setting = c.set
      /\ Mem'.entries = Mem.entries /\ Mem'.over = Mem.over
  <2>1. cache[Home(Hup)] \in Copy
    BY DEF CircleInv, Tables
  <2>2. c.on \in BOOLEAN /\ c.set \in BOOLEAN
    BY Placed
  <2>3. /\ d \in Copy /\ d.status = c.on /\ d.setting = c.set
        /\ d.entries = cache[Home(Hup)].entries /\ d.over = cache[Home(Hup)].over
    BY <2>1, <2>2, CopyTwice
  <2> HIDE DEF d
  <2>4. cache' \in [{"service", "cli"} -> Copy] /\ cache'[Home(Hup)] = d
    BY <1>0, <2>3, CopySet DEF CircleInv
  <2> QED BY <2>3, <2>4 DEF Mem
<1> HIDE DEF d
<1>2. Tables'
  BY <1>0, <1>1 DEF CircleInv, Tables
<1>3. Allowed(Hup, c.kind, "tell") /\ c.kind # "status"
  BY <1>0, Placed DEF At, Fits, IsCall, Allowed, StatusSteps, Ending, Loading
<1>4. Moves(Hup) /\ call'[Hup].step = "tell" /\ Alike(c, call'[Hup])
  BY <1>0, <1>3, GoMoves DEF At
<1>5. Tuned'
  <2>1. Midway(Hup) => Midway(Hup)'
    BY <1>0, <1>1, <1>4 DEF Midway, At, Alike, StoredOver, Refilling, Loading, Striking
  <2> QED BY <1>4, <2>1, MovesTuned
<1>6. Paired'
  <2>1. InReload => InReload'
    BY <1>0, <1>1, <1>4 DEF InReload, At
  <2> QED BY <1>0, <1>3, <1>4, <2>1, MovesPaired
<1> QED BY <1>2, <1>4, <1>5, <1>6, MovesShape DEF CircleInv

\* Life and death of the service, and the signal.
LEMMA NothingSeen ==
  ASSUME CircleInv,
         UNCHANGED <<status, away, setting, vip, over, cache, think, phase, sig, call,
                     raced, muddled>>
  PROVE  CircleInv'
<1>1. Tables' /\ Flags' /\ Callers' /\ Stages'
  BY DEF CircleInv, Tables, Flags, Callers, Stages, InCall, At
<1>2. Solo'
  BY DEF CircleInv, Solo, Alone, InCall, At
<1>3. Mem' = Mem /\ StoredOver' = StoredOver /\ (InTune' <=> InTune)
  BY DEF Mem, StoredOver, InTune, Stored
<1>4. \A p \in Service : Midway(p)' = Midway(p)
  <2> TAKE p \in Service
  <2>1. TheOne(p)' = TheOne(p)
    BY DEF TheOne
  <2> QED BY <1>3, <2>1 DEF Midway
<1>5. (Owed' <=> Owed) /\ (Steady' <=> Steady)
  BY DEF Owed, Steady, Alone, InCall, At
<1>6. Tuned'
  BY <1>3, <1>4, <1>5 DEF CircleInv, Tuned, InCall, At
<1>7. Paired'
  BY <1>3 DEF CircleInv, Paired, InStatus, InReload
<1> QED BY <1>1, <1>2, <1>6, <1>7 DEF CircleInv

LEMMA WritePidFileKeeps ==
  ASSUME CircleInv, WritePidFile
  PROVE  CircleInv'
<1> USE Procs, Homes
<1>0. /\ At(Main, "pidfile") /\ Go(Main, "listen")
      /\ UNCHANGED <<status, away, setting, vip, over, cache, think, phase, sig, raced,
                     muddled>>
  BY DEF WritePidFile, Onward, tables, memory
<1>1. Tables'
  BY <1>0 DEF CircleInv, Tables
<1>2. Allowed(Main, call[Main].kind, "listen") /\ call[Main].kind = "status"
  BY <1>0, Placed DEF At, Fits, IsCall, Allowed, StatusSteps, Ending, Loading
<1>3. Moves(Main) /\ call'[Main].step = "listen" /\ Alike(call[Main], call'[Main])
  BY <1>0, <1>2, GoMoves DEF At
<1>4. Tuned'
  <2>1. Midway(Main) => Midway(Main)'
    BY <1>0, <1>3 DEF Midway, At, Alike, Mem, StoredOver, Refilling, Loading, Striking
  <2> QED BY <1>3, <2>1, MovesTuned
<1>5. Paired'
  <2>1. InStatus(Main) => InStatus(Main)'
    BY <1>0, <1>3 DEF InStatus, At, Alike, Ending
  <2> QED BY <1>2, <1>3, <2>1, MovesStatus
<1> QED BY <1>1, <1>3, <1>4, <1>5, MovesShape DEF CircleInv

LEMMA ListenKeeps ==
  ASSUME CircleInv, Listen
  PROVE  CircleInv'
<1> USE Procs, Homes
<1>0. /\ At(Main, "listen") /\ phase' = "up"
      /\ UNCHANGED <<status, away, setting, vip, over, cache, think, sig, raced, muddled>>
  BY DEF Listen, tables, memory
<1>1. /\ call' = [q \in Proc |-> call'[q]]
      /\ \A q \in Proc \ {Main} : call'[q] = call[q]
      /\ call'[Main] = Blank
  BY DEF Listen, CircleInv, Callers
<1>2. InCall(Main) /\ call[Main].kind = "status" /\ phase = "starting"
  BY <1>0, Placed DEF At, InCall, Fits, IsCall, CircleInv, Stages, Flags
<1>3. /\ \A q \in Service : ~InCall(q)'
      /\ ~InCall(Hup)
  BY <1>1, <1>2, Idle DEF CircleInv, Stages, InCall, At
<1>4. Tables' /\ Flags'
  BY <1>0 DEF CircleInv, Tables, Flags
<1>5. Callers'
  <2>1. IsCall(call'[Main]) /\ Fits(Main, call'[Main])
    BY <1>1, Idle DEF Fits, StatusSteps, Ending
  <2> QED BY <1>1, <2>1 DEF CircleInv, Callers
<1>6. Stages'
  BY <1>0, <1>3 DEF Stages
<1>7. Solo'
  BY <1>3 DEF Solo, Alone
<1>8. Tuned'
  <2> SUFFICES ASSUME Steady', ~Owed'
               PROVE  InTune'
    BY <1>3 DEF Tuned
  <2>1. Steady /\ ~Owed
    BY <1>0, <1>1, <1>3 DEF Steady, Alone, Owed, InCall, At
  <2>2. Midway(Main)
    BY <1>2, <2>1 DEF CircleInv, Tuned
  <2>3. InTune
    BY <1>0, <2>2, InTuneMeans DEF CircleInv, Midway, At, Refilling, Loading, Striking
  <2> QED BY <1>0, <2>3 DEF InTune, Stored
<1>9. Paired'
  <2> SUFFICES ASSUME ~muddled' PROVE Pairs'
    BY PairsNext
  <2>1. Pairs
    BY <1>0, PairsHere DEF CircleInv
  <2>2. \A q \in Proc : call'[q].kind \notin {"status", "reload"}
    BY <1>1, <1>2, <2>1, Idle DEF Pairs
  <2>3. InStatus(Main)
    BY <1>2, <2>1 DEF Pairs
  <2>4. away = status /\ Mem.status = status
    BY <1>0, <2>3 DEF InStatus, At, Ending, Mem
  <2>5. away' = status' /\ Mem'.status = status'
    BY <1>0, <2>4 DEF Mem
  <2> QED BY <2>2, <2>5 DEF Pairs
<1> QED BY <1>4, <1>5, <1>6, <1>7, <1>8, <1>9 DEF CircleInv

LEMMA DieKeeps ==
  ASSUME CircleInv, NEW alive, alive \subseteq {Cli}, Die(alive),
         Cli \notin alive => call[Cli].step = "signal",
         UNCHANGED <<status, away, setting, vip, over, cache, think, raced>>
  PROVE  CircleInv'
<1> USE Procs, Homes
<1>0. /\ phase' = "down" /\ sig' = FALSE
      /\ muddled' = (muddled \/ \E p \in Service :
                       /\ call[p].kind = "status" /\ call[p].step \notin {"pidfile", "listen"})
  BY DEF Die
<1>1. /\ call' = [q \in Proc |-> call'[q]]
      /\ \A q \in Service : call'[q] = Blank
      /\ Cli \in alive => call'[Cli] = call[Cli]
      /\ Cli \notin alive => call'[Cli] = Blank
  BY DEF Die
<1>2. \A q \in Service : ~InCall(q)'
  BY <1>1, Idle DEF InCall, At
<1>3. Tables' /\ Flags'
  <2>1. muddled' \in BOOLEAN
    BY <1>0
  <2> QED BY <1>0, <2>1 DEF CircleInv, Tables, Flags
<1>4. Callers'
  <2>1. \A q \in Proc : Fits(q, Blank)
    BY Idle DEF Fits, StatusSteps, Ending
  <2>2. \A q \in Proc : IsCall(call'[q]) /\ Fits(q, call'[q])
    BY <1>1, <2>1, Idle DEF CircleInv, Callers
  <2> QED BY <1>1, <2>2 DEF Callers
<1>5. Stages'
  BY <1>0, <1>2 DEF Stages
<1>6. Solo'
  BY <1>2 DEF Solo, Alone
<1>7. Tuned'
  BY <1>0 DEF Tuned
<1>8. Paired'
  <2> SUFFICES ASSUME ~muddled' PROVE Pairs'
    BY PairsNext
  <2>1. Pairs /\ ~muddled
    BY <1>0, PairsHere DEF CircleInv
  <2>2. \A q \in Service : call'[q].kind = "none"
    BY <1>1, Idle
  <2>3. \A p, q \in Proc :
          p # q /\ call'[p].kind = "status" => call'[q].kind \notin {"status", "reload"}
    BY <2>2
  <2>4. ASSUME NEW p \in Proc, call'[p].kind = "status"
        PROVE  InStatus(p)'
    <3>1. call'[p] = call[p]
      BY <1>1, <2>2, <2>4, Idle
    <3>2. InStatus(p)
      BY <2>1, <2>4, <3>1 DEF Pairs
    <3> QED BY <3>1, <3>2, InStatusSame DEF StatusSame
  <2>5. ASSUME \A p \in Proc : call'[p].kind # "status"
        PROVE  away' = status'
    <3>1. CASE \A p \in Proc : call[p].kind # "status"
      BY <2>1, <3>1 DEF Pairs
    <3>2. ASSUME NEW r \in Proc, call[r].kind = "status"
          PROVE  away' = status'
      <4>1. InStatus(r)
        BY <2>1, <3>2 DEF Pairs
      <4>2. call[r].step \in Ending
        BY <1>0, <1>1, <2>5, <3>2 DEF Ending
      <4> QED BY <4>1, <4>2 DEF InStatus
    <3> QED BY <3>1, <3>2
  <2> QED BY <1>0, <2>2, <2>3, <2>4, <2>5 DEF Pairs
<1> QED BY <1>3, <1>4, <1>5, <1>6, <1>7, <1>8 DEF CircleInv

LEMMA CrashKeeps ==
  ASSUME CircleInv, Crash
  PROVE  CircleInv'
<1>1. /\ Die({Cli})
      /\ UNCHANGED <<status, away, setting, vip, over, cache, think, raced>>
  BY DEF Crash, tables
<1> QED BY <1>1, DieKeeps

LEMMA NotifyRunningKeeps ==
  ASSUME CircleInv, NotifyRunning
  PROVE  CircleInv'
<1> USE Procs, Homes
<1>0. /\ At(Cli, "signal")
      /\ UNCHANGED <<status, away, setting, vip, over, cache, think, raced>>
  BY DEF NotifyRunning, tables
<1>a. Tables'
  BY <1>0 DEF CircleInv, Tables
<1>b. InCall(Cli)
  BY <1>0 DEF InCall, At
<1>1. CASE phase = "up" /\ Queue /\ call' = [call EXCEPT ![Cli] = Blank]
           /\ UNCHANGED <<phase, muddled>>
  <2>0. /\ call' = [q \in Proc |-> call'[q]]
        /\ \A q \in Proc \ {Cli} : call'[q] = call[q]
        /\ call'[Cli] = Blank /\ sig' = TRUE
    BY <1>1 DEF CircleInv, Callers, Queue
  <2>1. Flags' /\ Stages'
    BY <1>0, <1>1, <2>0 DEF CircleInv, Flags, Stages, InCall, At
  <2>2. Callers'
    <3>1. IsCall(call'[Cli]) /\ Fits(Cli, call'[Cli])
      BY <2>0, Idle DEF Fits, StatusSteps, Ending
    <3> QED BY <2>0, <3>1 DEF CircleInv, Callers
  <2>3. Solo'
    <3>1. ~InCall(Cli)'
      BY <2>0, Idle DEF InCall, At
    <3>2. \A q \in Service : InCall(q)' <=> InCall(q)
      BY <2>0 DEF InCall, At
    <3>3. ~Alone'
      BY <1>b, <2>0 DEF CircleInv, Solo, Alone, InCall, At
    <3> QED BY <1>0, <3>1, <3>2, <3>3 DEF CircleInv, Solo
  <2>4. Tuned'
    BY <2>0 DEF Tuned, Owed
  <2>5. Paired'
    <3> SUFFICES ASSUME ~muddled' PROVE Pairs'
      BY PairsNext
    <3>1. Pairs
      BY <1>1, PairsHere DEF CircleInv
    <3>2. call'[Cli].kind = "none"
      BY <2>0, Idle
    <3>3. \A p, q \in Proc :
            p # q /\ call'[p].kind = "status" => call'[q].kind \notin {"status", "reload"}
      BY <2>0, <3>1, <3>2 DEF Pairs
    <3>4. ASSUME NEW p \in Proc, call'[p].kind = "status"
          PROVE  InStatus(p)'
      <4>1. call'[p] = call[p]
        BY <2>0, <3>2, <3>4
      <4>2. InStatus(p)
        BY <3>1, <3>4, <4>1 DEF Pairs
      <4> QED BY <1>0, <4>1, <4>2, InStatusSame DEF StatusSame
    <3>5. ASSUME \A p \in Proc : call'[p].kind # "status"
          PROVE  away' = status'
      <4>1. CASE call[Cli].kind = "status"
        BY <1>0, <3>1, <4>1 DEF Pairs, InStatus, At, Ending
      <4>2. CASE call[Cli].kind # "status"
        BY <1>0, <2>0, <3>1, <3>5, <4>2 DEF Pairs
      <4> QED BY <4>1, <4>2
    <3> QED BY <2>0, <3>3, <3>4, <3>5 DEF Pairs
  <2> QED BY <1>a, <2>1, <2>2, <2>3, <2>4, <2>5 DEF CircleInv
<1>2. CASE Die({})
  BY <1>0, <1>2, DieKeeps DEF At
<1>3. CASE phase # "up" /\ call' = [call EXCEPT ![Cli] = Blank]
           /\ UNCHANGED <<phase, sig, muddled>>
  <2>1. Ends(Cli)
    BY <1>0, <1>3 DEF Ends, At, CircleInv, Flags
  <2>2. phase = "starting" => InCall(Main) /\ ~InCall(Hup)
    BY DEF CircleInv, Stages
  <2>3. phase \in {"starting", "down"}
    BY <1>3 DEF CircleInv, Flags
  <2>4. Tuned'
    <3>1. phase = "starting" => ~Steady'
      BY <1>0, <1>b, <2>1, <2>2, EndsCalls DEF CircleInv, Steady, Alone, Solo, InCall, At
    <3> QED BY <1>3, <2>3, <3>1 DEF Tuned
  <2>5. Paired'
    <3>1. CASE call[Cli].kind # "status"
      BY <1>0, <2>1, <3>1, EndsPaired DEF StatusSame
    <3>2. CASE call[Cli].kind = "status" /\ phase = "down"
      <4>1. InStatus(Cli) => away' = status'
        BY <1>0 DEF InStatus, At, Ending
      <4> QED BY <1>3, <2>1, <3>2, <4>1, EndsStatus
    <3>3. CASE call[Cli].kind = "status" /\ phase = "starting"
      <4>1. call[Main].kind = "status"
        BY <2>2, <3>3, Placed DEF Fits, IsCall, InCall, At
      <4>2. muddled
        BY <3>3, <4>1, PairsHere DEF CircleInv, Pairs
      <4> QED BY <1>3, <4>2, PairsNext
    <3> QED BY <2>3, <3>1, <3>2, <3>3
  <2> QED BY <1>a, <2>1, <2>4, <2>5, EndsShape DEF CircleInv
<1> QED BY <1>1, <1>2, <1>3 DEF NotifyRunning

\* What a call that others have seen begin keeps.
Held(c, d) ==
  /\ d.step = c.step /\ d.kind = c.kind /\ d.who = c.who /\ d.on = c.on
  /\ d.set = c.set /\ d.was = c.was /\ d.rows = c.rows

\* A call begins: the others know that they are no longer alone.
LEMMA BeginCalls ==
  ASSUME Callers, NEW p \in Proc, ~InCall(p), NEW c, IsCall(c), Fits(p, c), Begin(p, c)
  PROVE  /\ Callers'
         /\ Held(c, call'[p])
         /\ \A q \in Proc \ {p} :
              /\ Held(call[q], call'[q])
              /\ ~InCall(q) => call'[q] = call[q]
              /\ InCall(q) => ~call'[q].alone
         /\ call'[p].alone => \A q \in Proc \ {p} : ~InCall(q)
         /\ muddled' = (muddled \/ Muddle(p, c.kind))
<1> DEFINE others == {q \in Proc \ {p} : InCall(q)}
           first == (others = {})
<1>1. /\ call' = [q \in Proc |-> call'[q]]
      /\ call'[p] = OnlyAlone(c, first)
      /\ \A q \in others : call'[q] = OnlyAlone(call[q], FALSE)
      /\ \A q \in Proc \ ({p} \cup others) : call'[q] = call[q]
      /\ muddled' = (muddled \/ Muddle(p, c.kind))
  BY DEF Begin, OnlyAlone
<1>2. ASSUME NEW d, NEW b, Fields(d)
      PROVE  LET e == OnlyAlone(d, b)
             IN  Fields(e) /\ Held(d, e) /\ e.alone = b
  <2> DEFINE e == OnlyAlone(d, b)
  <2>1. /\ Fields(e) /\ e.step = d.step /\ e.alone = b
        /\ e.kind = d.kind /\ e.on = d.on /\ e.set = d.set /\ e.was = d.was
        /\ e.rows = d.rows /\ e.who = d.who
    BY <1>2, AloneField
  <2> HIDE DEF e
  <2>2. Fields(e) /\ Held(d, e) /\ e.alone = b
    BY <2>1 DEF Held
  <2> QED BY <2>2 DEF e
<1>3. \A d, b : IsCall(d) /\ b \in BOOLEAN =>
        LET e == OnlyAlone(d, b)
        IN  IsCall(e) /\ Held(d, e) /\ e.alone = b
  BY <1>2 DEF IsCall, Held
<1>4. \A d, e, q : Held(d, e) /\ Fits(q, d) => Fits(q, e)
  BY DEF Held, Fits
<1>5. first \in BOOLEAN
  OBVIOUS
<1> HIDE DEF first
<1>6. IsCall(call'[p]) /\ Held(c, call'[p]) /\ call'[p].alone = first
  BY <1>1, <1>3, <1>5
<1>7. ASSUME NEW q \in others
      PROVE  /\ IsCall(call'[q]) /\ Fits(q, call'[q]) /\ Held(call[q], call'[q])
             /\ call'[q].alone = FALSE
  <2>1. IsCall(call[q]) /\ Fits(q, call[q])
    BY DEF Callers
  <2>2. FALSE \in BOOLEAN
    OBVIOUS
  <2>3. LET e == OnlyAlone(call[q], FALSE)
        IN  IsCall(e) /\ Held(call[q], e) /\ e.alone = FALSE
    BY <1>3, <2>1, <2>2
  <2>4. IsCall(call'[q]) /\ Held(call[q], call'[q]) /\ call'[q].alone = FALSE
    BY <1>1, <2>3
  <2> QED BY <1>4, <2>1, <2>4
<1>8. ASSUME NEW q \in Proc \ ({p} \cup others)
      PROVE  IsCall(call'[q]) /\ Fits(q, call'[q]) /\ Held(call[q], call'[q])
  BY <1>1 DEF Callers, Held
<1>9. Callers'
  <2>1. Fits(p, call'[p])
    BY <1>4, <1>6
  <2> QED BY <1>1, <1>6, <1>7, <1>8, <2>1 DEF Callers
<1>10. call'[p].alone => \A q \in Proc \ {p} : ~InCall(q)
  BY <1>6 DEF first
<1> QED BY <1>1, <1>6, <1>7, <1>8, <1>9, <1>10

LEMMA BeginShape ==
  ASSUME CircleInv, NEW p \in Proc, ~InCall(p), NEW c, IsCall(c), Fits(p, c),
         c.step # "idle", Begin(p, c), raced' \in BOOLEAN,
         ~raced' => /\ Rivals(p) = {}
                    /\ ~raced \/ \A q \in Service : ~InCall(q)
  PROVE  Solo'
<1> USE Procs, Homes
<1>1. /\ Held(c, call'[p])
      /\ \A q \in Proc \ {p} :
           /\ Held(call[q], call'[q])
           /\ ~InCall(q) => call'[q] = call[q]
           /\ InCall(q) => ~call'[q].alone
      /\ call'[p].alone => \A q \in Proc \ {p} : ~InCall(q)
  BY BeginCalls DEF CircleInv
<1>2. InCall(p)' /\ \A q \in Proc \ {p} : InCall(q)' <=> InCall(q)
  BY <1>1 DEF InCall, At, Held
<1>3. Alone' => \A q \in Proc \ {Hup} : ~InCall(q)'
  <2>1. CASE p = Hup
    BY <1>1, <1>2, <2>1 DEF Alone
  <2>2. CASE p # Hup
    BY <1>1, <1>2, <2>2 DEF Alone
  <2> QED BY <2>1, <2>2
<1>4. ASSUME ~raced'
      PROVE  /\ \A q, r \in Service : q # r => ~InCall(q)' \/ ~InCall(r)'
             /\ ~InCall(Main)' \/ ~InCall(Cli)'
  <2>1. \A q \in Proc \ {p} : Home(p) = Home(q) \/ {p, q} = {Cli, Main} => ~InCall(q)
    BY <1>4 DEF Rivals
  <2>2. p \in Service => \A q \in Service \ {p} : ~InCall(q)
    BY <2>1
  <2>3. /\ \A q, r \in Service : q # r => ~InCall(q) \/ ~InCall(r)
        /\ ~InCall(Main) \/ ~InCall(Cli)
    BY <1>4 DEF CircleInv, Solo
  <2>4. \A q, r \in Service : q # r => ~InCall(q)' \/ ~InCall(r)'
    BY <1>2, <2>2, <2>3
  <2>5. ~InCall(Main)' \/ ~InCall(Cli)'
    BY <1>2, <2>1, <2>3
  <2> QED BY <2>4, <2>5
<1> QED BY <1>3, <1>4 DEF Solo

LEMMA NotMuddled ==
  ASSUME NEW p \in Proc, NEW k, ~Muddle(p, k)
  PROVE  /\ k = "status" =>
              ~sig /\ \A q \in Proc \ {p} : call[q].kind \notin {"status", "reload"}
         /\ k = "reload" => \A q \in Proc \ {p} : call[q].kind # "status"
<1>1. \A q \in Proc \ {p} : {k, call[q].kind} # {"status"}
                            /\ {k, call[q].kind} # {"status", "reload"}
  BY DEF Muddle
<1>2. ASSUME k = "status"
      PROVE  ~sig /\ \A q \in Proc \ {p} : call[q].kind \notin {"status", "reload"}
  BY <1>1, <1>2 DEF Muddle
<1>3. ASSUME k = "reload", NEW q \in Proc \ {p}, call[q].kind = "status"
      PROVE  FALSE
  BY <1>1, <1>3
<1> QED BY <1>2, <1>3

LEMMA WakeKeeps ==
  ASSUME CircleInv, Wake
  PROVE  CircleInv'
<1> USE Procs, Homes
<1> DEFINE c == [Blank EXCEPT !.step = "reread", !.kind = "reload"]
<1>0. /\ sig /\ phase = "up" /\ ~InCall(Hup) /\ sig' = FALSE
      /\ Begin(Hup, c) /\ raced' = (raced \/ Rivals(Hup) # {})
      /\ UNCHANGED <<status, away, setting, vip, over, cache, think, phase>>
  BY DEF Wake, tables, memory
<1>1. IsCall(c) /\ c.step = "reread" /\ c.kind = "reload" /\ Fits(Hup, c)
  <2>1. ASSUME NEW d, d = c
        PROVE  d = [step |-> "reread", kind |-> "reload", who |-> {}, on |-> FALSE,
                    set |-> FALSE, tool |-> 0, was |-> FALSE, rows |-> {}, list |-> {},
                    alone |-> TRUE]
    BY <2>1 DEF Blank
  <2> DEFINE e == [step |-> "reread", kind |-> "reload", who |-> {}, on |-> FALSE,
                   set |-> FALSE, tool |-> 0, was |-> FALSE, rows |-> {}, list |-> {},
                   alone |-> TRUE]
  <2>2. c = e
    BY <2>1
  <2> HIDE DEF c
  <2>3. /\ e.step = "reread" /\ e.kind = "reload" /\ e.who = {} /\ e.on = FALSE
        /\ e.set = FALSE /\ e.was = FALSE /\ e.rows = {} /\ e.alone = TRUE
    OBVIOUS
  <2>4. Fields(e)
    BY DEF Fields
  <2> HIDE DEF e
  <2>5. IsCall(e)
    BY <2>3, <2>4 DEF IsCall, CallKinds, StatusSteps
  <2>6. Fits(Hup, e)
    BY <2>3 DEF Fits
  <2> QED BY <2>2, <2>3, <2>5, <2>6
<1> HIDE DEF c
<1>2. /\ Callers'
      /\ Held(c, call'[Hup])
      /\ \A q \in Proc \ {Hup} :
           /\ Held(call[q], call'[q])
           /\ ~InCall(q) => call'[q] = call[q]
           /\ InCall(q) => ~call'[q].alone
      /\ call'[Hup].alone => \A q \in Proc \ {Hup} : ~InCall(q)
      /\ muddled' = (muddled \/ Muddle(Hup, c.kind))
  BY <1>0, <1>1, BeginCalls DEF CircleInv
<1>3. Tables' /\ Flags'
  BY <1>0, <1>2 DEF CircleInv, Tables, Flags
<1>4. \A q \in Proc \ {Hup} : InCall(q)' <=> InCall(q)
  BY <1>2 DEF InCall, At, Held
<1>5. Stages'
  BY <1>0, <1>4 DEF CircleInv, Stages
<1>6. Solo'
  <2>1. raced' \in BOOLEAN /\ (~raced' => Rivals(Hup) = {} /\ ~raced)
    BY <1>0
  <2> QED BY <1>0, <1>1, <2>1, BeginShape
<1>7. Tuned'
  <2> SUFFICES ASSUME Steady'
               PROVE  /\ (\A q \in Service : ~InCall(q)') => InTune'
                      /\ \A q \in Service : InCall(q)' => Midway(q)'
    BY DEF Tuned
  <2>1. call'[Hup].step = "reread"
    BY <1>1, <1>2 DEF Held
  <2>2. InCall(Hup)' /\ Midway(Hup)'
    BY <2>1 DEF InCall, At, Midway, Refilling, Loading
  <2>3. \A q \in Service \ {Hup} : ~InCall(q)'
    BY <1>6, <2>2 DEF Solo, Steady
  <2> QED BY <2>2, <2>3
<1>8. Paired'
  <2> SUFFICES ASSUME ~muddled' PROVE Pairs'
    BY PairsNext
  <2>1. Pairs /\ \A q \in Proc \ {Hup} : call[q].kind # "status"
    BY <1>1, <1>2, NotMuddled, PairsHere DEF CircleInv
  <2>2. call'[Hup].kind = "reload" /\ call'[Hup].step = "reread"
    BY <1>1, <1>2 DEF Held
  <2>3. \A q \in Proc : call'[q].kind # "status"
    BY <1>2, <2>1, <2>2 DEF Held
  <2>4. call[Hup].kind = "none"
    BY <1>0, Placed DEF IsCall, InCall, At
  <2>5. away' = status'
    BY <1>0, <2>1, <2>4 DEF Pairs
  <2>6. InReload'
    BY <2>2 DEF InReload
  <2> QED BY <2>2, <2>3, <2>5, <2>6 DEF Pairs
<1> QED BY <1>2, <1>3, <1>5, <1>6, <1>7, <1>8 DEF CircleInv

LEMMA StoredCopy ==
  ASSUME Tables
  PROVE  /\ Stored \in Copy /\ Stored.status = status /\ Stored.setting = setting
         /\ Stored.entries = vip /\ Stored.over = StoredOver
<1>1. Stored = [status |-> status, setting |-> setting, entries |-> vip,
                over |-> StoredOver]
  BY DEF Stored, StoredOver
<1>2. StoredOver \in [Person -> BOOLEAN \cup {None}]
  BY DEF StoredOver, Tables
<1> QED BY <1>1, <1>2 DEF Copy, Tables

LEMMA RequestKeeps ==
  ASSUME CircleInv, NEW p \in Caller \cup {Cli}, Request(p)
  PROVE  CircleInv'
<1> USE Procs, Homes
<1>p. p \in Proc /\ p # Hup /\ p # Main
  OBVIOUS
<1> USE <1>p
<1>0. /\ ~InCall(p) /\ (p \in Caller => phase = "up")
      /\ raced' = (raced \/ Rivals(p) # {})
      /\ cache' = IF p = Cli THEN [cache EXCEPT !["cli"] = Stored] ELSE cache
      /\ UNCHANGED <<status, away, setting, vip, over, think, phase, sig>>
  BY DEF Request, tables, memory
<1>1. PICK c \in ServiceCalls : Begin(p, c)
  BY DEF Request, ServiceCalls
<1>2. /\ IsCall(c) /\ c.kind \in Requests /\ c.step = FirstStep[c.kind]
      /\ c.step \in {"status", "put", "person", "admit", "strike", "grants"}
  <2>1. IsCall(c) /\ c.kind \in Requests /\ c.step = FirstStep[c.kind]
    BY NewCalls DEF Starts
  <2> QED BY <2>1, FirstSteps DEF Requests
<1>3. Fits(p, c)
  BY <1>2 DEF Fits, Requests, Ending
<1>4. /\ Callers'
      /\ Held(c, call'[p])
      /\ \A q \in Proc \ {p} :
           /\ Held(call[q], call'[q])
           /\ ~InCall(q) => call'[q] = call[q]
           /\ InCall(q) => ~call'[q].alone
      /\ call'[p].alone => \A q \in Proc \ {p} : ~InCall(q)
      /\ muddled' = (muddled \/ Muddle(p, c.kind))
  BY <1>0, <1>1, <1>2, <1>3, BeginCalls DEF CircleInv
<1>5. /\ cache' \in [{"service", "cli"} -> Copy] /\ Mem' = Mem
      /\ p = Cli => cache'["cli"].status = status
  BY <1>0, StoredCopy DEF CircleInv, Tables, Mem
<1>6. Tables' /\ Flags'
  BY <1>0, <1>4, <1>5 DEF CircleInv, Tables, Flags
<1>7. InCall(p)' /\ \A q \in Proc \ {p} : InCall(q)' <=> InCall(q)
  BY <1>2, <1>4 DEF InCall, At, Held
<1>8. Stages'
  BY <1>0, <1>7 DEF CircleInv, Stages
<1>9. Solo'
  <2>1. raced' \in BOOLEAN /\ (~raced' => Rivals(p) = {} /\ ~raced)
    BY <1>0
  <2>2. c.step # "idle"
    BY <1>2
  <2> QED BY <1>0, <1>1, <1>2, <1>3, <2>1, <2>2, BeginShape
<1>10. ServiceSame /\ Tables
  BY <1>0, <1>5 DEF ServiceSame, CircleInv
<1>11. \A q \in Proc \ {p} : Midway(q)' = Midway(q)
  <2> TAKE q \in Proc \ {p}
  <2>1. TheOne(q)' = TheOne(q)
    BY <1>4 DEF TheOne, Held
  <2>2. StoredOver' = StoredOver
    BY <1>0 DEF StoredOver
  <2> QED BY <1>0, <1>4, <1>5, <2>1, <2>2 DEF Midway, Held
<1>12. Tuned'
  <2> SUFFICES ASSUME phase' # "down", Steady', ~Owed'
               PROVE  /\ (\A q \in Service : ~InCall(q)') => InTune'
                      /\ \A q \in Service : InCall(q)' => Midway(q)'
    BY DEF Tuned
  <2>1. ~Alone'
    BY <1>4, <1>7 DEF Alone
  <2>2. ~raced /\ Rivals(p) = {}
    BY <1>0, <2>1 DEF Steady
  <2>3. ~Owed
    BY <1>0, <1>4, <1>7 DEF Owed, Held, InCall, At
  <2>4. /\ (\A q \in Service : ~InCall(q)) => InTune
        /\ \A q \in Service : InCall(q) => Midway(q)
    BY <1>0, <2>2, <2>3 DEF CircleInv, Tuned, Steady
  <2>5. InTune => InTune'
    <3>1. StoredOver' = StoredOver
      BY <1>0 DEF StoredOver
    <3> QED BY <1>0, <1>5, <1>6, <1>10, <3>1, InTuneMeans, InTuneNext
  <2>6. CASE p = Cli
    BY <1>7, <1>11, <2>4, <2>5, <2>6
  <2>7. CASE p \in Caller
    <3>1. \A q \in Service \ {p} : ~InCall(q)
      BY <2>2, <2>7 DEF Rivals
    <3>2. InTune
      BY <1>0, <2>4, <3>1
    <3>3. Midway(p)'
      <4>1. InTune'
        BY <2>5, <3>2
      <4>2. /\ Mem'.status = status' /\ Mem'.setting = setting' /\ Mem'.entries = vip'
            /\ Mem'.over = StoredOver' /\ think' = setting'
        BY <1>6, <4>1, InTuneNext
      <4>3. call'[p].step \in {"status", "put", "person", "admit", "strike", "grants"}
        BY <1>2, <1>4 DEF Held
      <4> QED BY <4>2, <4>3 DEF Midway
    <3>4. p \in Service /\ InCall(p)' /\ \A q \in Service \ {p} : ~InCall(q)'
      BY <1>7, <2>7, <3>1
    <3> QED BY <3>3, <3>4
  <2> QED BY <2>6, <2>7
<1>13. Paired'
  <2> SUFFICES ASSUME ~muddled' PROVE Pairs'
    BY PairsNext
  <2>1. Pairs /\ ~Muddle(p, c.kind)
    BY <1>4, PairsHere DEF CircleInv
  <2>2. call'[p].kind = c.kind /\ call'[p].step = c.step
    BY <1>4 DEF Held
  <2>3. \A q \in Proc \ {p} : call'[q].kind = call[q].kind /\ call'[q].step = call[q].step
    BY <1>4 DEF Held
  <2>4. call[p].kind = "none"
    BY <1>0, Placed DEF IsCall, InCall, At
  <2>5. ASSUME NEW q \in Proc \ {p}, call'[q].kind = "status"
        PROVE  InStatus(q)'
    <3>1. InStatus(q)
      BY <2>1, <2>3, <2>5 DEF Pairs
    <3>2. cache'[Home(q)] = cache[Home(q)]
      BY <1>0 DEF CircleInv, Tables
    <3> QED BY <1>0, <1>4, <3>1, <3>2 DEF InStatus, Held
  <2>6. CASE c.kind = "status"
    <3>1. ~sig /\ \A q \in Proc \ {p} : call[q].kind \notin {"status", "reload"}
      BY <2>1, <2>6, NotMuddled
    <3>2. away = status /\ (phase # "down" => Mem.status = status)
      BY <2>1, <2>4, <3>1 DEF Pairs
    <3>3. cache'[Home(p)].status = status
      BY <1>0, <1>5, <3>2 DEF Mem
    <3>4. call'[p].step = "status"
      BY <1>2, <2>2, <2>6, FirstSteps
    <3>5. InStatus(p)'
      BY <1>0, <3>2, <3>3, <3>4 DEF InStatus, Ending
    <3> QED BY <2>2, <2>3, <2>5, <2>6, <3>1, <3>5 DEF Pairs
  <2>7. CASE c.kind # "status"
    <3>1. call'[p].kind \notin {"status", "reload"}
      BY <1>2, <2>2, <2>7 DEF Requests
    <3>2. \A r, q \in Proc :
            r # q /\ call'[r].kind = "status" => call'[q].kind \notin {"status", "reload"}
      BY <2>1, <2>3, <3>1 DEF Pairs
    <3>3. (\A q \in Proc : call'[q].kind # "status") => away' = status'
      BY <1>0, <2>1, <2>3, <2>4 DEF Pairs
    <3>4. (\A q \in Proc : call'[q].kind \notin {"status", "reload"}) /\ ~sig'
             /\ phase' # "down" => Mem'.status = status'
      BY <1>0, <1>5, <2>1, <2>3, <2>4 DEF Pairs
    <3>5. call'[Hup].kind = "reload" /\ ~sig' => InReload'
      <4> SUFFICES ASSUME call'[Hup].kind = "reload", ~sig' PROVE InReload'
        OBVIOUS
      <4>1. InReload
        BY <1>0, <2>1, <2>3 DEF Pairs
      <4> QED BY <1>0, <1>4, <1>5, <4>1 DEF InReload, Held
    <3> QED BY <2>5, <3>1, <3>2, <3>3, <3>4, <3>5 DEF Pairs
  <2> QED BY <2>6, <2>7
<1> QED BY <1>4, <1>6, <1>8, <1>9, <1>12, <1>13 DEF CircleInv

LEMMA StartKeeps ==
  ASSUME CircleInv, Start
  PROVE  CircleInv'
<1> USE Procs, Homes
<1> DEFINE c == [Blank EXCEPT !.step = "status", !.kind = "status",
                              !.who = Person, !.on = StartStatus]
<1>0. /\ phase = "down" /\ phase' = "starting" /\ think' = setting
      /\ cache' = [cache EXCEPT !["service"] = Stored]
      /\ Begin(Main, c) /\ raced' = (Rivals(Main) # {})
      /\ UNCHANGED <<status, away, setting, vip, over, sig>>
  BY DEF Start, tables
<1>1. IsCall(c) /\ c.step = "status" /\ c.kind = "status" /\ Fits(Main, c)
  <2>1. ASSUME NEW d, d = c PROVE d = NewCall("status", Person, StartStatus, FALSE, 0)
    BY <2>1, FirstSteps DEF Blank, NewCall
  <2>2. c = NewCall("status", Person, StartStatus, FALSE, 0)
    BY <2>1
  <2> HIDE DEF c
  <2>3. Starts(NewCall("status", Person, StartStatus, FALSE, 0))
    <3>1. "status" \in Requests /\ StartStatus \in BOOLEAN /\ FALSE \in BOOLEAN
      BY CircleConstants DEF Requests
    <3> QED BY <3>1, FreshCall
  <2>4. c.kind = "status"
    BY <2>2 DEF NewCall
  <2>5. IsCall(c) /\ c.step = "status"
    BY <2>2, <2>3, <2>4, FirstSteps DEF Starts
  <2>6. Fits(Main, c)
    BY <2>4, <2>5 DEF Fits, StatusSteps
  <2> QED BY <2>4, <2>5, <2>6
<1> HIDE DEF c
<1>2. \A q \in Service : ~InCall(q)
  BY <1>0 DEF CircleInv, Stages
<1>a. ~sig
  BY <1>0 DEF CircleInv, Stages
<1>3. /\ Callers'
      /\ Held(c, call'[Main])
      /\ \A q \in Proc \ {Main} :
           /\ Held(call[q], call'[q])
           /\ ~InCall(q) => call'[q] = call[q]
           /\ InCall(q) => ~call'[q].alone
      /\ call'[Main].alone => \A q \in Proc \ {Main} : ~InCall(q)
      /\ muddled' = (muddled \/ Muddle(Main, c.kind))
  BY <1>0, <1>1, <1>2, BeginCalls DEF CircleInv
<1>4. /\ cache' \in [{"service", "cli"} -> Copy] /\ Mem' = Stored
  BY <1>0, StoredCopy DEF CircleInv, Tables, Mem
<1>5. Tables' /\ Flags'
  BY <1>0, <1>3, <1>4 DEF CircleInv, Tables, Flags
<1>6. InCall(Main)' /\ \A q \in Proc \ {Main} : InCall(q)' <=> InCall(q)
  BY <1>1, <1>3 DEF InCall, At, Held
<1>7. Stages'
  BY <1>0, <1>2, <1>6, <1>a DEF Stages
<1>8. Solo'
  <2>1. raced' \in BOOLEAN /\ (~raced' => Rivals(Main) = {})
    BY <1>0
  <2>2. c.step # "idle"
    BY <1>1
  <2> QED BY <1>0, <1>1, <1>2, <2>1, <2>2, BeginShape
<1>b. Mem'.status = status' /\ Mem'.setting = setting' /\ Mem'.entries = vip'
      /\ Mem'.over = StoredOver' /\ think' = setting'
  <2>1. StoredOver' = StoredOver
    BY <1>0 DEF StoredOver
  <2> QED BY <1>0, <1>4, <2>1, StoredCopy DEF CircleInv
<1>9. Tuned'
  <2>1. call'[Main].step = "status"
    BY <1>1, <1>3 DEF Held
  <2>2. Midway(Main)'
    BY <1>b, <2>1 DEF Midway
  <2> QED BY <1>2, <1>6, <2>2 DEF Tuned
<1>10. Paired'
  <2> SUFFICES ASSUME ~muddled' PROVE Pairs'
    BY PairsNext
  <2>1. Pairs /\ ~Muddle(Main, "status")
    BY <1>1, <1>3, PairsHere DEF CircleInv
  <2>2. \A q \in Proc \ {Main} : call[q].kind \notin {"status", "reload"}
    BY <2>1, NotMuddled
  <2>3. call[Main].kind = "none"
    BY <1>2, Placed DEF IsCall, InCall, At
  <2>4. away = status
    BY <2>1, <2>2, <2>3 DEF Pairs
  <2>5. call'[Main].kind = "status" /\ call'[Main].step = "status"
    BY <1>1, <1>3 DEF Held
  <2>6. \A q \in Proc \ {Main} : call'[q].kind \notin {"status", "reload"}
    BY <1>3, <2>2 DEF Held
  <2>7. InStatus(Main)'
    BY <1>0, <1>b, <2>4, <2>5 DEF InStatus, Ending, Mem
  <2> QED BY <2>5, <2>6, <2>7 DEF Pairs
<1> QED BY <1>3, <1>5, <1>7, <1>8, <1>9, <1>10 DEF CircleInv

\* The invariant is inductive.
LEMMA CircleInitInv == CircleInit => CircleInv
<1> USE Procs, Homes
<1> SUFFICES ASSUME CircleInit PROVE CircleInv
  OBVIOUS
<1>0. /\ call = [p \in Proc |-> Blank]
      /\ \A p \in Proc : call[p] = Blank /\ ~InCall(p)
  BY Idle DEF CircleInit, InCall, At
<1>1. Tables
  <2>1. NoOverride \in [Person -> BOOLEAN \cup {None}]
    BY DEF NoOverride
  <2> QED BY <2>1, CircleConstants DEF CircleInit, Tables, Copy
<1>2. Flags /\ Stages
  BY <1>0 DEF CircleInit, Flags, Stages
<1>3. Callers
  <2>1. \A p \in Proc : Fits(p, Blank)
    BY Idle DEF Fits, StatusSteps, Ending
  <2> QED BY <1>0, <2>1, Idle DEF Callers
<1>4. Solo
  BY <1>0 DEF Solo, Alone
<1>5. Tuned
  BY DEF CircleInit, Tuned
<1>6. Paired
  <2>1. \A p \in Proc : call[p].kind = "none"
    BY <1>0, Idle
  <2> QED BY <2>1 DEF CircleInit, Paired
<1> QED BY <1>1, <1>2, <1>3, <1>4, <1>5, <1>6 DEF CircleInv

LEMMA CircleStepInv == CircleInv /\ [CircleNext]_circle => CircleInv'
<1> SUFFICES ASSUME CircleInv, [CircleNext]_circle PROVE CircleInv'
  OBVIOUS
<1> USE Procs
<1>1. CASE UNCHANGED circle
  BY <1>1, NothingSeen DEF circle, tables, memory, history
<1>2. ASSUME NEW p \in Caller \cup {Cli}, Request(p) PROVE CircleInv'
  BY <1>2, RequestKeeps
<1>3. ASSUME NEW p \in Proc, Progress(p) PROVE CircleInv'
  <2>1. CASE SetStatus(p)
    BY <2>1, ReadStatusKeeps, SetRowKeeps, ClearAllEnabledKeeps, ForgetOverridesKeeps,
       ShowStatusKeeps, KeepAwayKeeps DEF SetStatus
  <2>2. CASE SetThinking(p)
    BY <2>2, StoreSettingKeeps, ShowSettingKeeps, TellModelKeeps DEF SetThinking
  <2>3. CASE SetVIPStatus(p)
    BY <2>3, StoreOverrideKeeps, ApplyOverrideKeeps DEF SetVIPStatus
  <2>4. CASE AddVIP(p)
    BY <2>4, AdmitKeeps DEF AddVIP
  <2>5. CASE DeleteVIP(p)
    BY <2>5, StrikeMemberKeeps, StrikeAccessKeeps, StrikeStatusKeeps DEF DeleteVIP
  <2>6. CASE Load(p)
    BY <2>6, ReadAllKeeps, EmptyMapsKeeps, FillMapsKeeps, LoadedKeeps DEF Load
  <2>7. CASE SetAccess(p)
    BY <2>7, ReadGrantsKeeps, StoreGrantsKeeps DEF SetAccess
  <2> QED BY <1>3, <2>1, <2>2, <2>3, <2>4, <2>5, <2>6, <2>7 DEF Progress
<1>4. CASE Reload
  BY <1>4, RereadKeeps, ReshowKeeps DEF Reload
<1>5. CASE DigestEnds
  BY <1>5, NothingSeen DEF DigestEnds, tables
<1> QED
  BY <1>1, <1>2, <1>3, <1>4, <1>5, WakeKeeps, StartKeeps, WritePidFileKeeps, ListenKeeps,
     CrashKeeps, NotifyRunningKeeps DEF CircleNext

\* At every step of every call, of the service, of its reload and of the command, the
\* service's memory and the away window lack of the tables what the rest of the call
\* will make good, and nothing else (assistant.go, the setters, Load and Reload).
THEOREM CircleInvariant == CircleSafeSpec => []CircleInv
  BY CircleInitInv, CircleStepInv, PTL DEF CircleSafeSpec

LEMMA TunedGoesLive == CircleInv => ChangesGoLive
<1> USE Procs
<1> SUFFICES ASSUME CircleInv, Quiet, ~raced PROVE InTune
  BY DEF ChangesGoLive
<1>1. phase # "down" /\ Steady /\ ~Owed /\ \A p \in Service : ~InCall(p)
  BY DEF Quiet, Steady, Owed
<1> QED BY <1>1 DEF CircleInv, Tuned

LEMMA PairedAway == CircleInv => AwayPaired
<1> SUFFICES ASSUME CircleInv, Quiet, ~muddled PROVE away = status
  BY DEF AwayPaired
<1>1. \A p \in Proc : call[p].kind # "status"
  BY Placed DEF Quiet, IsCall, InCall, At
<1> QED BY <1>1 DEF CircleInv, Paired

\* Changes take effect live, for any people, callers and tools and any number of calls
\* and starts: when the service is up, no signal waits and no call is under way, its
\* memory and its model client's flag are what the tables say, unless calls of the
\* service have overlapped since the last reload that ran alone.
THEOREM ChangesLive == CircleSafeSpec => []ChangesGoLive
  BY CircleInvariant, TunedGoesLive, PTL

\* The away window is open exactly while Clark is on, through the status changes of two
\* processes, reloads, crashes and restarts, unless status changes have overlapped or
\* one was cut short.
THEOREM AwayIsPaired == CircleSafeSpec => []AwayPaired
  BY CircleInvariant, PairedAway, PTL
=============================================================================
