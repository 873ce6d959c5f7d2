---------------------------- MODULE VoiceProofs ----------------------------
(***************************************************************************)
(* Theorems about voice: first the speech engines, for any number of       *)
(* calls, processes and faults, any back-off and any number of slots; then *)
(* the hands-free loop of the page, for any number of sentences and of     *)
(* outside events.                                                         *)
(***************************************************************************)
EXTENDS Speech, HandsFree, SequenceTheorems, FiniteSetTheorems, TLAPS

\* The type invariant in three parts.
Counters ==
  wait \in 0..Base /\ since \in 0..Base /\ fails \in Nat /\ faults \in 0..MaxFaults

Places ==
  /\ engine \in {"piper", "failover", "whisper"} /\ panicked \in BOOLEAN
  /\ lock \in Call \cup {NoCall} /\ d \in Proc \cup {NoProc}
  /\ pc \in [Call -> {"idle", "primary", "slot", "lock", "start", "boot", "write", "read", "done"}]
  /\ live \subseteq Call /\ slots \subseteq Call /\ retried \subseteq Call
  /\ answer \in [Call -> Call \cup {None, "primary", "err", "garbage"}]
  /\ reader \in [Call -> {None, "spawn", "head", "size", "body"}]
  /\ from \in [Call -> Proc \cup {NoProc}] /\ wrote \in [Call -> Proc \cup {NoProc}]
  /\ result \in [Call -> Call \cup {None, "err", "empty", "garbage"}]
  /\ up \subseteq Proc /\ stuck \subseteq Proc /\ torn \subseteq Proc /\ spared \subseteq Proc
  /\ ctxOf \in [Proc -> Call \cup {Boot}]

Pipes ==
  /\ inp \in [Proc -> Seq(Call)]
  /\ out \in [Proc -> Seq([call : Call, kind : Kinds])]

Inside == {"start", "boot", "write", "read"}

\* One call at a time is between startLocked and its answer, it holds the
\* mutex, and only it changes the engine's daemon.
Section ==
  /\ \A c \in Call : pc[c] \in Inside <=> lock = c
  /\ \A c \in Call : pc[c] = "start" => d = NoProc
  /\ \A c \in Call : pc[c] \in {"boot", "write", "read"} => d \in Proc
  /\ \A c \in Call : pc[c] = "read" => wrote[c] = d

\* A reader belongs to a call that has written and has not answered yet.  One
\* that was left behind was left with the process it was started on.
Readers ==
  /\ \A c \in Call : reader[c] # None =>
       /\ pc[c] \in {"read", "done"} /\ result[c] = None
       /\ wrote[c] \in Proc
       /\ wrote[c] = d => pc[c] = "read"
       /\ reader[c] \in {"head", "body"} => from[c] \in Proc
  /\ \A c \in Call : pc[c] \notin {"read", "done"} => result[c] = None
  /\ \A c \in Call : result[c] \in {None, "err", "empty", "garbage", c}

\* A pipe in step holds one frame at most, for whoever reads it, ...
InStep ==
  \A p \in Proc \ torn :
    /\ Len(inp[p]) + Len(out[p]) <= 1
    /\ \A c \in Call : reader[c] # None /\ wrote[c] = p =>
         /\ \A k \in DOMAIN inp[p] : inp[p][k] = c
         /\ \A k \in DOMAIN out[p] : out[p][k].call = c

\* ... and the daemon's pipe is empty between two calls.
Drained ==
  d \in Proc \ torn =>
    \/ inp[d] = <<>> /\ out[d] = <<>>
    \/ \E c \in Call : pc[c] = "read" /\ result[c] \in {None, "err"}

IInv == Counters /\ Places /\ Pipes /\ Section /\ Readers /\ InStep /\ Drained /\ OwnAudio

\* The back-off has been waited for, or is still running.
Backing == Piper => Base <= wait + since

-----------------------------------------------------------------------------
LEMMA TypeParts == TypeOK <=> Counters /\ Places /\ Pipes
BY DEF TypeOK, Counters, Places, Pipes

\* Pipes that are not touched stay in step, and the types of what is in them.
LEMMA PipesKept ==
  ASSUME Pipes, UNCHANGED <<engine, inp, out>>
  PROVE  Pipes'
BY DEF Pipes, Kinds, Piper

LEMMA InStepKept ==
  ASSUME InStep, UNCHANGED <<inp, out>>, torn \subseteq torn',
         \A c \in Call : reader'[c] # None => reader[c] # None /\ wrote'[c] = wrote[c]
  PROVE  InStep'
<1> SUFFICES ASSUME NEW p \in Proc \ torn'
             PROVE  /\ Len(inp[p]) + Len(out[p]) <= 1
                    /\ \A c \in Call : reader'[c] # None /\ wrote'[c] = p =>
                         /\ \A k \in DOMAIN inp[p] : inp[p][k] = c
                         /\ \A k \in DOMAIN out[p] : out[p][k].call = c
  BY DEF InStep
<1>1. p \in Proc \ torn  OBVIOUS
<1>2. Len(inp[p]) + Len(out[p]) <= 1  BY <1>1 DEF InStep
<1>3. ASSUME NEW c \in Call, reader'[c] # None, wrote'[c] = p
      PROVE  /\ \A k \in DOMAIN inp[p] : inp[p][k] = c
             /\ \A k \in DOMAIN out[p] : out[p][k].call = c
  <2>1. reader[c] # None /\ wrote[c] = p  BY <1>3
  <2> QED  BY <1>1, <2>1 DEF InStep
<1> QED  BY <1>2, <1>3

LEMMA InitInv == Init => IInv
<1> SUFFICES ASSUME Init PROVE IInv
  OBVIOUS
<1> USE BoundsType, NamesAreNew DEF Init
<1>1. (CHOOSE p \in Proc : TRUE) \in Proc  BY SomeProc
<1>2. Base \in Nat /\ Base \in 0..Base /\ 0 \in 0..Base /\ 0 \in 0..MaxFaults  OBVIOUS
<1>3. Counters /\ Places  BY <1>1, <1>2 DEF Counters, Places, None
<1>6. Pipes  BY DEF Pipes
<1>4. Section /\ Readers /\ OwnAudio  BY DEF Section, Readers, OwnAudio, Inside, None
<1>5. InStep /\ Drained
  <2>1. \A p \in Proc : inp[p] = <<>> /\ out[p] = <<>> /\ Len(inp[p]) = 0 /\ Len(out[p]) = 0
    OBVIOUS
  <2>2. \A c \in Call : reader[c] = None  OBVIOUS
  <2> QED  BY <2>1, <2>2 DEF InStep, Drained
<1> QED  BY <1>3, <1>4, <1>5, <1>6 DEF IInv

\* A step of a call that is not in its turn with the engine, and answers, if
\* at all, with something else than an engine's answer.
LEMMA AroundInv ==
  ASSUME IInv, Counters', Places', engine' = engine, NEW c \in Call, pc[c] \notin Inside \cup {"done"},
         NEW l \in {"idle", "primary", "slot", "lock", "done"}, pc' = [pc EXCEPT ![c] = l],
         NEW a \in {None, "primary", "err"},
         answer' = answer \/ answer' = [answer EXCEPT ![c] = a],
         UNCHANGED <<lock, d, readVars, inp, out, torn>>
  PROVE  IInv'
<1> USE DEF IInv
<1>1. /\ \A x \in Call : x # c => pc'[x] = pc[x]
      /\ pc'[c] = l
  BY DEF Places
<1>2. reader[c] = None /\ result[c] = None
  BY DEF Readers, Inside
<1>3. Section'  BY <1>1 DEF Section, Inside, readVars
<1>4. Readers'  BY <1>1, <1>2 DEF Readers, Inside, readVars
<1>5. InStep' /\ Pipes'  BY InStepKept, PipesKept DEF readVars
<1>6. Drained'
  <2>1. \A x \in Call : pc[x] = "read" => pc'[x] = "read"  BY <1>1 DEF Inside
  <2> QED  BY <2>1 DEF Drained, readVars
<1>7. OwnAudio'  BY DEF OwnAudio, Places
<1> QED  BY <1>3, <1>4, <1>5, <1>6, <1>7

LEMMA OutsideInv ==
  ASSUME IInv, NEW c \in Call,
         Ask(c) \/ VoiceNote(c) \/ TakeSlot(c) \/ PrimaryOk(c) \/ PrimaryFails(c)
  PROVE  IInv'
<1> USE DEF IInv, Goto
<1>1. CASE Ask(c)
  <2>1. Counters' /\ Places'  BY <1>1 DEF Ask, Counters, Places, engineVars, readVars, procVars
  <2>2. PICK l \in {"primary", "slot", "lock"} : pc' = [pc EXCEPT ![c] = l]
    BY <1>1 DEF Ask, Places
  <2> QED  BY <1>1, <2>1, <2>2, AroundInv DEF Ask, Inside, engineVars, readVars, procVars
<1>2. CASE VoiceNote(c)
  <2>1. Counters' /\ Places'  BY <1>2 DEF VoiceNote, Counters, Places, engineVars, readVars, procVars
  <2>2. PICK l \in {"lock", "done"} : pc' = [pc EXCEPT ![c] = l]
    BY <1>2 DEF VoiceNote, Counters, Places
  <2> QED  BY <1>2, <2>1, <2>2, AroundInv DEF VoiceNote, Inside, engineVars, readVars, procVars
<1>3. CASE TakeSlot(c)
  <2>1. Counters' /\ Places'  BY <1>3 DEF TakeSlot, Counters, Places, engineVars, readVars, procVars
  <2> QED  BY <1>3, <2>1, AroundInv DEF TakeSlot, Inside, engineVars, readVars, procVars
<1>4. CASE PrimaryOk(c)
  <2>1. Counters' /\ Places'  BY <1>4 DEF PrimaryOk, Counters, Places, readVars, procVars
  <2> QED  BY <1>4, <2>1, AroundInv DEF PrimaryOk, Inside, readVars, procVars
<1>5. CASE PrimaryFails(c)
  <2>1. /\ \/ pc' = [pc EXCEPT ![c] = "lock"] /\ UNCHANGED <<live, answer>>
           \/ /\ pc' = [pc EXCEPT ![c] = "done"]
              /\ answer' = [answer EXCEPT ![c] = "err"]
              /\ live' = live \ {c}
        /\ fails' = fails + 1
        /\ UNCHANGED <<engine, lock, d, wait, slots, retried, readVars, procVars, since, faults,
                       panicked>>
        /\ pc[c] = "primary"
    BY <1>5 DEF PrimaryFails
  <2>2. Counters' /\ Places'  BY <2>1 DEF Counters, Places, readVars, procVars
  <2> QED  BY <2>1, <2>2, AroundInv DEF Inside, readVars, procVars
<1> QED  BY <1>1, <1>2, <1>3, <1>4, <1>5

\* A client that leaves, the clock, and a process that dies or hangs.
LEMMA WorldInv ==
  ASSUME IInv,
         \/ \E c \in Call : ContextEnds(c)
         \/ \E p \in Proc : Reap(p) \/ Crash(p) \/ Hang(p)
         \/ Tick
  PROVE  IInv'
<1> USE DEF IInv
<1>1. Counters' /\ Places'
  <2>1. ASSUME NEW c \in Call, ContextEnds(c) PROVE Counters' /\ Places'
    BY <2>1 DEF ContextEnds, Counters, Places, engineVars, readVars, procVars
  <2>2. ASSUME NEW p \in Proc, Reap(p) \/ Crash(p) \/ Hang(p) PROVE Counters' /\ Places'
    BY <2>2, BoundsType
       DEF Reap, Crash, Hang, Counters, Places, engineVars, callVars, readVars
  <2>3. CASE Tick
    BY <2>3, BoundsType DEF Tick, Counters, Places, callVars, readVars, procVars
  <2> QED  BY <2>1, <2>2, <2>3
<1>2. UNCHANGED <<engine, lock, d, pc, answer, readVars, inp, out, torn>>
  BY DEF ContextEnds, Reap, Crash, Hang, Tick, engineVars, callVars, procVars
<1>3. Section' /\ Readers' /\ OwnAudio'  BY <1>2 DEF Section, Readers, OwnAudio, readVars
<1>4. InStep' /\ Pipes'  BY <1>2, InStepKept, PipesKept DEF readVars
<1>5. Drained'  BY <1>2 DEF Drained, readVars
<1> QED  BY <1>1, <1>3, <1>4, <1>5

LEMMA LockInv == ASSUME IInv, NEW c \in Call, Lock(c) PROVE IInv'
<1> USE DEF IInv, Goto
<1>1. /\ pc[c] = "lock" /\ lock = NoCall /\ lock' = c
      /\ pc' = [pc EXCEPT ![c] = IF d = NoProc THEN "start" ELSE "write"]
      /\ UNCHANGED <<engine, d, answer, readVars, inp, out, torn>>
  BY DEF Lock, callVars, procVars
<1>2. Counters' /\ Places'  BY DEF Lock, Counters, Places, readVars, procVars
<1>3. /\ \A x \in Call : x # c => pc'[x] = pc[x] /\ pc[x] \notin Inside
      /\ pc'[c] = IF d = NoProc THEN "start" ELSE "write"
  BY <1>1, NamesAreNew DEF Section, Places
<1>4. Section'  BY <1>1, <1>3 DEF Section, Inside, Places, readVars
<1>5. Readers'  BY <1>1, <1>3 DEF Readers, readVars
<1>6. InStep' /\ Pipes' /\ OwnAudio'
  BY <1>1, InStepKept, PipesKept DEF OwnAudio, readVars
<1>7. Drained'  BY <1>1, <1>3 DEF Drained, Inside, readVars
<1> QED  BY <1>2, <1>4, <1>5, <1>6, <1>7

-----------------------------------------------------------------------------
(* The steps of the call that holds the mutex. *)

\* The call returns, and either its daemon is given up or its reader is done
\* with a whole answer.
LEMMA FinishInv ==
  ASSUME IInv, Counters', Places', NEW c \in Call, pc[c] \in Inside,
         NEW a \in {"err", "garbage", c}, Finish(c, a),
         \/ d' = NoProc
         \/ d' = d /\ (pc[c] = "read" => result[c] \notin {None, "err"}),
         UNCHANGED <<readVars, inp, out, torn>>
  PROVE  IInv'
<1> USE DEF IInv
<1>1. /\ pc' = [pc EXCEPT ![c] = "done"] /\ answer' = [answer EXCEPT ![c] = a]
      /\ lock' = (IF lock = c THEN NoCall ELSE lock) /\ engine' = engine
  BY DEF Finish, Goto
<1>2. /\ lock = c /\ lock' = NoCall
      /\ \A x \in Call : x # c => pc'[x] = pc[x] /\ pc[x] \notin Inside
      /\ pc'[c] = "done"
  BY <1>1 DEF Section, Places
<1>3. Section'
  <2>1. \A x \in Call : pc'[x] \notin Inside  BY <1>2 DEF Inside
  <2>2. \A x \in Call : lock' # x  BY <1>2, NamesAreNew
  <2> QED  BY <2>1, <2>2 DEF Section, Inside
<1>4. Readers'
  <2>1. \A x \in Call : reader[x] # None => wrote[x] # d'
    <3> SUFFICES ASSUME NEW x \in Call, reader[x] # None, wrote[x] = d' PROVE FALSE
      OBVIOUS
    <3>1. wrote[x] \in Proc  BY DEF Readers
    <3>2. d' = d  BY <3>1, NamesAreNew
    <3>3. pc[x] = "read"  BY <3>2 DEF Readers
    <3>4. x = c  BY <1>2, <3>3 DEF Inside
    <3>5. result[c] = None  BY <3>4 DEF Readers
    <3> QED  BY <3>1, <3>2, <3>3, <3>4, <3>5, NamesAreNew
  <2>2. \A x \in Call : reader[x] # None => pc'[x] \in {"read", "done"}
    BY <1>2 DEF Readers
  <2>3. \A x \in Call : pc'[x] \notin {"read", "done"} => pc[x] \notin {"read", "done"}
    BY <1>2
  <2> QED  BY <2>1, <2>2, <2>3 DEF Readers, readVars
<1>5. InStep' /\ Pipes'  BY <1>1, InStepKept, PipesKept DEF readVars
<1>6. Drained'
  <2> SUFFICES ASSUME d' \in Proc \ torn PROVE inp[d] = <<>> /\ out[d] = <<>> /\ d' = d
    BY DEF Drained
  <2>1. d' = d /\ (pc[c] = "read" => result[c] \notin {None, "err"})  BY NamesAreNew
  <2>2. \A x \in Call : pc[x] = "read" => x = c  BY <1>2 DEF Inside
  <2> QED  BY <2>1, <2>2 DEF Drained
<1>7. OwnAudio'  BY <1>1 DEF OwnAudio, Places
<1> QED  BY <1>3, <1>4, <1>5, <1>6, <1>7

LEMMA RefusedInv ==
  ASSUME IInv, NEW c \in Call, StartRefused(c) \/ BootFails(c) \/ Abandon(c) PROVE IInv'
<1> USE DEF IInv, Finish, Goto
<1>1. Counters' /\ Places'
  <2>1. Counters'
    BY BoundsType DEF StartRefused, BootFails, Abandon, GiveUpDaemon, Counters
  <2>2. CASE StartRefused(c)  BY <2>1, <2>2 DEF StartRefused, Places, readVars, procVars
  <2>3. CASE BootFails(c)  BY <2>1, <2>3 DEF BootFails, GiveUpDaemon, Places, readVars
  <2>4. CASE Abandon(c)  BY <2>1, <2>4 DEF Abandon, GiveUpDaemon, Places, readVars
  <2> QED  BY <2>1, <2>2, <2>3, <2>4
<1>2. /\ pc[c] \in Inside /\ Finish(c, "err")
      /\ d' = NoProc \/ (d' = d /\ pc[c] # "read")
      /\ UNCHANGED <<readVars, inp, out, torn>>
  BY DEF StartRefused, BootFails, Abandon, GiveUpDaemon, Inside, procVars
<1> QED  BY <1>1, <1>2, FinishInv

LEMMA TakeInv == ASSUME IInv, NEW c \in Call, Take(c) PROVE IInv'
<1> USE DEF IInv
<1> DEFINE a == IF result[c] = "empty" THEN "err" ELSE result[c]
<1>1. /\ pc[c] = "read" /\ result[c] # None /\ Finish(c, a)
      /\ d' = NoProc \/ (d' = d /\ result[c] # "err")
      /\ UNCHANGED <<readVars, inp, out, torn>>
  BY DEF Take, GiveUpDaemon
<1>2. a \in {"err", "garbage", c}  BY <1>1 DEF Readers
<1>3. Counters'  BY BoundsType DEF Take, GiveUpDaemon, Finish, Counters
<1>4. Places'
  <2>1. wrote[c] = d /\ d \in Proc  BY <1>1 DEF Section
  <2> QED  BY <1>2, <2>1 DEF Take, GiveUpDaemon, Finish, Goto, Places, readVars
<1> QED  BY <1>1, <1>2, <1>3, <1>4, FinishInv DEF Inside

LEMMA StartInv == ASSUME IInv, NEW c \in Call, Start(c) PROVE IInv'
<1> USE DEF IInv
<1>1. PICK p \in Proc :
        /\ Free(p) /\ d' = p
        /\ up' = up \cup {p} /\ ctxOf' = [ctxOf EXCEPT ![p] = c]
        /\ inp' = [inp EXCEPT ![p] = <<>>] /\ out' = [out EXCEPT ![p] = <<>>]
        /\ stuck' = stuck \ {p} /\ torn' = torn \ {p} /\ spared' = spared \ {p}
  BY DEF Start
<1>2. PICK l \in {"write", "boot"} : pc' = [pc EXCEPT ![c] = l]
  BY DEF Start, Goto
<1>3. /\ pc[c] = "start"
      /\ UNCHANGED <<engine, lock, wait, fails, live, slots, retried, answer, readVars, since,
                     faults, panicked>>
  BY DEF Start
<1>4. \A x \in Call : reader[x] # None => wrote[x] # p /\ from[x] # p
  BY <1>1 DEF Free
<1>5. /\ lock = c /\ d = NoProc /\ pc'[c] = l
      /\ \A x \in Call : x # c => pc'[x] = pc[x] /\ pc[x] \notin Inside
  BY <1>2, <1>3 DEF Section, Inside, Places
<1>6. Counters' /\ Places' /\ Pipes'
  <2>1. Counters'  BY <1>3 DEF Counters
  <2>2. Places'  BY <1>1, <1>2, <1>3 DEF Places, readVars
  <2>3. Kinds' = Kinds  BY <1>3 DEF Kinds, Piper
  <2>4. inp' \in [Proc -> Seq(Call)]
    <3>1. <<>> \in Seq(Call)  OBVIOUS
    <3> QED  BY <1>1, <3>1 DEF Pipes
  <2>5. out' \in [Proc -> Seq([call : Call, kind : Kinds])]
    <3>1. <<>> \in Seq([call : Call, kind : Kinds])  OBVIOUS
    <3> QED  BY <1>1, <3>1 DEF Pipes
  <2>6. Pipes'  BY <2>3, <2>4, <2>5 DEF Pipes
  <2> QED  BY <2>1, <2>2, <2>6
<1>7. Section'  BY <1>1, <1>3, <1>5 DEF Section, Inside, readVars
<1>8. Readers'
  <2>1. reader[c] = None /\ result[c] = None  BY <1>3 DEF Readers
  <2>2. \A x \in Call : pc'[x] \notin {"read", "done"} => x = c \/ pc[x] \notin {"read", "done"}
    BY <1>5
  <2> QED  BY <1>1, <1>3, <1>4, <1>5, <2>1, <2>2 DEF Readers, readVars
<1>9. inp'[p] = <<>> /\ out'[p] = <<>>  BY <1>1 DEF Pipes
<1>10. InStep'
  <2> SUFFICES ASSUME NEW q \in Proc \ torn'
               PROVE  /\ Len(inp'[q]) + Len(out'[q]) <= 1
                      /\ \A x \in Call : reader'[x] # None /\ wrote'[x] = q =>
                           /\ \A k \in DOMAIN inp'[q] : inp'[q][k] = x
                           /\ \A k \in DOMAIN out'[q] : out'[q][k].call = x
    BY DEF InStep
  <2>1. CASE q = p
    <3>1. Len(inp'[q]) = 0 /\ Len(out'[q]) = 0  BY <1>9, <2>1
    <3>2. \A x \in Call : ~(reader'[x] # None /\ wrote'[x] = q)
      BY <1>3, <1>4, <2>1 DEF readVars
    <3> QED  BY <3>1, <3>2
  <2>2. CASE q # p
    <3>1. q \in Proc \ torn /\ inp'[q] = inp[q] /\ out'[q] = out[q]
      BY <1>1, <2>2 DEF Pipes
    <3>2. Len(inp[q]) + Len(out[q]) <= 1  BY <3>1 DEF InStep
    <3>3. \A x \in Call : reader[x] # None /\ wrote[x] = q =>
            /\ \A k \in DOMAIN inp[q] : inp[q][k] = x
            /\ \A k \in DOMAIN out[q] : out[q][k].call = x
      BY <3>1 DEF InStep
    <3>4. reader' = reader /\ wrote' = wrote  BY <1>3 DEF readVars
    <3>5. ASSUME NEW x \in Call, reader'[x] # None, wrote'[x] = q
          PROVE  /\ \A k \in DOMAIN inp'[q] : inp'[q][k] = x
                 /\ \A k \in DOMAIN out'[q] : out'[q][k].call = x
      <4>1. reader[x] # None /\ wrote[x] = q  BY <3>4, <3>5
      <4> QED  BY <3>1, <3>3, <4>1
    <3>6. Len(inp'[q]) + Len(out'[q]) <= 1  BY <3>1, <3>2
    <3> QED  BY <3>5, <3>6
  <2> QED  BY <2>1, <2>2
<1>11. Drained' /\ OwnAudio'  BY <1>1, <1>3, <1>9 DEF Drained, OwnAudio
<1> QED  BY <1>6, <1>7, <1>8, <1>10, <1>11

LEMMA BootOkInv == ASSUME IInv, NEW c \in Call, BootOk(c) PROVE IInv'
<1> USE DEF IInv
<1>1. /\ pc[c] = "boot" /\ pc' = [pc EXCEPT ![c] = "write"] /\ d \in up
      /\ UNCHANGED <<engine, lock, d, answer, readVars, inp, out, torn>>
  BY DEF BootOk, Goto, engineVars, procVars
<1>2. Counters' /\ Places'
  BY DEF BootOk, Goto, Counters, Places, engineVars, readVars, procVars
<1>3. /\ \A x \in Call : x # c => pc'[x] = pc[x]
      /\ pc'[c] = "write"
  BY <1>1 DEF Places
<1>4. Section'  BY <1>1, <1>3 DEF Section, Inside, readVars
<1>5. Readers'  BY <1>1, <1>3 DEF Readers, readVars
<1>6. InStep' /\ Pipes' /\ OwnAudio'
  BY <1>1, InStepKept, PipesKept DEF OwnAudio, readVars
<1>7. Drained'  BY <1>1, <1>3 DEF Drained, readVars
<1> QED  BY <1>2, <1>4, <1>5, <1>6, <1>7

LEMMA WriteFailsInv == ASSUME IInv, NEW c \in Call, WriteFails(c) PROVE IInv'
<1> USE DEF IInv
<1>1. Counters' /\ Places'
  <2>1. Counters'  BY BoundsType DEF WriteFails, GiveUpDaemon, Finish, Counters
  <2>2. Places'  BY DEF WriteFails, GiveUpDaemon, Finish, Goto, Places, readVars, procVars
  <2> QED  BY <2>1, <2>2
<1>2. /\ pc[c] = "write" /\ d' = NoProc
      /\ UNCHANGED <<readVars, inp, out, torn>>
  BY DEF WriteFails, GiveUpDaemon, procVars
<1>3. CASE Finish(c, "err")  BY <1>1, <1>2, <1>3, FinishInv DEF Inside
<1>4. CASE ~Finish(c, "err")
  <2>1. pc' = [pc EXCEPT ![c] = "start"] /\ UNCHANGED <<engine, lock, answer>>
    BY <1>4 DEF WriteFails, Goto
  <2>2. /\ \A x \in Call : x # c => pc'[x] = pc[x] /\ pc[x] \notin Inside
        /\ pc'[c] = "start" /\ lock = c
    BY <1>2, <2>1 DEF Section, Inside, Places
  <2>3. Section'  BY <1>2, <2>1, <2>2 DEF Section, Inside, readVars
  <2>4. Readers'
    <3>1. reader[c] = None /\ result[c] = None  BY <1>2 DEF Readers
    <3>2. \A x \in Call : reader[x] # None => pc'[x] = pc[x] /\ wrote[x] # d'
      BY <1>2, <2>2, <3>1, NamesAreNew DEF Readers
    <3> QED  BY <1>2, <2>2, <3>1, <3>2 DEF Readers, readVars
  <2>5. InStep' /\ Pipes' /\ OwnAudio'
    BY <1>2, <2>1, InStepKept, PipesKept DEF OwnAudio, readVars
  <2>6. Drained'  BY <1>2, NamesAreNew DEF Drained
  <2> QED  BY <1>1, <2>3, <2>4, <2>5, <2>6
<1> QED  BY <1>3, <1>4

LEMMA WriteInv == ASSUME IInv, NEW c \in Call, Write(c) PROVE IInv'
<1> USE DEF IInv
<1>1. /\ pc[c] = "write" /\ pc' = [pc EXCEPT ![c] = "read"]
      /\ inp' = [inp EXCEPT ![d] = Append(@, c)]
      /\ reader' = [reader EXCEPT ![c] = "spawn"] /\ wrote' = [wrote EXCEPT ![c] = d]
      /\ UNCHANGED <<engine, lock, d, answer, from, result, out, torn>>
  BY DEF Write, Goto, engineVars
<1>2. /\ lock = c /\ d \in Proc /\ result[c] = None
      /\ pc'[c] = "read" /\ reader'[c] = "spawn" /\ wrote'[c] = d
      /\ \A x \in Call : x # c =>
           /\ pc'[x] = pc[x] /\ pc[x] \notin Inside
           /\ reader'[x] = reader[x] /\ wrote'[x] = wrote[x]
  BY <1>1 DEF Section, Readers, Inside, Places
<1>3. \A x \in Call : x # c /\ reader[x] # None => wrote[x] # d
  BY <1>2 DEF Readers, Inside
<1>4. Counters' /\ Places'
  <2>1. Counters'  BY DEF Write, Counters, engineVars
  <2>2. Places'  BY <1>2 DEF Write, Goto, Places, engineVars
  <2> QED  BY <2>1, <2>2
<1>5. Pipes'
  <2>1. Kinds' = Kinds  BY <1>1 DEF Kinds, Piper
  <2>2. Append(inp[d], c) \in Seq(Call)  BY <1>2 DEF Pipes
  <2>3. inp' \in [Proc -> Seq(Call)]  BY <1>1, <2>2 DEF Pipes
  <2> QED  BY <1>1, <2>1, <2>3 DEF Pipes
<1>6. Section'  BY <1>1, <1>2 DEF Section, Inside
<1>7. Readers'  BY <1>1, <1>2, <1>3 DEF Readers, None
<1>8. d \notin torn => inp[d] = <<>> /\ out[d] = <<>>
  BY <1>1, <1>2 DEF Drained, Inside
<1>9. InStep'
  <2> SUFFICES ASSUME NEW q \in Proc \ torn
               PROVE  /\ Len(inp'[q]) + Len(out'[q]) <= 1
                      /\ \A x \in Call : reader'[x] # None /\ wrote'[x] = q =>
                           /\ \A k \in DOMAIN inp'[q] : inp'[q][k] = x
                           /\ \A k \in DOMAIN out'[q] : out'[q][k].call = x
    BY <1>1 DEF InStep
  <2>1. CASE q = d
    <3>1. inp'[q] = <<c>> /\ out'[q] = <<>>  BY <1>1, <1>2, <1>8, <2>1 DEF Pipes
    <3>2. Len(inp'[q]) + Len(out'[q]) <= 1  BY <3>1
    <3>3. \A x \in Call : reader'[x] # None /\ wrote'[x] = q => x = c
      BY <1>2, <1>3, <2>1
    <3>4. /\ \A k \in DOMAIN inp'[q] : inp'[q][k] = c
          /\ \A k \in DOMAIN out'[q] : out'[q][k].call = c
      BY <3>1
    <3> QED  BY <3>2, <3>3, <3>4
  <2>2. CASE q # d
    <3>1. inp'[q] = inp[q] /\ out'[q] = out[q]  BY <1>1, <2>2 DEF Pipes
    <3>2. Len(inp'[q]) + Len(out'[q]) <= 1  BY <3>1 DEF InStep
    <3>3. ASSUME NEW x \in Call, reader'[x] # None, wrote'[x] = q
          PROVE  /\ \A k \in DOMAIN inp'[q] : inp'[q][k] = x
                 /\ \A k \in DOMAIN out'[q] : out'[q][k].call = x
      <4>1. reader[x] # None /\ wrote[x] = q  BY <1>2, <2>2, <3>3
      <4>2. /\ \A k \in DOMAIN inp[q] : inp[q][k] = x
            /\ \A k \in DOMAIN out[q] : out[q][k].call = x
        BY <4>1 DEF InStep
      <4> QED  BY <3>1, <4>2
    <3> QED  BY <3>2, <3>3
  <2> QED  BY <2>1, <2>2
<1>10. Drained' /\ OwnAudio'  BY <1>1, <1>2 DEF Drained, OwnAudio
<1> QED  BY <1>4, <1>5, <1>6, <1>7, <1>9, <1>10

-----------------------------------------------------------------------------
(* The readers and the processes. *)

\* A frame less in the answers of one process keeps every pipe in step.
LEMMA InStepShrinks ==
  ASSUME Pipes, InStep, NEW q \in Proc, out[q] # <<>>,
         out' = [out EXCEPT ![q] = Tail(@)], inp' = inp, torn \subseteq torn',
         \A c \in Call : reader'[c] # None => reader[c] # None /\ wrote'[c] = wrote[c]
  PROVE  InStep'
<1> SUFFICES ASSUME NEW p \in Proc \ torn'
             PROVE  /\ Len(inp'[p]) + Len(out'[p]) <= 1
                    /\ \A c \in Call : reader'[c] # None /\ wrote'[c] = p =>
                         /\ \A k \in DOMAIN inp'[p] : inp'[p][k] = c
                         /\ \A k \in DOMAIN out'[p] : out'[p][k].call = c
  BY DEF InStep
<1>1. p \in Proc \ torn /\ inp'[p] = inp[p]  OBVIOUS
<1>2. /\ Len(out'[p]) <= Len(out[p])
      /\ \A k \in DOMAIN out'[p] : \E j \in DOMAIN out[p] : out'[p][k] = out[p][j]
  <2>1. out[p] \in Seq([call : Call, kind : Kinds])  BY DEF Pipes
  <2>2. CASE p = q
    <3>1. out'[p] = Tail(out[p]) /\ out[p] # <<>>  BY <2>2 DEF Pipes
    <3> QED  BY <2>1, <3>1
  <2>3. CASE p # q
    <3>1. out'[p] = out[p]  BY <2>3 DEF Pipes
    <3> QED  BY <2>1, <3>1
  <2> QED  BY <2>2, <2>3
<1>3. Len(inp'[p]) + Len(out'[p]) <= 1
  <2>1. Len(inp[p]) + Len(out[p]) <= 1  BY <1>1 DEF InStep
  <2>2. Len(inp[p]) \in Nat /\ Len(out[p]) \in Nat  BY DEF Pipes
  <2>3. Len(out'[p]) \in Nat
    <3>1. out[p] \in Seq([call : Call, kind : Kinds])  BY DEF Pipes
    <3>2. CASE p = q
      <4>1. out'[p] = Tail(out[p]) /\ out[p] # <<>>  BY <3>2 DEF Pipes
      <4> QED  BY <3>1, <4>1
    <3>3. CASE p # q
      <4>1. out'[p] = out[p]  BY <3>3 DEF Pipes
      <4> QED  BY <3>1, <4>1
    <3> QED  BY <3>2, <3>3
  <2>4. Len(out'[p]) <= Len(out[p])  BY <1>2
  <2>5. Len(inp'[p]) = Len(inp[p])  BY <1>1
  <2>6. \A i, j, k \in Nat : i + j <= 1 /\ k <= j => i + k <= 1  OBVIOUS
  <2>7. Len(inp[p]) + Len(out'[p]) <= 1  BY <2>1, <2>2, <2>3, <2>4, <2>6
  <2> QED  BY <2>5, <2>7
<1>4. ASSUME NEW c \in Call, reader'[c] # None, wrote'[c] = p
      PROVE  /\ \A k \in DOMAIN inp'[p] : inp'[p][k] = c
             /\ \A k \in DOMAIN out'[p] : out'[p][k].call = c
  <2>1. reader[c] # None /\ wrote[c] = p  BY <1>4
  <2>2. /\ \A k \in DOMAIN inp[p] : inp[p][k] = c
        /\ \A k \in DOMAIN out[p] : out[p][k].call = c
    BY <1>1, <2>1 DEF InStep
  <2> QED  BY <1>1, <1>2, <2>2
<1> QED  BY <1>3, <1>4

\* The goroutine of a call ends, with a result for its call or without.
LEMMA ReaderEnds ==
  ASSUME IInv, NEW c \in Call, reader[c] # None, reader' = [reader EXCEPT ![c] = None],
         NEW r \in {None, "err", "empty", "garbage", c}, result' = [result EXCEPT ![c] = r],
         UNCHANGED <<lock, d, pc, answer, from, wrote>>
  PROVE  Section' /\ Readers' /\ OwnAudio'
<1> USE DEF IInv
<1>1. Section' /\ OwnAudio'  BY DEF Section, OwnAudio
<1>2. /\ \A x \in Call : x # c => reader'[x] = reader[x] /\ result'[x] = result[x]
      /\ reader'[c] = None /\ result'[c] = r
  BY DEF Places
<1>3. pc[c] \in {"read", "done"}  BY DEF Readers
<1>4. Readers'  BY <1>2, <1>3 DEF Readers
<1> QED  BY <1>1, <1>4

LEMMA DerefInv == ASSUME IInv, NEW c \in Call, Deref(c) PROVE IInv'
<1> USE DEF IInv
<1>1. /\ reader[c] \in {"spawn", "size"}
      /\ UNCHANGED <<engine, lock, d, pc, answer, wrote, result, inp, out, torn>>
  BY DEF Deref, engineVars, callVars, procVars
<1>2. \/ d = NoProc /\ UNCHANGED <<reader, from>>
      \/ /\ d # NoProc /\ from' = [from EXCEPT ![c] = d]
         /\ reader' = [reader EXCEPT ![c] = IF @ = "spawn" THEN "head" ELSE "body"]
  BY DEF Deref
<1>3. Counters' /\ Places'
  <2>1. Counters'  BY DEF Deref, Counters, engineVars
  <2>2. panicked' \in BOOLEAN  BY DEF Deref, Places
  <2>3. Places'  BY <1>1, <1>2, <2>2 DEF Deref, Places, callVars, procVars
  <2> QED  BY <2>1, <2>3
<1>4. \A x \in Call : reader'[x] # None => reader[x] # None
  BY <1>1, <1>2 DEF Places, None
<1>5. Section' /\ OwnAudio' /\ Drained'  BY <1>1 DEF Section, OwnAudio, Drained
<1>6. Readers'
  <2>1. \A x \in Call : reader'[x] \in {"head", "body"} => from'[x] \in Proc
    <3>1. d # NoProc => d \in Proc  BY DEF Places
    <3>2. \A x \in Call : reader[x] \in {"head", "body"} => from[x] \in Proc
      BY DEF Readers, None
    <3> QED  BY <1>2, <3>1, <3>2 DEF Places
  <2> QED  BY <1>1, <1>4, <2>1 DEF Readers
<1>7. InStep' /\ Pipes'  BY <1>1, <1>4, InStepKept, PipesKept
<1> QED  BY <1>3, <1>5, <1>6, <1>7

LEMMA StealInv == ASSUME IInv, NEW c \in Call, Steal(c) PROVE IInv'
<1> USE DEF IInv
<1> DEFINE q == from[c]
<1>1. /\ reader[c] \in {"head", "body"} /\ q # wrote[c] /\ out[q] # <<>>
      /\ torn' = torn \cup {q} /\ out' = [out EXCEPT ![q] = Tail(@)]
      /\ reader' = [reader EXCEPT ![c] = None]
      /\ UNCHANGED <<engine, lock, d, pc, answer, from, wrote, result, inp>>
  BY DEF Steal, engineVars, callVars
<1>2. q \in Proc /\ result[c] = None /\ reader[c] # None  BY <1>1 DEF Readers, None
<1>3. Counters' /\ Places'
  <2>1. Counters'  BY DEF Steal, Counters, engineVars
  <2>2. Places'  BY <1>1, <1>2 DEF Steal, Places, callVars
  <2> QED  BY <2>1, <2>2
<1>4. Pipes'
  <2>1. out[q] \in Seq([call : Call, kind : Kinds])  BY <1>2 DEF Pipes
  <2>2. Tail(out[q]) \in Seq([call : Call, kind : Kinds])  BY <1>1, <2>1
  <2>3. Kinds' = Kinds  BY <1>1 DEF Kinds, Piper
  <2> QED  BY <1>1, <2>2, <2>3 DEF Pipes
<1>5. result' = [result EXCEPT ![c] = None]  BY <1>1, <1>2 DEF Places
<1>6. Section' /\ Readers' /\ OwnAudio'  BY <1>1, <1>2, <1>5, ReaderEnds
<1>7. InStep'
  <2>1. \A x \in Call : reader'[x] # None => reader[x] # None /\ wrote'[x] = wrote[x]
    BY <1>1, <1>2 DEF Places
  <2> QED  BY <1>1, <1>2, <2>1, InStepShrinks
<1>8. Drained'
  <2>1. d \in Proc \ torn' => out'[d] = out[d]  BY <1>1 DEF Pipes
  <2> QED  BY <1>1, <2>1 DEF Drained
<1> QED  BY <1>3, <1>4, <1>6, <1>7, <1>8

\* What the reader gets from a pipe it has not emptied is an error, or the
\* pipe is out of step.
LEMMA ReadNothingInv ==
  ASSUME IInv, NEW c \in Call, ReadTorn(c) \/ ReadEOF(c) PROVE IInv'
<1> USE DEF IInv
<1>1. PICK r \in {"err", "garbage"} :
        /\ result' = [result EXCEPT ![c] = r]
        /\ r = "err" \/ (from[c] = wrote[c] /\ from[c] \in torn)
  BY DEF ReadTorn, ReadEOF
<1>2. /\ reader[c] \in {"head", "body"} /\ reader' = [reader EXCEPT ![c] = None]
      /\ UNCHANGED <<engineVars, callVars, from, wrote, procVars, since, faults, panicked>>
  BY DEF ReadTorn, ReadEOF
<1>3. reader[c] # None  BY <1>2 DEF None
<1>4. Counters' /\ Places'
  <2>1. Counters'  BY <1>2 DEF Counters, engineVars
  <2>2. Places'  BY <1>1, <1>2 DEF Places, engineVars, callVars, procVars
  <2> QED  BY <2>1, <2>2
<1>5. Section' /\ Readers' /\ OwnAudio'
  BY <1>1, <1>2, <1>3, ReaderEnds DEF engineVars, callVars
<1>6. InStep' /\ Pipes'
  <2>1. \A x \in Call : reader'[x] # None => reader[x] # None /\ wrote'[x] = wrote[x]
    BY <1>2, <1>3 DEF Places
  <2> QED  BY <1>2, <2>1, InStepKept, PipesKept DEF engineVars, procVars
<1>7. Drained'
  <2> SUFFICES ASSUME d \in Proc \ torn, ~(inp[d] = <<>> /\ out[d] = <<>>)
               PROVE  \E x \in Call : pc[x] = "read" /\ result'[x] \in {None, "err"}
    BY <1>2 DEF Drained, engineVars, callVars, procVars
  <2>1. PICK x \in Call : pc[x] = "read" /\ result[x] \in {None, "err"}
    BY DEF Drained
  <2>2. CASE x # c
    <3>1. result'[x] = result[x]  BY <1>1, <2>2 DEF Places
    <3> QED  BY <2>1, <3>1
  <2>3. CASE x = c
    <3>1. wrote[c] = d  BY <2>1, <2>3 DEF Section
    <3>2. r = "err"  BY <1>1, <3>1
    <3>3. result'[c] = "err"  BY <1>1, <3>2 DEF Places
    <3> QED  BY <2>1, <2>3, <3>3
  <2> QED  BY <2>2, <2>3
<1> QED  BY <1>4, <1>5, <1>6, <1>7

\* The answer at the head of a pipe in step is the reader's own, and the last.
LEMMA HeadIsOwn ==
  ASSUME IInv, NEW c \in Call, reader[c] \in {"head", "body"}, from[c] = wrote[c],
         from[c] \notin torn, out[from[c]] # <<>>
  PROVE  /\ from[c] \in Proc /\ Head(out[from[c]]).call = c
         /\ inp[from[c]] = <<>> /\ Tail(out[from[c]]) = <<>>
<1> USE DEF IInv
<1> DEFINE q == from[c]
<1>1. q \in Proc /\ reader[c] # None  BY DEF Readers, None
<1>2. out[q] \in Seq([call : Call, kind : Kinds]) /\ inp[q] \in Seq(Call)
  BY <1>1 DEF Pipes
<1>3. 1 \in DOMAIN out[q] /\ Head(out[q]) = out[q][1] /\ Len(out[q]) >= 1  BY <1>2
<1>4. out[q][1].call = c  BY <1>1, <1>3 DEF InStep
<1>5. Len(inp[q]) = 0 /\ Len(out[q]) = 1
  <2>1. Len(inp[q]) + Len(out[q]) <= 1  BY <1>1 DEF InStep
  <2>2. Len(inp[q]) \in Nat /\ Len(out[q]) \in Nat  BY <1>2
  <2>3. \A i, j \in Nat : i + j <= 1 /\ j >= 1 => i = 0 /\ j = 1  OBVIOUS
  <2> QED  BY <1>3, <2>1, <2>2, <2>3
<1>6. inp[q] = <<>>  BY <1>2, <1>5, EmptySeq
<1>7. Tail(out[q]) = <<>>
  <2>1. Tail(out[q]) \in Seq([call : Call, kind : Kinds]) /\ Len(Tail(out[q])) = 0
    BY <1>2, <1>3, <1>5
  <2> QED  BY <2>1, EmptySeq
<1> QED  BY <1>1, <1>3, <1>4, <1>6, <1>7

\* A frame that makes no sense is taken off its pipe; so is an answer.
LEMMA ReadFrameInv ==
  ASSUME IInv, NEW c \in Call,
         \/ ReadBody(c)
         \/ ReadHead(c) /\ Head(out[from[c]]).kind = "bad"
  PROVE  IInv'
<1> USE DEF IInv
<1> DEFINE q == from[c]
<1>1. /\ reader[c] \in {"head", "body"} /\ q = wrote[c] /\ q \notin torn /\ out[q] # <<>>
      /\ out' = [out EXCEPT ![q] = Tail(@)] /\ reader' = [reader EXCEPT ![c] = None]
      /\ UNCHANGED <<engineVars, callVars, from, wrote, up, stuck, ctxOf, inp, torn, spared,
                     since, faults, panicked>>
  BY DEF ReadBody, ReadHead
<1>2. /\ q \in Proc /\ Head(out[q]).call = c /\ inp[q] = <<>> /\ Tail(out[q]) = <<>>
      /\ reader[c] # None
  BY <1>1, HeadIsOwn DEF None
<1>3. PICK r \in {"err", "empty", c} : result' = [result EXCEPT ![c] = r]
  BY <1>2 DEF ReadBody, ReadHead
<1>4. Counters' /\ Places'
  <2>1. Counters'  BY <1>1 DEF Counters, engineVars
  <2>2. Places'  BY <1>1, <1>3 DEF Places, engineVars, callVars
  <2> QED  BY <2>1, <2>2
<1>5. Pipes'
  <2>1. <<>> \in Seq([call : Call, kind : Kinds])  OBVIOUS
  <2>2. Kinds' = Kinds  BY <1>1 DEF Kinds, Piper, engineVars
  <2> QED  BY <1>1, <1>2, <2>1, <2>2 DEF Pipes
<1>6. Section' /\ Readers' /\ OwnAudio'
  BY <1>1, <1>2, <1>3, ReaderEnds DEF engineVars, callVars
<1>7. InStep'
  <2>1. \A x \in Call : reader'[x] # None => reader[x] # None /\ wrote'[x] = wrote[x]
    BY <1>1, <1>2 DEF Places
  <2> QED  BY <1>1, <1>2, <2>1, InStepShrinks
<1>8. Drained'
  <2>1. CASE d = q
    <3>1. inp'[d] = <<>> /\ out'[d] = <<>>  BY <1>1, <1>2, <2>1 DEF Pipes
    <3> QED  BY <1>1, <3>1 DEF Drained, engineVars
  <2>2. CASE d # q
    <3>1. pc[c] # "read"  BY <1>1, <2>2 DEF Section
    <3>2. \A x \in Call : pc[x] = "read" => result'[x] = result[x]
      BY <1>3, <3>1 DEF Places
    <3>3. d \in Proc => inp'[d] = inp[d] /\ out'[d] = out[d]
      BY <1>1, <2>2 DEF Pipes
    <3> QED  BY <1>1, <3>2, <3>3 DEF Drained, engineVars, callVars
  <2> QED  BY <2>1, <2>2
<1> QED  BY <1>4, <1>5, <1>6, <1>7, <1>8

LEMMA ReadHeadInv == ASSUME IInv, NEW c \in Call, ReadHead(c) PROVE IInv'
<1> USE DEF IInv
<1>1. CASE Head(out[from[c]]).kind = "bad"  BY <1>1, ReadFrameInv
<1>2. CASE Head(out[from[c]]).kind # "bad"
  <2>1. /\ reader[c] = "head" /\ reader' = [reader EXCEPT ![c] = "size"]
        /\ UNCHANGED <<engineVars, callVars, from, wrote, result, up, stuck, ctxOf, inp, out,
                       torn, spared, since, faults, panicked>>
    BY <1>2 DEF ReadHead
  <2>2. Counters' /\ Places'
    <3>1. Counters'  BY <2>1 DEF Counters, engineVars
    <3>2. Places'  BY <2>1 DEF Places, engineVars, callVars
    <3> QED  BY <3>1, <3>2
  <2>3. Section' /\ OwnAudio' /\ Drained'
    BY <2>1 DEF Section, OwnAudio, Drained, engineVars, callVars
  <2>4. \A x \in Call : reader'[x] # None => reader[x] # None /\ wrote'[x] = wrote[x]
    BY <2>1 DEF Places, None
  <2>5. Readers'  BY <2>1, <2>4 DEF Readers, Places, engineVars, callVars
  <2>6. InStep' /\ Pipes'  BY <2>1, <2>4, InStepKept, PipesKept DEF engineVars
  <2> QED  BY <2>2, <2>3, <2>5, <2>6
<1> QED  BY <1>1, <1>2

LEMMA ServeInv == ASSUME IInv, NEW p \in Proc, Serve(p) PROVE IInv'
<1> USE DEF IInv
<1>1. PICK k \in Kinds :
        out' = [out EXCEPT ![p] = Append(@, [call |-> Head(inp[p]), kind |-> k])]
  BY DEF Serve
<1> DEFINE a == [call |-> Head(inp[p]), kind |-> k]
<1>2. /\ inp[p] # <<>> /\ inp' = [inp EXCEPT ![p] = Tail(@)]
      /\ UNCHANGED <<engineVars, callVars, readVars, up, stuck, ctxOf, torn, spared, since,
                     faults, panicked>>
  BY DEF Serve
<1>3. inp[p] \in Seq(Call) /\ out[p] \in Seq([call : Call, kind : Kinds])  BY DEF Pipes
<1>4. Head(inp[p]) \in Call /\ Head(inp[p]) = inp[p][1] /\ 1 \in DOMAIN inp[p]
  BY <1>2, <1>3
<1>5. a \in [call : Call, kind : Kinds]  BY <1>4
<1>6. inp'[p] = Tail(inp[p]) /\ out'[p] = Append(out[p], a)  BY <1>1, <1>2 DEF Pipes
<1>7. Counters' /\ Places'
  <2>1. Counters'  BY <1>2 DEF Counters, engineVars
  <2>2. Places'  BY <1>2 DEF Places, engineVars, callVars, readVars
  <2> QED  BY <2>1, <2>2
<1>8. Pipes'
  <2>1. Tail(inp[p]) \in Seq(Call)  BY <1>2, <1>3
  <2>2. Append(out[p], a) \in Seq([call : Call, kind : Kinds])  BY <1>3, <1>5
  <2>3. Kinds' = Kinds  BY <1>2 DEF Kinds, Piper, engineVars
  <2>4. inp' \in [Proc -> Seq(Call)]  BY <1>2, <2>1 DEF Pipes
  <2>5. out' \in [Proc -> Seq([call : Call, kind : Kinds])]  BY <1>1, <2>2 DEF Pipes
  <2> QED  BY <2>3, <2>4, <2>5 DEF Pipes
<1>9. Section' /\ Readers' /\ OwnAudio'
  BY <1>2 DEF Section, Readers, OwnAudio, engineVars, callVars, readVars
<1>10. InStep'
  <2> SUFFICES ASSUME NEW q \in Proc \ torn
               PROVE  /\ Len(inp'[q]) + Len(out'[q]) <= 1
                      /\ \A x \in Call : reader[x] # None /\ wrote[x] = q =>
                           /\ \A j \in DOMAIN inp'[q] : inp'[q][j] = x
                           /\ \A j \in DOMAIN out'[q] : out'[q][j].call = x
    BY <1>2 DEF InStep, readVars
  <2>1. CASE q = p
    <3>1. Len(inp[p]) + Len(out[p]) <= 1  BY <2>1 DEF InStep
    <3>2. /\ Len(inp[p]) \in Nat /\ Len(out[p]) \in Nat /\ Len(inp[p]) >= 1
          /\ Len(Tail(inp[p])) = Len(inp[p]) - 1 /\ Len(Append(out[p], a)) = Len(out[p]) + 1
      BY <1>2, <1>3, <1>5
    <3>3. \A i, j \in Nat : i + j <= 1 /\ i >= 1 => (i - 1) + (j + 1) <= 1  OBVIOUS
    <3>4. Len(inp'[q]) + Len(out'[q]) <= 1  BY <1>6, <2>1, <3>1, <3>2, <3>3
    <3>5. ASSUME NEW x \in Call, reader[x] # None, wrote[x] = q
          PROVE  /\ \A j \in DOMAIN inp'[q] : inp'[q][j] = x
                 /\ \A j \in DOMAIN out'[q] : out'[q][j].call = x
      <4>1. /\ \A j \in DOMAIN inp[p] : inp[p][j] = x
            /\ \A j \in DOMAIN out[p] : out[p][j].call = x
        BY <2>1, <3>5 DEF InStep
      <4>2. \A j \in DOMAIN Tail(inp[p]) : Tail(inp[p])[j] = x  BY <1>2, <1>3, <4>1
      <4>3. a.call = x  BY <1>4, <4>1
      <4>4. \A j \in DOMAIN Append(out[p], a) : Append(out[p], a)[j].call = x
        BY <1>3, <1>5, <4>1, <4>3
      <4> QED  BY <1>6, <2>1, <4>2, <4>4
    <3> QED  BY <3>4, <3>5
  <2>2. CASE q # p
    <3>1. inp'[q] = inp[q] /\ out'[q] = out[q]  BY <1>1, <1>2, <2>2 DEF Pipes
    <3>2. Len(inp'[q]) + Len(out'[q]) <= 1  BY <3>1 DEF InStep
    <3>3. ASSUME NEW x \in Call, reader[x] # None, wrote[x] = q
          PROVE  /\ \A j \in DOMAIN inp'[q] : inp'[q][j] = x
                 /\ \A j \in DOMAIN out'[q] : out'[q][j].call = x
      <4>1. /\ \A j \in DOMAIN inp[q] : inp[q][j] = x
            /\ \A j \in DOMAIN out[q] : out[q][j].call = x
        BY <3>3 DEF InStep
      <4> QED  BY <3>1, <4>1
    <3> QED  BY <3>2, <3>3
  <2> QED  BY <2>1, <2>2
<1>11. Drained'
  <2>1. CASE d = p  BY <1>2, <2>1 DEF Drained, engineVars, callVars, readVars
  <2>2. CASE d # p
    <3>1. d \in Proc => inp'[d] = inp[d] /\ out'[d] = out[d]
      BY <1>1, <1>2, <2>2 DEF Pipes
    <3> QED  BY <1>2, <3>1 DEF Drained, engineVars, callVars, readVars
  <2> QED  BY <2>1, <2>2
<1> QED  BY <1>7, <1>8, <1>9, <1>10, <1>11

-----------------------------------------------------------------------------
LEMMA StepInv == IInv /\ [Next]_vars => IInv'
<1> SUFFICES ASSUME IInv, [Next]_vars PROVE IInv'
  OBVIOUS
<1>1. ASSUME NEW c \in Call,
             Ask(c) \/ VoiceNote(c) \/ CallStep(c) \/ ReaderStep(c) \/ ContextEnds(c)
      PROVE  IInv'
  <2>1. CASE Ask(c) \/ VoiceNote(c) \/ TakeSlot(c) \/ PrimaryOk(c) \/ PrimaryFails(c)
    BY <2>1, OutsideInv
  <2>2. CASE Lock(c)  BY <2>2, LockInv
  <2>3. CASE StartRefused(c) \/ BootFails(c) \/ Abandon(c)  BY <2>3, RefusedInv
  <2>4. CASE Start(c)  BY <2>4, StartInv
  <2>5. CASE BootOk(c)  BY <2>5, BootOkInv
  <2>6. CASE Write(c)  BY <2>6, WriteInv
  <2>7. CASE WriteFails(c)  BY <2>7, WriteFailsInv
  <2>8. CASE Take(c)  BY <2>8, TakeInv
  <2>9. CASE Deref(c)  BY <2>9, DerefInv
  <2>10. CASE Steal(c)  BY <2>10, StealInv
  <2>11. CASE ReadTorn(c) \/ ReadEOF(c)  BY <2>11, ReadNothingInv
  <2>12. CASE ReadHead(c)  BY <2>12, ReadHeadInv
  <2>13. CASE ReadBody(c)  BY <2>13, ReadFrameInv
  <2>14. CASE ContextEnds(c)  BY <2>14, WorldInv
  <2> QED  BY <1>1, <2>1, <2>2, <2>3, <2>4, <2>5, <2>6, <2>7, <2>8, <2>9, <2>10, <2>11,
              <2>12, <2>13, <2>14 DEF CallStep, ReaderStep
<1>2. ASSUME NEW p \in Proc, Serve(p) \/ Reap(p) \/ Crash(p) \/ Hang(p) PROVE IInv'
  BY <1>2, ServeInv, WorldInv
<1>3. CASE Tick  BY <1>3, WorldInv
<1>4. CASE UNCHANGED vars
  <2>1. UNCHANGED <<engine, d, lock, pc, answer, readVars, inp, out, torn>>
    BY <1>4 DEF vars, engineVars, callVars, procVars
  <2>2. Counters' /\ Places'
    BY <1>4 DEF IInv, Counters, Places, vars, engineVars, callVars, readVars, procVars
  <2>3. Section' /\ Readers' /\ Drained' /\ OwnAudio'
    BY <2>1 DEF IInv, Section, Readers, Drained, OwnAudio, readVars
  <2>4. InStep' /\ Pipes'  BY <2>1, InStepKept, PipesKept DEF IInv, readVars
  <2> QED  BY <2>2, <2>3, <2>4 DEF IInv
<1> QED  BY <1>1, <1>2, <1>3, <1>4 DEF Next

\* The inductive invariant: one call at a time is with the engine, a reader
\* left behind is left with a process nobody uses, and the pipe of a daemon
\* that is in step is empty between two calls.
THEOREM Invariance == Spec => []IInv
<1>1. Init => IInv  BY InitInv
<1>2. IInv /\ [Next]_vars => IInv'  BY StepInv
<1> QED  BY <1>1, <1>2, PTL DEF Spec, SafeSpec

\* Every variable keeps its type, whatever the calls and processes do.
THEOREM TypeCorrect == Spec => []TypeOK
<1>1. IInv => TypeOK  BY TypeParts DEF IInv
<1> QED  BY <1>1, Invariance, PTL

\* No call of PiperTTS.Synthesize or FasterWhisper.Transcribe returns what was
\* made of another call's request, for any number of calls that are abandoned,
\* processes that crash, hang or are reaped, and readers left behind, unless
\* such a reader has torn the pipe.
THEOREM NobodyElsesAudio == Spec => []OwnAudio
<1>1. IInv => OwnAudio  BY DEF IInv
<1> QED  BY <1>1, Invariance, PTL

\* What the engines leave running when they drop a daemon is only what they
\* drop over a frame that made no sense.
LEMMA OneDaemonStep == IInv /\ OneDaemon /\ [Next]_vars => OneDaemon'
<1> SUFFICES ASSUME IInv, OneDaemon, [Next]_vars PROVE OneDaemon'
  OBVIOUS
<1> USE DEF OneDaemon
<1>1. ASSUME NEW c \in Call, Start(c) PROVE OneDaemon'
  <2>1. d = NoProc /\ up \subseteq Proc
    BY <1>1 DEF Start, IInv, Section, Places
  <2>2. PICK p \in Proc : /\ p \notin up /\ d' = p /\ up' = up \cup {p}
                          /\ spared' = spared \ {p}
    BY <1>1 DEF Start, Free
  <2> QED  BY <2>1, <2>2, NamesAreNew
<1>2. ASSUME NEW c \in Call, BootFails(c) \/ Abandon(c) \/ WriteFails(c) PROVE OneDaemon'
  <2>1. d' = NoProc /\ spared' = spared /\ (up' = up \ {d} \/ (up' = up /\ d \notin up))
    BY <1>2 DEF BootFails, Abandon, WriteFails, GiveUpDaemon, procVars
  <2> QED  BY <2>1
<1>3. ASSUME NEW c \in Call, Take(c) PROVE OneDaemon'
  BY <1>3 DEF Take, GiveUpDaemon
<1>4. ASSUME NEW c \in Call,
             \/ Ask(c) \/ VoiceNote(c) \/ TakeSlot(c) \/ PrimaryOk(c) \/ PrimaryFails(c)
             \/ Lock(c) \/ StartRefused(c) \/ BootOk(c) \/ Write(c) \/ ReaderStep(c)
             \/ ContextEnds(c)
      PROVE  OneDaemon'
  <2>1. UNCHANGED <<d, up, spared>>
    BY <1>4 DEF Ask, VoiceNote, TakeSlot, PrimaryOk, PrimaryFails, Lock, StartRefused, BootOk,
                Write, ReaderStep, Deref, Steal, ReadTorn, ReadHead, ReadBody, ReadEOF,
                ContextEnds, engineVars, procVars
  <2> QED  BY <2>1
<1>5. ASSUME NEW p \in Proc, Serve(p) \/ Reap(p) \/ Crash(p) \/ Hang(p) PROVE OneDaemon'
  <2>1. UNCHANGED <<d, spared>> /\ up' \subseteq up
    BY <1>5 DEF Serve, Reap, Crash, Hang, engineVars
  <2> QED  BY <2>1
<1>6. CASE Tick \/ UNCHANGED vars
  <2>1. UNCHANGED <<d, up, spared>>  BY <1>6 DEF Tick, vars, engineVars, procVars
  <2> QED  BY <2>1
<1> QED  BY <1>1, <1>2, <1>3, <1>4, <1>5, <1>6 DEF Next, CallStep

\* A process the engine does not use has been killed, or was dropped over a bad
\* frame: Synthesize, Transcribe and startLocked kill before they forget.
THEOREM NoModelLeftBehind == Spec => []OneDaemon
<1>1. Init => OneDaemon  BY DEF Init, OneDaemon
<1>2. IInv /\ OneDaemon /\ [Next]_vars => OneDaemon'  BY OneDaemonStep
<1> QED  BY <1>1, <1>2, Invariance, PTL DEF Spec, SafeSpec

\* What is left of the back-off and what has passed of it make up the whole.
LEMMA BackingStep == IInv /\ Backing /\ [Next]_vars => Backing'
<1> SUFFICES ASSUME IInv, Backing, [Next]_vars PROVE Backing'
  OBVIOUS
<1> USE DEF Backing, Piper
<1>1. CASE Tick
  <2>1. UNCHANGED engine /\ wait' = (IF wait > 0 THEN wait - 1 ELSE 0)
        /\ since' = (IF since < Base THEN since + 1 ELSE Base)
    BY <1>1 DEF Tick
  <2>2. wait \in Nat /\ since \in Nat /\ Base \in Nat /\ since <= Base
    BY BoundsType DEF IInv, Counters
  <2> QED  BY <2>1, <2>2
<1>2. ASSUME NEW c \in Call, BootFails(c) \/ Abandon(c) \/ WriteFails(c) \/ Take(c)
      PROVE  Backing'
  <2>1. /\ engine' = engine
        /\ \/ wait' = (IF Piper THEN Base ELSE wait) /\ since' = 0
           \/ wait' = wait /\ since' = since
    BY <1>2 DEF BootFails, Abandon, WriteFails, Take, GiveUpDaemon, Finish
  <2> QED  BY <2>1, BoundsType
<1>3. ASSUME NEW c \in Call,
             \/ Ask(c) \/ VoiceNote(c) \/ TakeSlot(c) \/ PrimaryOk(c) \/ PrimaryFails(c)
             \/ Lock(c) \/ StartRefused(c) \/ Start(c) \/ BootOk(c) \/ Write(c)
             \/ ReaderStep(c) \/ ContextEnds(c)
      PROVE  Backing'
  <2>1. UNCHANGED <<engine, wait, since>>
    BY <1>3 DEF Ask, VoiceNote, TakeSlot, PrimaryOk, PrimaryFails, Lock, StartRefused, Start,
                BootOk, Write, ReaderStep, Deref, Steal, ReadTorn, ReadHead, ReadBody, ReadEOF,
                ContextEnds, Finish, engineVars
  <2> QED  BY <2>1
<1>4. ASSUME NEW p \in Proc, Serve(p) \/ Reap(p) \/ Crash(p) \/ Hang(p) PROVE Backing'
  BY <1>4 DEF Serve, Reap, Crash, Hang, engineVars
<1>5. CASE UNCHANGED vars  BY <1>5 DEF vars, engineVars
<1> QED  BY <1>1, <1>2, <1>3, <1>4, <1>5 DEF Next, CallStep

\* A piper that keeps dying is started no sooner than the back-off after it
\* was last given up, the check of nextSpawn in startLocked.
THEOREM RespawnSpaced == Spec => SpawnSpacing
<1>1. Init => Backing  BY BoundsType DEF Init, Backing
<1>2. IInv /\ Backing /\ [Next]_vars => Backing'  BY BackingStep
<1>3. IInv /\ Backing /\ [Next]_vars => [Piper /\ d = NoProc /\ d' # NoProc => since = Base]_vars
  <2> SUFFICES ASSUME IInv, Backing, Next, Piper, d = NoProc, d' # NoProc PROVE since = Base
    OBVIOUS
  <2>1. PICK c \in Call : Start(c)
    BY DEF Next, CallStep, ReaderStep, Ask, VoiceNote, TakeSlot, PrimaryOk, PrimaryFails, Lock,
           StartRefused, BootOk, BootFails, Write, WriteFails, Take, Abandon, GiveUpDaemon,
           Deref, Steal, ReadTorn, ReadHead, ReadBody, ReadEOF, ContextEnds, Serve, Reap,
           Crash, Hang, Tick, engineVars
  <2>2. wait = 0  BY <2>1 DEF Start
  <2> QED  BY <2>2, BoundsType DEF Backing, IInv, Counters
<1> QED  BY <1>1, <1>2, <1>3, Invariance, PTL DEF Spec, SafeSpec, SpawnSpacing

-----------------------------------------------------------------------------
(* The hands-free loop. *)

\* What sounds is the source's buffer, of the current generation, and playing;
\* what was stopped has not reported its end yet, and until it has, nothing of
\* the current generation is synthesized.  Links are used in order, a
\* generation is what was enqueued since some sentence on, each of its links
\* follows the one before, and one that has begun has those before it behind it.
Sound(p, ch, pr, bf) ==
  /\ \A i \in p.audible : i = p.source /\ i \in p.fresh /\ ch[i] = "playing"
  /\ \A i \in p.cut : ch[i] = "playing"
  /\ \A i \in p.audible \cup p.cut : bf[i] = "audio"
  /\ p.cut # {} => \A i \in p.fresh : bf[i] = "none"
  /\ \A i \in Sentence : ch[i] = "unused" => bf[i] = "none" /\ i \notin p.fresh
  /\ \A i, j \in Sentence : j < i /\ ch[i] # "unused" => ch[j] # "unused"
  /\ \A i, j \in Sentence : j < i /\ j \in p.fresh /\ ch[i] # "unused" => i \in p.fresh
  /\ \A i, j \in p.fresh : j < i => pr[i] = i - 1
  /\ \A i, j \in p.fresh : j < i /\ ch[i] \in {"await", "playing", "done"} => ch[j] = "done"

\* Unless it was used meanwhile: voiceOn, as the alerts being spoken and a
\* permission request leave it, and a toggle that shows no voice that is off.
Toggle ==
  \/ meddled
  \/ /\ page.checked => page.voiceOn \/ page.arming # 0
     /\ page.arming # 0 => page.arming = 1 /\ alerts = {} /\ page.voiceOn = wish
     /\ wish => page.voiceOn /\ \A a \in alerts : a.wasOn
     /\ ~wish /\ page.voiceOn => \E a \in alerts : ~a.wasOn

LoopInvariant == LoopTypeOK /\ Sound(page, chain, pred, buf) /\ Toggle

\* A page with the speech of another, and with its speech and its toggle.
SameSpeech(p, q) ==
  q.source = p.source /\ q.audible = p.audible /\ q.cut = p.cut /\ q.fresh = p.fresh
SameToggle(p, q) ==
  q.voiceOn = p.voiceOn /\ q.checked = p.checked /\ q.arming = p.arming
Calm(p, q) == SameSpeech(p, q) /\ SameToggle(p, q)

LEMMA CalmChain ==
  ASSUME NEW p, NEW q, NEW r, Calm(p, q), Calm(q, r)
  PROVE  Calm(p, r)
  BY DEF Calm, SameSpeech, SameToggle

LEMMA SentenceNumbers ==
  /\ Sentence \subseteq Nat /\ 0 \notin Sentence
  /\ \A i \in Sentence : \A j \in Nat : j < i /\ j # 0 => j \in Sentence
<1>1. Cardinality(Sentence) \in Nat
  BY SentenceType, FS_CardinalityType
<1>2. QED
  BY <1>1, SentenceType

\* What the script's functions leave alone: the sentence that sounds and the
\* toggle.
LEMMA StartWakeCalm ==
  ASSUME NEW p \in Page
  PROVE  StartWake(p) \in Page /\ Calm(p, StartWake(p))
<1> DEFINE q == [p EXCEPT !.wake = TRUE]
<1>1. q \in Page /\ Calm(p, q) /\ Calm(p, p)
  BY DEF Page, Calm, SameSpeech, SameToggle
<1>2. StartWake(p) \in {p, q}
  BY DEF StartWake
<1>3. QED
  BY <1>1, <1>2

LEMMA StopWakeCalm ==
  ASSUME NEW p \in Page
  PROVE  StopWake(p) \in Page /\ Calm(p, StopWake(p))
<1> DEFINE q == [p EXCEPT !.wake = FALSE, !.others = @ + 1]
<1>1. p.others + 1 \in Nat
  BY DEF Page
<1>2. q \in Page /\ Calm(p, q) /\ Calm(p, p)
  BY <1>1 DEF Page, Calm, SameSpeech, SameToggle
<1>3. StopWake(p) \in {p, q}
  BY DEF StopWake
<1>4. QED
  BY <1>2, <1>3

LEMMA PlayClipCalm ==
  ASSUME NEW p \in Page
  PROVE  PlayClip(p) \in Page /\ Calm(p, PlayClip(p))
<1>1. [p EXCEPT !.speaking = TRUE] \in Page /\ Calm(p, [p EXCEPT !.speaking = TRUE])
  BY DEF Page, Calm, SameSpeech, SameToggle
<1>2. QED
  BY <1>1, StopWakeCalm DEF PlayClip, Calm, SameSpeech, SameToggle

LEMMA WakeIfQuietCalm ==
  ASSUME NEW p \in Page
  PROVE  WakeIfQuiet(p) \in Page /\ Calm(p, WakeIfQuiet(p))
  BY StartWakeCalm DEF WakeIfQuiet, Calm, SameSpeech, SameToggle

LEMMA StartRecordingCalm ==
  ASSUME NEW p \in Page
  PROVE  StartRecording(p) \in Page /\ Calm(p, StartRecording(p))
<1> DEFINE q == [p EXCEPT !.recording = TRUE, !.recorder = TRUE]
<1>1. q \in Page /\ Calm(p, q) /\ Calm(p, p)
  BY DEF Page, Calm, SameSpeech, SameToggle
<1>2. StartRecording(p) \in {p, q}
  BY DEF StartRecording
<1>3. QED
  BY <1>1, <1>2

LEMMA ListenCalm ==
  ASSUME NEW p \in Page
  PROVE  Listen(p) \in Page /\ Calm(p, Listen(p))
<1> DEFINE q == [p EXCEPT !.speaking = FALSE]
           r == StartRecording(q)
<1>1. q \in Page /\ Calm(p, q)
  BY DEF Page, Calm, SameSpeech, SameToggle
<1>2. r \in Page /\ Calm(q, r)
  BY <1>1, StartRecordingCalm
<1>3. Listen(p) = [r EXCEPT !.held = FALSE]
  BY DEF Listen
<1> HIDE DEF q, r
<1>4. [r EXCEPT !.held = FALSE] \in Page /\ Calm(r, [r EXCEPT !.held = FALSE])
  BY <1>2 DEF Page, Calm, SameSpeech, SameToggle
<1>5. QED
  BY <1>1, <1>2, <1>3, <1>4 DEF Calm, SameSpeech, SameToggle

LEMMA OnRecordingStopCalm ==
  ASSUME NEW p \in Page
  PROVE  OnRecordingStop(p) \in Page /\ Calm(p, OnRecordingStop(p))
<1> DEFINE q == [p EXCEPT !.recording = FALSE]
           r == PlayClip(q)
           s == [r EXCEPT !.busyClip = @ + 1, !.stt = @ + 1]
<1>1. CASE p.disarming
  BY <1>1 DEF Page, OnRecordingStop, Calm, SameSpeech, SameToggle
<1>2. CASE ~p.disarming
  <2>1. q \in Page /\ Calm(p, q)
    BY DEF Page, Calm, SameSpeech, SameToggle
  <2>2. r \in Page /\ Calm(q, r)
    BY <2>1, PlayClipCalm
  <2>3. OnRecordingStop(p) = s
    BY <1>2 DEF OnRecordingStop
  <2> HIDE DEF q, r
  <2>4. r.busyClip + 1 \in Nat /\ r.stt + 1 \in Nat
    BY <2>2 DEF Page
  <2>5. s \in Page /\ Calm(r, s)
    BY <2>2, <2>4 DEF Page, Calm, SameSpeech, SameToggle
  <2>6. QED
    BY <2>1, <2>2, <2>3, <2>5 DEF Calm, SameSpeech, SameToggle
<1>3. QED
  BY <1>1, <1>2

LEMMA StopRecordingCalm ==
  ASSUME NEW p \in Page
  PROVE  StopRecording(p) \in Page /\ Calm(p, StopRecording(p))
<1>1. CASE p.recorder
  <2> DEFINE q == [p EXCEPT !.recorder = FALSE, !.onstop = @ + 1]
  <2>1. p.onstop + 1 \in Nat
    BY DEF Page
  <2>2. q \in Page /\ Calm(p, q)
    BY <2>1 DEF Page, Calm, SameSpeech, SameToggle
  <2>3. QED
    BY <1>1, <2>2 DEF StopRecording
<1>2. CASE ~p.recorder
  BY <1>2, OnRecordingStopCalm DEF StopRecording
<1>3. QED
  BY <1>1, <1>2

\* Sound speaks of the speech of a page only.
LEMMA CalmIsSound ==
  ASSUME NEW p, NEW q, NEW ch, NEW pr, NEW bf,
         Sound(p, ch, pr, bf), SameSpeech(p, q)
  PROVE  Sound(q, ch, pr, bf)
  BY DEF Sound, SameSpeech

\* What stopSpeech makes of a page: nothing sounds and nothing is waited for.
LEMMA StopSpeechSilent ==
  ASSUME NEW p \in Page, \A i \in p.audible : i = p.source
  PROVE  /\ StopSpeech(p) \in Page /\ SameToggle(p, StopSpeech(p))
         /\ StopSpeech(p).audible = {} /\ StopSpeech(p).fresh = {}
         /\ StopSpeech(p).cut = p.cut \cup p.audible
<1>1. p.audible \ {p.source} = {} /\ p.audible \cap {p.source} = p.audible
  OBVIOUS
<1>2. StopSpeech(p) \in Page /\ SameToggle(p, StopSpeech(p))
  <2> DEFINE hc == p.helloCut + (IF p.hello THEN 1 ELSE 0)
             bc == p.busyCut + p.busyClip
             cu == p.cut \cup (p.audible \cap {p.source})
             au == p.audible \ {p.source}
  <2>1. hc \in Nat /\ bc \in Nat
    BY DEF Page
  <2>2. cu \in SUBSET Sentence /\ au \in SUBSET Sentence
    BY DEF Page
  <2> DEFINE q == [p EXCEPT !.speaking = FALSE, !.fresh = {}, !.hello = FALSE,
                            !.helloCut = hc, !.busyClip = 0, !.busyCut = bc,
                            !.source = 0, !.audible = au, !.cut = cu]
  <2>3. StopSpeech(p) = q
    BY DEF Page, StopSpeech
  <2> HIDE DEF hc, bc, cu, au
  <2>4. q \in Page
    BY <2>1, <2>2 DEF Page
  <2>5. SameToggle(p, q)
    BY DEF Page, SameToggle
  <2>6. QED
    BY <2>3, <2>4, <2>5
<1>3. /\ StopSpeech(p).audible = p.audible \ {p.source} /\ StopSpeech(p).fresh = {}
      /\ StopSpeech(p).cut = p.cut \cup (p.audible \cap {p.source})
  BY DEF Page, StopSpeech
<1>4. QED
  BY <1>1, <1>2, <1>3

LEMMA StopSpeechSound ==
  ASSUME NEW p \in Page, NEW ch, NEW pr, NEW bf, Sound(p, ch, pr, bf)
  PROVE  Sound(StopSpeech(p), ch, pr, bf)
<1>1. \A i \in p.audible : i = p.source
  BY DEF Sound
<1>2. /\ StopSpeech(p).audible = {} /\ StopSpeech(p).fresh = {}
      /\ StopSpeech(p).cut = p.cut \cup p.audible
  BY <1>1, StopSpeechSilent
<1>3. QED
  BY <1>2 DEF Sound

\* disarmVoice stops what sounds and switches voice off, the checkbox apart.
LEMMA DisarmSilent ==
  ASSUME NEW p \in Page, NEW ch, NEW pr, NEW bf, Sound(p, ch, pr, bf)
  PROVE  /\ Disarm(p) \in Page /\ Sound(Disarm(p), ch, pr, bf)
         /\ Disarm(p).voiceOn = FALSE /\ Disarm(p).checked = p.checked
         /\ Disarm(p).arming = p.arming
<1> DEFINE off == [p EXCEPT !.disarming = TRUE, !.voiceOn = FALSE, !.held = FALSE]
           q == StopSpeech(off)
           r == StopWake(q)
           s == StopRecording(r)
           t == [s EXCEPT !.mic = FALSE]
<1>1. /\ off \in Page /\ SameSpeech(p, off) /\ off.voiceOn = FALSE
      /\ off.checked = p.checked /\ off.arming = p.arming
  BY DEF Page, SameSpeech
<1>2. Sound(off, ch, pr, bf)
  BY <1>1, CalmIsSound
<1>a. Disarm(p) = t
  BY DEF Disarm
<1> HIDE DEF off
<1>3. q \in Page /\ SameToggle(off, q) /\ Sound(q, ch, pr, bf)
  <2>1. \A i \in off.audible : i = off.source
    BY <1>2 DEF Sound
  <2>2. QED
    BY <1>1, <1>2, <2>1, StopSpeechSilent, StopSpeechSound
<1> HIDE DEF q
<1>4. r \in Page /\ Calm(q, r)
  BY <1>3, StopWakeCalm
<1> HIDE DEF r
<1>5. s \in Page /\ Calm(r, s)
  BY <1>4, StopRecordingCalm
<1> HIDE DEF s
<1>6. t \in Page /\ Calm(s, t)
  BY <1>5 DEF Page, Calm, SameSpeech, SameToggle
<1> HIDE DEF t
<1>7. SameSpeech(q, t) /\ SameToggle(off, t)
  BY <1>3, <1>4, <1>5, <1>6 DEF Calm, SameSpeech, SameToggle
<1>8. Sound(t, ch, pr, bf)
  BY <1>3, <1>7, CalmIsSound
<1>9. QED
  BY <1>1, <1>6, <1>7, <1>8, <1>a DEF SameToggle


-----------------------------------------------------------------------------
(* The steps that disturb the conjuncts of Sound. *)

LEMMA PlayBufferSpeaks ==
  ASSUME NEW p \in Page, NEW i \in Sentence
  PROVE  /\ PlayBuffer(p, i) \in Page /\ SameToggle(p, PlayBuffer(p, i))
         /\ PlayBuffer(p, i).source = i /\ PlayBuffer(p, i).audible = p.audible \cup {i}
         /\ PlayBuffer(p, i).cut = p.cut /\ PlayBuffer(p, i).fresh = p.fresh
<1> DEFINE q == [p EXCEPT !.speaking = TRUE, !.source = i, !.audible = @ \cup {i}]
<1>1. p.audible \cup {i} \in SUBSET Sentence
  BY DEF Page
<1>2. /\ q \in Page /\ SameToggle(p, q)
      /\ q.source = i /\ q.audible = p.audible \cup {i}
      /\ q.cut = p.cut /\ q.fresh = p.fresh
  BY <1>1 DEF Page, SameToggle
<1>3. PlayBuffer(p, i) = StopWake(q)
  BY DEF PlayBuffer
<1> HIDE DEF q
<1>4. QED
  BY <1>2, <1>3, StopWakeCalm DEF Calm, SameSpeech, SameToggle

LEMMA BufferEndsQuiet ==
  ASSUME NEW p \in Page, NEW i \in Sentence
  PROVE  /\ BufferEnds(p, i) \in Page /\ SameToggle(p, BufferEnds(p, i))
         /\ BufferEnds(p, i).source = 0 /\ BufferEnds(p, i).audible = p.audible \ {i}
         /\ BufferEnds(p, i).cut = p.cut \ {i} /\ BufferEnds(p, i).fresh = p.fresh
<1> DEFINE q == [p EXCEPT !.source = 0, !.speaking = FALSE,
                          !.audible = @ \ {i}, !.cut = @ \ {i}]
<1>1. p.audible \ {i} \in SUBSET Sentence /\ p.cut \ {i} \in SUBSET Sentence
  BY DEF Page
<1>2. q \in Page /\ SameToggle(p, q)
  BY <1>1 DEF Page, SameToggle
<1>3. /\ q.source = 0 /\ q.audible = p.audible \ {i}
      /\ q.cut = p.cut \ {i} /\ q.fresh = p.fresh
  BY <1>1 DEF Page
<1>4. BufferEnds(p, i) \in {q, StartWake(q)}
  BY DEF BufferEnds
<1> HIDE DEF q
<1>5. StartWake(q) \in Page /\ Calm(q, StartWake(q))
  BY <1>2, StartWakeCalm
<1>6. CASE BufferEnds(p, i) = q
  BY <1>2, <1>3, <1>6
<1>7. CASE BufferEnds(p, i) = StartWake(q)
  BY <1>2, <1>3, <1>5, <1>7 DEF Calm, SameSpeech, SameToggle
<1>8. QED
  BY <1>4, <1>6, <1>7

\* A sentence goes behind the last one of its generation: the generation has no
\* gap, as every later link is unused.
LEMMA EnqueueSound ==
  ASSUME LoopTypeOK, NEW p \in Page, NEW i \in Sentence,
         Sound(p, chain, pred, buf), Enqueue(p, i)
  PROVE  /\ page' \in Page /\ SameToggle(p, page')
         /\ chain' \in [Sentence -> LinkState] /\ pred' \in [Sentence -> Sentence \cup {0}]
         /\ Sound(page', chain', pred', buf)
<1>1. page' = [p EXCEPT !.fresh = p.fresh \cup {i}]
  BY DEF Enqueue
<1>2. p.fresh \cup {i} \in SUBSET Sentence
  BY DEF Page
<1>3. /\ page' \in Page /\ SameToggle(p, page')
      /\ page'.source = p.source /\ page'.audible = p.audible /\ page'.cut = p.cut
      /\ page'.fresh = p.fresh \cup {i}
  BY <1>1, <1>2 DEF Page, SameToggle
<1>4. i \in Nat /\ i # 0 /\ \A j \in Sentence : j \in Nat /\ j # 0
  BY SentenceNumbers
<1>5. /\ chain[i] = "unused" /\ \A j \in Sentence : j < i => chain[j] # "unused"
      /\ chain' = [chain EXCEPT ![i] = "queued"]
  BY <1>4 DEF Enqueue
<1>6. pred' = [pred EXCEPT ![i] = IF i - 1 \in p.fresh THEN i - 1 ELSE 0]
  BY DEF Enqueue
<1>7. i - 1 \in p.fresh => i - 1 \in Sentence
  BY DEF Page
<1>8. /\ chain' \in [Sentence -> LinkState] /\ pred' \in [Sentence -> Sentence \cup {0}]
      /\ \A j \in Sentence : chain'[j] = IF j = i THEN "queued" ELSE chain[j]
      /\ \A j \in Sentence : j # i => pred'[j] = pred[j]
      /\ i - 1 \in p.fresh => pred'[i] = i - 1
  BY <1>5, <1>6, <1>7 DEF LoopTypeOK, LinkState
<1>9. \A j \in Sentence : i < j => chain[j] = "unused"
  <2>1. \A j \in Sentence : i < j /\ chain[j] # "unused" => chain[i] # "unused"
    BY DEF Sound
  <2>2. QED
    BY <1>5, <2>1
<1>10. \A j \in p.fresh : j \in Sentence /\ j < i
  BY <1>4, <1>5, <1>9 DEF Sound, Page
<1>11. ASSUME NEW j \in p.fresh PROVE i - 1 \in p.fresh
  <2>1. j \in Sentence /\ j < i
    BY <1>10
  <2>2. i - 1 \in Sentence /\ i - 1 < i /\ j <= i - 1
    BY <1>4, <2>1, SentenceNumbers
  <2>3. chain[i - 1] # "unused"
    BY <1>5, <2>2
  <2>4. CASE j = i - 1
    BY <2>4
  <2>5. CASE j # i - 1
    BY <2>1, <2>2, <2>3, <2>5, <1>4 DEF Sound
  <2>6. QED
    BY <2>4, <2>5
<1>12. Sound(page', chain', pred', buf)
  <2>1. /\ \A k \in page'.audible : k = page'.source /\ k \in page'.fresh /\ chain'[k] = "playing"
        /\ \A k \in page'.cut : chain'[k] = "playing"
        /\ \A k \in page'.audible \cup page'.cut : buf[k] = "audio"
    BY <1>3, <1>5, <1>8 DEF Sound, Page
  <2>2. page'.cut # {} => \A k \in page'.fresh : buf[k] = "none"
    BY <1>3, <1>5 DEF Sound
  <2>3. \A k \in Sentence : chain'[k] = "unused" => buf[k] = "none" /\ k \notin page'.fresh
    BY <1>3, <1>8 DEF Sound
  <2>4. \A k, j \in Sentence : j < k /\ chain'[k] # "unused" => chain'[j] # "unused"
    BY <1>5, <1>8 DEF Sound
  <2>5. \A k, j \in Sentence :
          j < k /\ j \in page'.fresh /\ chain'[k] # "unused" => k \in page'.fresh
    BY <1>3, <1>8, <1>9, <1>10 DEF Sound
  <2>6. \A k, j \in page'.fresh : j < k => pred'[k] = k - 1
    <3>1. SUFFICES ASSUME NEW k \in page'.fresh, NEW j \in page'.fresh, j < k
                   PROVE  pred'[k] = k - 1
      OBVIOUS
    <3>2. CASE k = i
      BY <3>1, <3>2, <1>3, <1>4, <1>8, <1>11
    <3>3. CASE k # i
      <4>1. k \in p.fresh /\ k < i
        BY <3>3, <1>3, <1>10
      <4>2. j # i
        <5>1. k \in Nat /\ i \in Nat
          BY <4>1, <1>4, <1>10
        <5>2. QED
          BY <5>1, <4>1, <3>1
      <4>3. j \in p.fresh
        BY <4>2, <1>3
      <4>4. pred[k] = k - 1
        BY <3>1, <4>1, <4>3 DEF Sound
      <4>5. QED
        BY <3>3, <4>1, <4>4, <1>8, <1>10
    <3>4. QED
      BY <3>2, <3>3
  <2>7. \A k, j \in page'.fresh :
          j < k /\ chain'[k] \in {"await", "playing", "done"} => chain'[j] = "done"
    <3>1. SUFFICES ASSUME NEW k \in page'.fresh, NEW j \in page'.fresh, j < k,
                          chain'[k] \in {"await", "playing", "done"}
                   PROVE  chain'[j] = "done"
      OBVIOUS
    <3>2. k \in Sentence /\ j \in Sentence
      BY <1>3, <1>10
    <3>3. k # i
      BY <3>1, <3>2, <1>8
    <3>4. k \in p.fresh /\ k < i /\ chain[k] = chain'[k]
      BY <3>2, <3>3, <1>3, <1>8, <1>10
    <3>5. j # i
      <4>1. k \in Nat /\ i \in Nat
        BY <3>2, <1>4
      <4>2. QED
        BY <4>1, <3>1, <3>4
    <3>6. j \in p.fresh /\ chain'[j] = chain[j]
      BY <3>2, <3>5, <1>3, <1>8
    <3>7. QED
      BY <3>1, <3>4, <3>6 DEF Sound
  <2>8. QED
    BY <2>1, <2>2, <2>3, <2>4, <2>5, <2>6, <2>7 DEF Sound
<1>13. QED
  BY <1>3, <1>8, <1>12

\* The page is left as loud as it was: all but the toggle may have changed.
LEMMA CalmStep ==
  ASSUME LoopInvariant, NEW q, q \in Page, Calm(page, q), page' = q,
         UNCHANGED <<chain, pred, buf, alerts, wish, meddled>>,
         turns' \in Nat, acked' \in BOOLEAN, left' \in 0..MaxEvents
  PROVE  LoopInvariant'
<1>1. LoopTypeOK'
  BY DEF LoopInvariant, LoopTypeOK
<1>2. Sound(page', chain', pred', buf')
  BY CalmIsSound DEF LoopInvariant, Calm
<1>3. Toggle'
  BY DEF LoopInvariant, Toggle, Calm, SameToggle
<1>4. QED
  BY <1>1, <1>2, <1>3 DEF LoopInvariant

\* What Only(p) and an untouched or spent left give.
LEMMA OnlyStep ==
  ASSUME LoopInvariant, NEW q, q \in Page, Calm(page, q), Only(q),
         left' \in 0..MaxEvents
  PROVE  LoopInvariant'
<1>1. turns' \in Nat /\ acked' \in BOOLEAN /\ page' = q
  BY DEF LoopInvariant, LoopTypeOK, Only
<1>2. UNCHANGED <<chain, pred, buf, alerts, wish, meddled>>
  BY DEF Only
<1>3. QED
  BY <1>1, <1>2, CalmStep

LEMMA SpendLeft ==
  ASSUME LoopTypeOK, Spend \/ UNCHANGED left
  PROVE  left' \in 0..MaxEvents
  BY SentenceType DEF LoopTypeOK, Spend

\* The wake word, its recognitions and the timer leave speech and toggle alone.
LEMMA WakeKeeps ==
  ASSUME LoopInvariant, Heard \/ WakeEnds \/ OtherEnds \/ TimerFires \/ SttNothing
  PROVE  LoopInvariant'
<1>a. page \in Page /\ LoopTypeOK
  BY DEF LoopInvariant, LoopTypeOK
<1>b. Spend \/ UNCHANGED left
  BY DEF Heard, WakeEnds, OtherEnds, TimerFires, SttNothing
<1>c. left' \in 0..MaxEvents
  BY <1>a, <1>b, SpendLeft
<1>1. CASE Heard
  <2> DEFINE q == [page EXCEPT !.held = TRUE]
             r == PlayClip(StopWake(q))
             s == [r EXCEPT !.hello = TRUE]
  <2>1. q \in Page /\ Calm(page, q)
    BY <1>a DEF Page, Calm, SameSpeech, SameToggle
  <2>2. StopWake(q) \in Page /\ Calm(q, StopWake(q))
    BY <2>1, StopWakeCalm
  <2>3. r \in Page /\ Calm(StopWake(q), r)
    BY <2>2, PlayClipCalm
  <2>4. Only(s)
    BY <1>1 DEF Heard
  <2> HIDE DEF q, r
  <2>5. s \in Page /\ Calm(r, s)
    BY <2>3 DEF Page, Calm, SameSpeech, SameToggle
  <2>6. Calm(page, s)
    BY <2>1, <2>2, <2>3, <2>5, CalmChain
  <2>7. QED
    BY <1>c, <2>4, <2>5, <2>6, OnlyStep
<1>2. CASE WakeEnds
  <2> DEFINE q == [page EXCEPT !.wake = FALSE]
  <2>1. q \in Page /\ Calm(page, q)
    BY <1>a DEF Page, Calm, SameSpeech, SameToggle
  <2>2. Only(WakeIfQuiet(q))
    BY <1>2 DEF WakeEnds
  <2> HIDE DEF q
  <2>3. WakeIfQuiet(q) \in Page /\ Calm(page, WakeIfQuiet(q))
    BY <2>1, WakeIfQuietCalm, CalmChain
  <2>4. QED
    BY <1>c, <2>2, <2>3, OnlyStep
<1>3. CASE OtherEnds
  <2> DEFINE n == IF page.wake THEN page.others ELSE page.others - 1
             q == [page EXCEPT !.wake = FALSE, !.others = n]
  <2>1. Only(WakeIfQuiet(q))
    BY <1>3 DEF OtherEnds
  <2>2. n \in Nat
    BY <1>3, <1>a DEF OtherEnds, Page
  <2> HIDE DEF n
  <2>3. q \in Page /\ Calm(page, q)
    BY <1>a, <2>2 DEF Page, Calm, SameSpeech, SameToggle
  <2> HIDE DEF q
  <2>4. WakeIfQuiet(q) \in Page /\ Calm(page, WakeIfQuiet(q))
    BY <2>3, WakeIfQuietCalm, CalmChain
  <2>5. QED
    BY <1>c, <2>1, <2>4, OnlyStep
<1>4. CASE TimerFires
  <2> DEFINE q == [page EXCEPT !.timer = FALSE]
  <2>1. q \in Page /\ Calm(page, q)
    BY <1>a DEF Page, Calm, SameSpeech, SameToggle
  <2>2. Only(WakeIfQuiet(q))
    BY <1>4 DEF TimerFires
  <2> HIDE DEF q
  <2>3. WakeIfQuiet(q) \in Page /\ Calm(page, WakeIfQuiet(q))
    BY <2>1, WakeIfQuietCalm, CalmChain
  <2>4. QED
    BY <1>c, <2>2, <2>3, OnlyStep
<1>5. CASE SttNothing
  <2> DEFINE q == [page EXCEPT !.stt = @ - 1]
  <2>1. page.stt - 1 \in Nat
    BY <1>5, <1>a DEF SttNothing, Page
  <2>2. q \in Page /\ Calm(page, q)
    BY <1>a, <2>1 DEF Page, Calm, SameSpeech, SameToggle
  <2>3. Only(StartWake(q))
    BY <1>5 DEF SttNothing
  <2> HIDE DEF q
  <2>4. StartWake(q) \in Page /\ Calm(page, StartWake(q))
    BY <2>2, StartWakeCalm, CalmChain
  <2>5. QED
    BY <1>c, <2>3, <2>4, OnlyStep
<1>6. QED
  BY <1>1, <1>2, <1>3, <1>4, <1>5

\* So do the clips and the recorder.
LEMMA ClipKeeps ==
  ASSUME LoopInvariant, HelloEnds \/ BusyClipEnds \/ Silence \/ OnStop
  PROVE  LoopInvariant'
<1>a. page \in Page /\ left \in 0..MaxEvents
  BY DEF LoopInvariant, LoopTypeOK
<1>b. left' \in 0..MaxEvents
  BY <1>a DEF HelloEnds, BusyClipEnds, Silence, OnStop
<1>1. ASSUME NEW q \in Page, Calm(page, q), Only(Listen(q))
      PROVE  LoopInvariant'
  <2>1. Listen(q) \in Page /\ Calm(page, Listen(q))
    BY <1>1, ListenCalm, CalmChain
  <2>2. QED
    BY <1>1, <1>b, <2>1, OnlyStep
<1>2. CASE page.hello /\ Only(Listen([page EXCEPT !.hello = FALSE]))
  <2> DEFINE q == [page EXCEPT !.hello = FALSE]
  <2>1. q \in Page /\ Calm(page, q)
    BY <1>a DEF Page, Calm, SameSpeech, SameToggle
  <2> HIDE DEF q
  <2>2. QED
    BY <1>1, <1>2, <2>1 DEF q
<1>3. CASE page.helloCut > 0 /\ Only(Listen([page EXCEPT !.helloCut = @ - 1]))
  <2> DEFINE q == [page EXCEPT !.helloCut = @ - 1]
  <2>1. page.helloCut - 1 \in Nat
    BY <1>3, <1>a DEF Page
  <2>2. q \in Page /\ Calm(page, q)
    BY <1>a, <2>1 DEF Page, Calm, SameSpeech, SameToggle
  <2>3. QED
    BY <1>1, <1>3, <2>2
<1>4. CASE BusyClipEnds
  <2> DEFINE q == [page EXCEPT !.busyClip = @ - 1, !.speaking = FALSE]
             r == [page EXCEPT !.busyCut = @ - 1, !.speaking = FALSE]
  <2>1. CASE page.busyClip > 0 /\ Only(q)
    <3>1. page.busyClip - 1 \in Nat
      BY <2>1, <1>a DEF Page
    <3>2. q \in Page /\ Calm(page, q)
      BY <1>a, <3>1 DEF Page, Calm, SameSpeech, SameToggle
    <3>3. QED
      BY <2>1, <3>2, <1>b, OnlyStep
  <2>2. CASE page.busyCut > 0 /\ Only(r)
    <3>1. page.busyCut - 1 \in Nat
      BY <2>2, <1>a DEF Page
    <3>2. r \in Page /\ Calm(page, r)
      BY <1>a, <3>1 DEF Page, Calm, SameSpeech, SameToggle
    <3>3. QED
      BY <2>2, <3>2, <1>b, OnlyStep
  <2>3. QED
    BY <1>4, <2>1, <2>2 DEF BusyClipEnds
<1>5. CASE Silence
  <2>1. StopRecording(page) \in Page /\ Calm(page, StopRecording(page))
    BY <1>a, StopRecordingCalm
  <2>2. QED
    BY <1>5, <1>b, <2>1, OnlyStep DEF Silence
<1>6. CASE OnStop
  <2> DEFINE q == [page EXCEPT !.onstop = @ - 1]
  <2>1. page.onstop - 1 \in Nat
    BY <1>6, <1>a DEF OnStop, Page
  <2>2. q \in Page /\ Calm(page, q)
    BY <1>a, <2>1 DEF Page, Calm, SameSpeech, SameToggle
  <2>3. Only(OnRecordingStop(q))
    BY <1>6 DEF OnStop
  <2> HIDE DEF q
  <2>4. OnRecordingStop(q) \in Page /\ Calm(page, OnRecordingStop(q))
    BY <2>2, OnRecordingStopCalm, CalmChain
  <2>5. QED
    BY <1>b, <2>3, <2>4, OnlyStep
<1>7. QED
  BY <1>2, <1>3, <1>4, <1>5, <1>6 DEF HelloEnds

\* And turns that are sent, refused or lost.
LEMMA TurnKeeps ==
  ASSUME LoopInvariant, SttWords \/ Submit \/ TurnRefused \/ LinkLost
  PROVE  LoopInvariant'
<1>a. page \in Page /\ turns \in Nat /\ acked \in BOOLEAN /\ LoopTypeOK
  BY DEF LoopInvariant, LoopTypeOK
<1>b. Spend \/ UNCHANGED left
  BY DEF SttWords, Submit, TurnRefused, LinkLost
<1>c. left' \in 0..MaxEvents
  BY <1>a, <1>b, SpendLeft
<1>1. UNCHANGED <<chain, pred, buf, alerts, wish, meddled>>
  BY DEF SttWords, Submit, TurnRefused, LinkLost
<1>2. turns' \in Nat /\ acked' \in BOOLEAN
  <2>1. turns' \in {turns, turns + 1, 0} \/ (turns > 0 /\ turns' = turns - 1)
    BY DEF SttWords, Submit, TurnRefused, LinkLost
  <2>2. acked' \in {acked, FALSE}
    BY DEF SttWords, Submit, TurnRefused, LinkLost
  <2>3. turns' \in Nat
    BY <1>a, <2>1
  <2>4. acked' \in BOOLEAN
    BY <1>a, <2>2
  <2>5. QED
    BY <2>3, <2>4
<1>3. CASE SttWords
  <2> DEFINE q == [page EXCEPT !.stt = @ - 1, !.busy = TRUE]
  <2>1. page.stt - 1 \in Nat
    BY <1>3, <1>a DEF SttWords, Page
  <2>2. q \in Page /\ Calm(page, q)
    BY <1>a, <2>1 DEF Page, Calm, SameSpeech, SameToggle
  <2>3. page' = StartWake(q)
    BY <1>3 DEF SttWords
  <2> HIDE DEF q
  <2>4. page' \in Page /\ Calm(page, page')
    BY <2>2, <2>3, StartWakeCalm, CalmChain
  <2>5. QED
    BY <1>1, <1>2, <1>c, <2>4, CalmStep
<1>4. CASE Submit
  <2>1. page' \in Page /\ Calm(page, page')
    BY <1>4, <1>a DEF Submit, Page, Calm, SameSpeech, SameToggle
  <2>2. QED
    BY <1>1, <1>2, <1>c, <2>1, CalmStep
<1>5. CASE TurnRefused
  <2>1. page' = [page EXCEPT !.busy = FALSE, !.timer = TRUE]
    BY <1>5 DEF TurnRefused
  <2>2. page' \in Page /\ Calm(page, page')
    BY <1>a, <2>1 DEF Page, Calm, SameSpeech, SameToggle
  <2>3. QED
    BY <1>1, <1>2, <1>c, <2>2, CalmStep
<1>6. CASE LinkLost
  <2>1. page' = page
    BY <1>6 DEF LinkLost
  <2>2. page' \in Page /\ Calm(page, page')
    BY <1>a, <2>1 DEF Calm, SameSpeech, SameToggle
  <2>3. QED
    BY <1>1, <1>2, <1>c, <2>2, CalmStep
<1>7. QED
  BY <1>3, <1>4, <1>5, <1>6

\* The toggle's part of the invariant, when nothing of it changes.
LEMMA ToggleSame ==
  ASSUME Toggle, SameToggle(page, page'), UNCHANGED <<alerts, wish, meddled>>
  PROVE  Toggle'
  BY DEF Toggle, SameToggle

\* A turn that streams cuts speech, adds sentences, and leaves the toggle alone.
LEMMA StreamKeeps ==
  ASSUME LoopInvariant, Ack \/ Token \/ Done
  PROVE  LoopInvariant'
<1>a. /\ page \in Page /\ turns \in Nat /\ acked \in BOOLEAN /\ LoopTypeOK /\ Toggle
      /\ Sound(page, chain, pred, buf)
  BY DEF LoopInvariant, LoopTypeOK
<1>1. UNCHANGED <<buf, alerts, left, wish, meddled>> /\ turns' \in Nat /\ acked' \in BOOLEAN
  <2>1. UNCHANGED <<buf, alerts, left, wish, meddled>>
    BY DEF Ack, Token, Done
  <2>2. turns' = turns \/ (turns > 0 /\ turns' = turns - 1)
    BY DEF Ack, Token, Done
  <2>3. acked' \in {TRUE, FALSE, acked}
    BY DEF Ack, Token, Done
  <2>4. turns' \in Nat
    BY <1>a, <2>2
  <2>5. acked' \in BOOLEAN
    BY <1>a, <2>3
  <2>6. QED
    BY <2>1, <2>4, <2>5
<1>2. SUFFICES /\ page' \in Page /\ SameToggle(page, page')
               /\ chain' \in [Sentence -> LinkState]
               /\ pred' \in [Sentence -> Sentence \cup {0}]
               /\ Sound(page', chain', pred', buf)
  <2>1. ASSUME page' \in Page, chain' \in [Sentence -> LinkState],
               pred' \in [Sentence -> Sentence \cup {0}]
        PROVE  LoopTypeOK'
    BY <1>a, <1>1, <2>1 DEF LoopTypeOK
  <2>2. buf' = buf
    BY <1>1
  <2>3. QED
    BY <1>a, <1>1, <2>1, <2>2, ToggleSame DEF LoopInvariant
<1>3. CASE Ack
  <2>1. page' = StopSpeech(page) /\ chain' = chain /\ pred' = pred
    BY <1>3 DEF Ack
  <2>2. \A i \in page.audible : i = page.source
    BY <1>a DEF Sound
  <2>3. page' \in Page /\ SameToggle(page, page')
    BY <1>a, <2>1, <2>2, StopSpeechSilent
  <2>4. Sound(page', chain', pred', buf)
    BY <1>a, <2>1, StopSpeechSound
  <2>5. QED
    BY <1>a, <2>1, <2>3, <2>4 DEF LoopTypeOK
<1>4. CASE Token
  <2>1. PICK i \in Sentence : Enqueue(page, i)
    BY <1>4 DEF Token
  <2>2. QED
    BY <1>a, <2>1, EnqueueSound
<1>5. CASE Done
  <2> DEFINE q == [page EXCEPT !.busy = FALSE, !.timer = TRUE]
  <2>1. q \in Page /\ Calm(page, q)
    BY <1>a DEF Page, Calm, SameSpeech, SameToggle
  <2>2. Sound(q, chain, pred, buf)
    BY <1>a, <2>1, CalmIsSound DEF Calm
  <2>3. \/ page' = q /\ UNCHANGED <<chain, pred>>
        \/ \E i \in Sentence : Enqueue(q, i)
    BY <1>5 DEF Done
  <2> HIDE DEF q
  <2>4. CASE page' = q /\ UNCHANGED <<chain, pred>>
    BY <1>a, <2>1, <2>2, <2>4 DEF LoopTypeOK, Calm
  <2>5. CASE \E i \in Sentence : Enqueue(q, i)
    <3>1. PICK i \in Sentence : Enqueue(q, i)
      BY <2>5
    <3>2. QED
      BY <1>a, <2>1, <2>2, <3>1, EnqueueSound DEF Calm, SameToggle
  <2>6. QED
    BY <2>3, <2>4, <2>5
<1>6. QED
  BY <1>3, <1>4, <1>5

\* The Master's clicks, the browser's answer to the permission request, and a
\* state that is rendered.
LEMMA ToggleKeeps ==
  ASSUME LoopInvariant, Click \/ Granted \/ Denied \/ RenderVoiceMeta
  PROVE  LoopInvariant'
<1>a. /\ page \in Page /\ LoopTypeOK /\ Toggle /\ Sound(page, chain, pred, buf)
  BY DEF LoopInvariant, LoopTypeOK
<1>b. Spend \/ UNCHANGED left
  BY DEF Click, Granted, Denied, RenderVoiceMeta
<1>c. left' \in 0..MaxEvents
  BY <1>a, <1>b, SpendLeft
<1>1. UNCHANGED <<chain, pred, buf, alerts, turns, acked>>
  BY DEF Click, Granted, Denied, RenderVoiceMeta, Only
<1>2. ASSUME page' \in Page, wish' \in BOOLEAN, meddled' \in BOOLEAN,
             Sound(page', chain, pred, buf), Toggle'
      PROVE  LoopInvariant'
  <2>1. LoopTypeOK'
    BY <1>a, <1>c, <1>1, <1>2 DEF LoopTypeOK
  <2>2. chain' = chain /\ pred' = pred /\ buf' = buf
    BY <1>1
  <2>3. QED
    BY <1>2, <2>1, <2>2 DEF LoopInvariant
<1>t. wish \in BOOLEAN /\ meddled \in BOOLEAN /\ page.voiceOn \in BOOLEAN
      /\ page.checked \in BOOLEAN /\ page.arming \in Nat
  BY <1>a DEF LoopTypeOK, Page
<1>z. page.arming > 0 \/ page.arming = 0
  BY <1>t
<1>3. CASE Click /\ page.checked
  <2> DEFINE q == [page EXCEPT !.checked = FALSE]
  <2>1. /\ q \in Page /\ SameSpeech(page, q) /\ q.checked = FALSE /\ q.arming = page.arming
    BY <1>a DEF Page, SameSpeech
  <2>2. Sound(q, chain, pred, buf)
    BY <1>a, <2>1, CalmIsSound
  <2>3. page' = Disarm(q) /\ wish' = FALSE
    BY <1>3 DEF Click
  <2> HIDE DEF q
  <2>4. /\ page' \in Page /\ Sound(page', chain, pred, buf)
        /\ page'.voiceOn = FALSE /\ page'.checked = FALSE /\ page'.arming = page.arming
    BY <2>1, <2>2, <2>3, DisarmSilent
  <2>5. meddled' = (meddled \/ alerts # {} \/ page.arming > 0)
    BY <1>3 DEF Click
  <2>6. meddled' \in BOOLEAN
    BY <2>5
  <2>7. meddled' \/ page.arming = 0
    BY <1>z, <2>5
  <2>8. Toggle'
    BY <2>3, <2>4, <2>7 DEF Toggle
  <2>9. QED
    BY <1>2, <2>3, <2>4, <2>6, <2>8
<1>4. CASE Click /\ ~page.checked
  <2>1. page' = [page EXCEPT !.checked = TRUE, !.arming = page.arming + 1] /\ wish' = wish
    BY <1>4 DEF Click
  <2>2. page.arming + 1 \in Nat
    BY <1>t
  <2>3. /\ page' \in Page /\ SameSpeech(page, page') /\ page'.checked = TRUE
        /\ page'.arming = page.arming + 1 /\ page'.voiceOn = page.voiceOn
    BY <1>a, <2>1, <2>2 DEF Page, SameSpeech
  <2>4. meddled' = (meddled \/ alerts # {} \/ page.arming > 0)
    BY <1>4 DEF Click
  <2>5. meddled' \in BOOLEAN
    BY <2>4
  <2>6. meddled' \/ (~meddled /\ alerts = {} /\ page.arming = 0)
    BY <1>z, <2>4
  <2>7. Toggle'
    <3>1. CASE meddled'
      BY <3>1 DEF Toggle
    <3>2. CASE ~meddled /\ alerts = {} /\ page.arming = 0
      <4>1. page.voiceOn = wish
        BY <1>a, <1>t, <3>2 DEF Toggle
      <4>2. page'.arming = 1 /\ alerts' = {}
        BY <1>1, <2>3, <3>2
      <4>3. page'.voiceOn = wish' /\ wish' = wish
        BY <2>1, <2>3, <4>1
      <4>4. QED
        BY <1>t, <4>2, <4>3 DEF Toggle
    <3>3. QED
      BY <2>6, <3>1, <3>2
  <2>8. wish' \in BOOLEAN
    BY <1>t, <2>1
  <2>9. Sound(page', chain, pred, buf)
    BY <1>a, <2>3, CalmIsSound
  <2>10. QED
    BY <1>2, <2>3, <2>5, <2>7, <2>8, <2>9
<1>5. CASE Granted
  <2> DEFINE q == [page EXCEPT !.arming = page.arming - 1, !.mic = TRUE, !.voiceOn = TRUE]
  <2>1. page.arming - 1 \in Nat
    BY <1>5, <1>t DEF Granted
  <2>2. /\ q \in Page /\ SameSpeech(page, q) /\ q.voiceOn = TRUE
        /\ q.arming = page.arming - 1 /\ q.checked = page.checked
    BY <1>a, <2>1 DEF Page, SameSpeech
  <2>3. page' = StartWake(q) /\ wish' = TRUE
    BY <1>5 DEF Granted
  <2> HIDE DEF q
  <2>4. /\ page' \in Page /\ SameSpeech(page, page') /\ page'.voiceOn = TRUE
        /\ page'.arming = page.arming - 1 /\ page'.checked = page.checked
    BY <2>2, <2>3, StartWakeCalm DEF Calm, SameSpeech, SameToggle
  <2>5. meddled' = (meddled \/ alerts # {})
    BY <1>5 DEF Granted
  <2>6. meddled' \in BOOLEAN
    BY <2>5
  <2>7. page.arming # 0
    BY <1>5, <1>t DEF Granted
  <2>8. Toggle'
    <3>1. CASE meddled'
      BY <3>1 DEF Toggle
    <3>2. CASE ~meddled'
      <4>1. ~meddled /\ alerts = {} /\ alerts' = {}
        BY <1>1, <2>5, <3>2
      <4>2. page.arming = 1
        BY <1>a, <2>7, <4>1 DEF Toggle
      <4>3. page'.arming = 0
        BY <2>4, <4>2
      <4>4. QED
        BY <2>3, <2>4, <4>1, <4>3 DEF Toggle
    <3>3. QED
      BY <3>1, <3>2
  <2>9. QED
    BY <1>a, <1>2, <2>3, <2>4, <2>6, <2>8, CalmIsSound
<1>6. CASE Denied
  <2>1. page.arming - 1 \in Nat
    BY <1>6, <1>t DEF Denied
  <2>2. page' = [page EXCEPT !.arming = page.arming - 1, !.checked = FALSE]
    BY <1>6 DEF Denied, Only
  <2>3. wish' = wish /\ meddled' = meddled /\ alerts' = alerts
    BY <1>6 DEF Denied, Only
  <2>4. /\ page' \in Page /\ SameSpeech(page, page') /\ page'.voiceOn = page.voiceOn
        /\ page'.arming = page.arming - 1 /\ page'.checked = FALSE
    BY <1>a, <2>1, <2>2 DEF Page, SameSpeech
  <2>5. page.arming # 0
    BY <1>6, <1>t DEF Denied
  <2>6. Toggle'
    <3>1. CASE meddled
      BY <2>3, <3>1 DEF Toggle
    <3>2. CASE ~meddled
      <4>1. page.arming = 1 /\ page.voiceOn = wish /\ alerts = {}
        BY <1>a, <2>5, <3>2 DEF Toggle
      <4>2. page'.arming = 0 /\ page'.voiceOn = page.voiceOn
        BY <2>4, <4>1
      <4>3. QED
        BY <2>3, <2>4, <4>1, <4>2 DEF Toggle
    <3>3. QED
      BY <3>1, <3>2
  <2>7. QED
    BY <1>a, <1>t, <1>2, <2>3, <2>4, <2>6, CalmIsSound
<1>7. CASE RenderVoiceMeta
  <2>1. PICK avail \in BOOLEAN :
          page' = [page EXCEPT !.checked = avail /\ page.voiceOn, !.disabled = ~avail]
    BY <1>7 DEF RenderVoiceMeta, Only
  <2>2. wish' = wish /\ meddled' = meddled /\ alerts' = alerts
    BY <1>7 DEF RenderVoiceMeta, Only
  <2>3. (avail /\ page.voiceOn) \in BOOLEAN /\ (~avail) \in BOOLEAN
    OBVIOUS
  <2>4. /\ page' \in Page /\ SameSpeech(page, page') /\ page'.voiceOn = page.voiceOn
        /\ page'.arming = page.arming /\ page'.checked = (avail /\ page.voiceOn)
    BY <1>a, <2>1, <2>3 DEF Page, SameSpeech
  <2>5. page'.checked => page'.voiceOn
    BY <2>4
  <2>6. Toggle'
    BY <1>a, <2>2, <2>4, <2>5 DEF Toggle
  <2>7. QED
    BY <1>a, <1>t, <1>2, <2>2, <2>4, <2>6, CalmIsSound
<1>8. QED
  BY <1>3, <1>4, <1>5, <1>6, <1>7

\* An alert finds the toggle as the Master left it, or an earlier one on the
\* list found it so.
LEMMA AlertKeeps ==
  ASSUME LoopInvariant, Alert
  PROVE  LoopInvariant'
<1>a. /\ page \in Page /\ LoopTypeOK /\ Toggle /\ Sound(page, chain, pred, buf)
  BY DEF LoopInvariant, LoopTypeOK
<1>t. /\ wish \in BOOLEAN /\ meddled \in BOOLEAN /\ page.voiceOn \in BOOLEAN
      /\ page.checked \in BOOLEAN /\ page.arming \in Nat
  BY <1>a DEF LoopTypeOK, Page
<1> DEFINE q == VoiceOnFor(page)
<1>1. /\ q \in Page /\ SameSpeech(page, q) /\ q.voiceOn = TRUE /\ q.arming = page.arming
      /\ page.voiceOn => q = page
      /\ ~page.voiceOn => q.checked = TRUE
  <2>1. CASE page.voiceOn
    <3>1. q = page /\ page.voiceOn = TRUE
      BY <1>t, <2>1 DEF VoiceOnFor
    <3> HIDE DEF q
    <3>2. QED
      BY <1>a, <2>1, <3>1 DEF SameSpeech
  <2>2. CASE ~page.voiceOn
    <3>1. q = [page EXCEPT !.voiceOn = TRUE, !.checked = TRUE]
      BY <2>2 DEF VoiceOnFor
    <3> HIDE DEF q
    <3>2. /\ q \in Page /\ SameSpeech(page, q) /\ q.voiceOn = TRUE
          /\ q.arming = page.arming /\ q.checked = TRUE
      BY <1>a, <3>1 DEF Page, SameSpeech
    <3>3. QED
      BY <2>2, <3>2
  <2>3. QED
    BY <2>1, <2>2
<1>2. Sound(q, chain, pred, buf)
  BY <1>a, <1>1, CalmIsSound
<1>3. PICK i \in Sentence : /\ Enqueue(StopSpeech(q), i)
                            /\ alerts' = alerts \cup {[link |-> i, wasOn |-> page.voiceOn]}
  BY DEF Alert
<1> HIDE DEF q
<1>4. /\ StopSpeech(q) \in Page /\ SameToggle(q, StopSpeech(q))
      /\ Sound(StopSpeech(q), chain, pred, buf)
  <2>1. \A k \in q.audible : k = q.source
    BY <1>2 DEF Sound
  <2>2. QED
    BY <1>1, <1>2, <2>1, StopSpeechSilent, StopSpeechSound
<1>5. /\ page' \in Page /\ SameToggle(StopSpeech(q), page')
      /\ chain' \in [Sentence -> LinkState] /\ pred' \in [Sentence -> Sentence \cup {0}]
      /\ Sound(page', chain', pred', buf)
  BY <1>a, <1>3, <1>4, EnqueueSound
<1>6. /\ UNCHANGED <<buf, turns, acked, wish>>
      /\ meddled' = (meddled \/ page.arming > 0)
  BY DEF Alert
<1>7. meddled' \in BOOLEAN /\ left' \in 0..MaxEvents
  <2>1. Spend
    BY DEF Alert
  <2>2. QED
    BY <1>a, <1>6, <2>1, SpendLeft
<1>8. alerts' \subseteq [link : Sentence, wasOn : BOOLEAN]
  <2>1. [link |-> i, wasOn |-> page.voiceOn] \in [link : Sentence, wasOn : BOOLEAN]
    BY <1>t
  <2>2. QED
    BY <1>a, <1>3, <2>1 DEF LoopTypeOK
<1>9. LoopTypeOK'
  BY <1>a, <1>5, <1>6, <1>7, <1>8 DEF LoopTypeOK
<1>10. Toggle'
  <2>1. CASE meddled'
    BY <2>1 DEF Toggle
  <2>2. CASE ~meddled'
    <3>1. ~meddled /\ page.arming = 0
      <4>1. page.arming > 0 \/ page.arming = 0
        BY <1>t
      <4>2. QED
        BY <1>6, <2>2, <4>1
    <3>2. /\ wish => page.voiceOn /\ \A a \in alerts : a.wasOn
          /\ ~wish /\ page.voiceOn => \E a \in alerts : ~a.wasOn
      BY <1>a, <3>1 DEF Toggle
    <3>3. q.voiceOn = TRUE /\ q.arming = 0
      BY <1>1, <1>t, <3>1
    <3>4. page'.arming = 0 /\ page'.voiceOn = TRUE
      BY <1>4, <1>5, <3>3 DEF SameToggle
    <3>5. wish' => \A a \in alerts' : a.wasOn
      <4>1. ASSUME wish' PROVE \A a \in alerts' : a.wasOn
        <5>1. wish
          BY <1>6, <4>1
        <5>2. QED
          BY <1>3, <3>2, <5>1
      <4>2. QED
        BY <4>1
    <3>6. ~wish' => \E a \in alerts' : ~a.wasOn
      <4>1. ASSUME ~wish' PROVE \E a \in alerts' : ~a.wasOn
        <5>1. ~wish
          BY <1>6, <4>1
        <5>2. CASE page.voiceOn
          BY <1>3, <3>2, <5>1, <5>2
        <5>3. CASE ~page.voiceOn
          <6>1. [link |-> i, wasOn |-> page.voiceOn] \in alerts'
            BY <1>3
          <6>2. QED
            BY <5>3, <6>1
        <5>4. QED
          BY <5>2, <5>3
      <4>2. QED
        BY <4>1
    <3>7. QED
      BY <3>4, <3>5, <3>6 DEF Toggle
  <2>3. QED
    BY <2>1, <2>2
<1>11. QED
  BY <1>5, <1>6, <1>9, <1>10 DEF LoopInvariant

\* A link runs, or synthesis answers: the page is as it was.
LEMMA LinkKeeps ==
  ASSUME LoopInvariant, NEW i \in Sentence, RunLink(i) \/ Synthesized(i)
  PROVE  LoopInvariant'
<1>a. /\ page \in Page /\ LoopTypeOK /\ Toggle /\ Sound(page, chain, pred, buf)
  BY DEF LoopInvariant, LoopTypeOK
<1>1. UNCHANGED <<page, pred, alerts, turns, acked, left, wish, meddled>>
  BY DEF RunLink, Synthesized
<1>2. Toggle'
  BY <1>a, <1>1 DEF Toggle
<1>3. CASE RunLink(i)
  <2>1. PICK x \in {"await", "done"} :
          chain' = [chain EXCEPT ![i] = x]
    BY <1>3 DEF RunLink
  <2>2. /\ chain' \in [Sentence -> LinkState] /\ buf' = buf
        /\ chain'[i] = x
        /\ \A j \in Sentence : j # i => chain'[j] = chain[j]
    BY <1>a, <1>3, <2>1 DEF RunLink, LoopTypeOK, LinkState
  <2>3. chain[i] = "queued" /\ (pred[i] # 0 => chain[pred[i]] = "done")
    BY <1>3 DEF RunLink, CanRun
  <2>4. \A j \in Sentence : j \in Nat /\ j # 0
    BY SentenceNumbers
  <2>5. page.fresh \subseteq Sentence /\ page.audible \subseteq Sentence /\ page.cut \subseteq Sentence
    BY <1>a DEF Page
  <2>6. ASSUME NEW j \in page.fresh, j < i, i \in page.fresh
        PROVE  chain[j] = "done"
    <3>1. pred[i] = i - 1 /\ j \in Nat /\ i \in Nat /\ j # 0
      BY <1>a, <2>4, <2>5, <2>6 DEF Sound
    <3>2. i - 1 \in Sentence /\ i - 1 # 0 /\ i - 1 < i /\ j <= i - 1
      BY <2>5, <2>6, <3>1, SentenceNumbers
    <3>3. chain[i - 1] = "done"
      BY <2>3, <3>1, <3>2
    <3>4. CASE j = i - 1
      BY <3>3, <3>4
    <3>5. CASE j # i - 1
      <4>1. j < i - 1 /\ j \in Sentence
        BY <2>5, <3>1, <3>2, <3>5
      <4>2. i - 1 \in page.fresh
        BY <1>a, <3>2, <3>3, <4>1 DEF Sound
      <4>3. QED
        BY <1>a, <3>3, <4>1, <4>2 DEF Sound
    <3>6. QED
      BY <3>4, <3>5
  <2>7. Sound(page, chain', pred, buf)
    <3>1. /\ \A k \in page.audible : k = page.source /\ k \in page.fresh /\ chain'[k] = "playing"
          /\ \A k \in page.cut : chain'[k] = "playing"
      BY <1>a, <2>2, <2>3, <2>5 DEF Sound
    <3>2. \A k \in Sentence : chain'[k] = "unused" <=> chain[k] = "unused"
      BY <2>2, <2>3
    <3>3. \A k, j \in page.fresh :
            j < k /\ chain'[k] \in {"await", "playing", "done"} => chain'[j] = "done"
      <4>1. SUFFICES ASSUME NEW k \in page.fresh, NEW j \in page.fresh, j < k,
                            chain'[k] \in {"await", "playing", "done"}
                     PROVE  chain'[j] = "done"
        OBVIOUS
      <4>2. chain[j] = "done"
        BY <1>a, <2>2, <2>5, <2>6, <4>1 DEF Sound
      <4>3. QED
        BY <2>2, <2>3, <2>5, <4>2
    <3>4. QED
      BY <1>a, <3>1, <3>2, <3>3 DEF Sound
  <2>8. QED
    BY <1>a, <1>1, <1>2, <2>2, <2>7 DEF LoopInvariant, LoopTypeOK
<1>4. CASE Synthesized(i)
  <2>1. PICK b \in {"audio", "empty"} : buf' = [buf EXCEPT ![i] = b]
    BY <1>4 DEF Synthesized
  <2>2. /\ buf' \in [Sentence -> {"none", "audio", "empty"}] /\ chain' = chain
        /\ \A j \in Sentence : j # i => buf'[j] = buf[j]
    BY <1>a, <1>4, <2>1 DEF Synthesized, LoopTypeOK
  <2>3. chain[i] # "unused" /\ chain[i] # "playing" /\ (i \in page.fresh => page.cut = {})
    BY <1>4 DEF Synthesized
  <2>4. page.fresh \subseteq Sentence /\ page.audible \subseteq Sentence /\ page.cut \subseteq Sentence
    BY <1>a DEF Page
  <2>5. Sound(page, chain, pred, buf')
    BY <1>a, <2>2, <2>3, <2>4 DEF Sound
  <2>6. QED
    BY <1>a, <1>1, <1>2, <2>2, <2>5 DEF LoopInvariant, LoopTypeOK
<1>5. QED
  BY <1>3, <1>4

\* Whichever alert ends first: only one that found voice off switches it off,
\* and until it does the toggle is on.
LEMMA RestoreKeeps ==
  ASSUME LoopInvariant, NEW a \in alerts, Restore(a)
  PROVE  LoopInvariant'
<1>a. /\ page \in Page /\ LoopTypeOK /\ Toggle /\ Sound(page, chain, pred, buf)
  BY DEF LoopInvariant, LoopTypeOK
<1>1. /\ UNCHANGED <<chain, pred, buf, turns, acked, left, wish, meddled>>
      /\ alerts' = alerts \ {a}
  BY DEF Restore
<1>2. page' \in Page /\ SameSpeech(page, page')
  <2>1. CASE page' = page
    BY <1>a, <2>1 DEF SameSpeech
  <2>2. CASE page' = [page EXCEPT !.voiceOn = FALSE, !.checked = FALSE]
    BY <1>a, <2>2 DEF Page, SameSpeech
  <2>3. QED
    BY <2>1, <2>2 DEF Restore
<1>3. Sound(page', chain', pred', buf')
  BY <1>a, <1>1, <1>2, CalmIsSound
<1>4. Toggle'
  <2>1. CASE meddled
    BY <1>1, <2>1 DEF Toggle
  <2>2. CASE ~meddled
    <3>1. /\ page.arming = 0 /\ (page.checked => page.voiceOn)
          /\ wish => page.voiceOn /\ \A x \in alerts : x.wasOn
          /\ ~wish /\ page.voiceOn => \E x \in alerts : ~x.wasOn
      BY <1>a, <2>2 DEF Toggle
    <3>2. CASE a.wasOn
      <4>1. page' = page
        BY <3>2 DEF Restore
      <4>2. ~wish /\ page.voiceOn => \E x \in alerts' : ~x.wasOn
        BY <1>1, <3>1, <3>2
      <4>3. QED
        BY <1>1, <3>1, <4>1, <4>2 DEF Toggle
    <3>3. CASE ~a.wasOn
      <4>1. page' = [page EXCEPT !.voiceOn = FALSE, !.checked = FALSE]
        BY <3>3 DEF Restore
      <4>2. page'.voiceOn = FALSE /\ page'.checked = FALSE /\ page'.arming = 0
        BY <1>a, <3>1, <4>1 DEF Page
      <4>3. ~wish /\ wish' = wish
        BY <1>1, <3>1, <3>3
      <4>4. QED
        BY <4>2, <4>3 DEF Toggle
    <3>4. QED
      BY <3>2, <3>3
  <2>3. QED
    BY <2>1, <2>2
<1>5. LoopTypeOK'
  BY <1>a, <1>1, <1>2 DEF LoopTypeOK
<1>6. QED
  BY <1>3, <1>4, <1>5 DEF LoopInvariant

\* A link that was awaited, or played, and is over leaves the others in order.
LEMMA LinkOver ==
  ASSUME LoopTypeOK, NEW p \in Page, Sound(p, chain, pred, buf), NEW i \in Sentence,
         i \notin p.audible, i \notin p.cut, chain[i] \in {"await", "playing"},
         chain' = [chain EXCEPT ![i] = "done"]
  PROVE  chain' \in [Sentence -> LinkState] /\ Sound(p, chain', pred, buf)
<1>1. /\ chain' \in [Sentence -> LinkState] /\ chain'[i] = "done"
      /\ \A j \in Sentence : j # i => chain'[j] = chain[j]
  BY DEF LoopTypeOK, LinkState
<1>2. p.fresh \subseteq Sentence /\ p.audible \subseteq Sentence /\ p.cut \subseteq Sentence
  BY DEF Page
<1>3. \A k \in Sentence : chain'[k] = "unused" <=> chain[k] = "unused"
  BY <1>1
<1>4. /\ \A k \in p.audible : k = p.source /\ k \in p.fresh /\ chain'[k] = "playing"
      /\ \A k \in p.cut : chain'[k] = "playing"
  BY <1>1, <1>2 DEF Sound
<1>5. \A k, j \in p.fresh :
        j < k /\ chain'[k] \in {"await", "playing", "done"} => chain'[j] = "done"
  <2>1. SUFFICES ASSUME NEW k \in p.fresh, NEW j \in p.fresh, j < k,
                        chain'[k] \in {"await", "playing", "done"}
                 PROVE  chain'[j] = "done"
    OBVIOUS
  <2>2. chain[k] \in {"await", "playing", "done"}
    BY <1>1, <1>2, <2>1
  <2>3. chain[j] = "done"
    BY <2>1, <2>2 DEF Sound
  <2>4. QED
    BY <1>1, <1>2, <2>3
<1>6. QED
  BY <1>1, <1>3, <1>4, <1>5 DEF Sound

\* When a link plays nothing else sounds: what sounded of its generation came
\* before it and is over, and what was cut has reported its end.
LEMMA PlayKeeps ==
  ASSUME LoopInvariant, NEW i \in Sentence, PlayLink(i)
  PROVE  LoopInvariant'
<1>a. /\ page \in Page /\ LoopTypeOK /\ Toggle /\ Sound(page, chain, pred, buf)
  BY DEF LoopInvariant, LoopTypeOK
<1>1. UNCHANGED <<pred, buf, alerts, turns, acked, left, wish, meddled>>
  BY DEF PlayLink
<1>2. chain[i] = "await" /\ buf[i] # "none"
  BY DEF PlayLink, CanPlay
<1>3. i \notin page.audible /\ i \notin page.cut
  BY <1>a, <1>2 DEF Sound
<1>4. ASSUME page' \in Page, SameToggle(page, page'), chain' \in [Sentence -> LinkState],
             Sound(page', chain', pred, buf)
      PROVE  LoopInvariant'
  <2>1. Toggle'
    BY <1>a, <1>1, <1>4, ToggleSame
  <2>2. LoopTypeOK'
    BY <1>a, <1>1, <1>4 DEF LoopTypeOK
  <2>3. pred' = pred /\ buf' = buf
    BY <1>1
  <2>4. QED
    BY <1>4, <2>1, <2>2, <2>3 DEF LoopInvariant
<1>5. CASE i \notin page.fresh
  <2>1. chain' = [chain EXCEPT ![i] = "done"] /\ page' = page
    BY <1>5 DEF PlayLink
  <2>2. chain' \in [Sentence -> LinkState] /\ Sound(page, chain', pred, buf)
    BY <1>a, <1>2, <1>3, <2>1, LinkOver
  <2>3. SameToggle(page, page')
    BY <2>1 DEF SameToggle
  <2>4. QED
    BY <1>a, <1>4, <2>1, <2>2, <2>3
<1>6. CASE i \in page.fresh /\ buf[i] # "audio"
  <2> DEFINE q == [page EXCEPT !.speaking = FALSE]
  <2>1. chain' = [chain EXCEPT ![i] = "done"] /\ page' = WakeIfQuiet(q)
    BY <1>6 DEF PlayLink
  <2>2. chain' \in [Sentence -> LinkState] /\ Sound(page, chain', pred, buf)
    BY <1>a, <1>2, <1>3, <2>1, LinkOver
  <2>3. q \in Page /\ Calm(page, q)
    BY <1>a DEF Page, Calm, SameSpeech, SameToggle
  <2> HIDE DEF q
  <2>4. page' \in Page /\ Calm(page, page')
    BY <2>1, <2>3, WakeIfQuietCalm, CalmChain
  <2>5. Sound(page', chain', pred, buf)
    BY <2>2, <2>4, CalmIsSound DEF Calm
  <2>6. QED
    BY <1>4, <2>2, <2>4, <2>5 DEF Calm
<1>7. CASE i \in page.fresh /\ buf[i] = "audio"
  <2>1. chain' = [chain EXCEPT ![i] = "playing"] /\ page' = PlayBuffer(page, i)
    BY <1>7 DEF PlayLink
  <2>2. /\ page' \in Page /\ SameToggle(page, page')
        /\ page'.source = i /\ page'.audible = page.audible \cup {i}
        /\ page'.cut = page.cut /\ page'.fresh = page.fresh
    BY <1>a, <2>1, PlayBufferSpeaks
  <2>3. /\ chain' \in [Sentence -> LinkState] /\ chain'[i] = "playing"
        /\ \A j \in Sentence : j # i => chain'[j] = chain[j]
    BY <1>a, <2>1 DEF LoopTypeOK, LinkState
  <2>4. /\ page.fresh \subseteq Sentence /\ page.audible \subseteq Sentence
        /\ page.cut \subseteq Sentence /\ \A j \in Sentence : j \in Nat
    BY <1>a, SentenceNumbers DEF Page
  <2>5. page.cut = {}
    BY <1>a, <1>2, <1>7 DEF Sound
  <2>6. page.audible = {}
    <3>1. SUFFICES ASSUME NEW k \in page.audible PROVE FALSE
      OBVIOUS
    <3>2. k \in page.fresh /\ chain[k] = "playing" /\ k # i
      BY <1>a, <1>3 DEF Sound
    <3>3. k \in Nat /\ i \in Nat
      BY <2>4
    <3>4. CASE k < i
      BY <1>a, <1>2, <1>7, <3>2, <3>4 DEF Sound
    <3>5. CASE i < k
      BY <1>a, <1>2, <1>7, <3>2, <3>5 DEF Sound
    <3>6. QED
      BY <3>2, <3>3, <3>4, <3>5
  <2>7. Sound(page', chain', pred, buf)
    <3>1. /\ \A k \in page'.audible : k = page'.source /\ k \in page'.fresh /\ chain'[k] = "playing"
          /\ \A k \in page'.cut : chain'[k] = "playing"
          /\ \A k \in page'.audible \cup page'.cut : buf[k] = "audio"
      BY <1>7, <2>2, <2>3, <2>5, <2>6
    <3>2. \A k \in Sentence : chain'[k] = "unused" <=> chain[k] = "unused"
      BY <1>2, <2>3
    <3>3. \A k, j \in page'.fresh :
            j < k /\ chain'[k] \in {"await", "playing", "done"} => chain'[j] = "done"
      <4>1. SUFFICES ASSUME NEW k \in page.fresh, NEW j \in page.fresh, j < k,
                            chain'[k] \in {"await", "playing", "done"}
                     PROVE  chain'[j] = "done"
        BY <2>2
      <4>2. chain[k] \in {"await", "playing", "done"}
        BY <1>2, <2>3, <2>4, <4>1
      <4>3. chain[j] = "done"
        BY <1>a, <4>1, <4>2 DEF Sound
      <4>4. QED
        BY <1>2, <2>3, <2>4, <4>3
    <3>4. QED
      BY <1>a, <2>2, <2>5, <3>1, <3>2, <3>3 DEF Sound
  <2>8. QED
    BY <1>4, <2>2, <2>3, <2>7
<1>8. QED
  BY <1>5, <1>6, <1>7

\* A late end of a stopped buffer clears the source: nothing sounds by then.
LEMMA EndedKeeps ==
  ASSUME LoopInvariant, NEW i \in Sentence, BufferEnded(i)
  PROVE  LoopInvariant'
<1>a. /\ page \in Page /\ LoopTypeOK /\ Toggle /\ Sound(page, chain, pred, buf)
  BY DEF LoopInvariant, LoopTypeOK
<1>1. /\ UNCHANGED <<pred, buf, alerts, turns, acked, left, wish, meddled>>
      /\ chain' = [chain EXCEPT ![i] = "done"] /\ page' = BufferEnds(page, i)
      /\ i \in page.audible \cup page.cut
  BY DEF BufferEnded
<1>2. /\ page' \in Page /\ SameToggle(page, page')
      /\ page'.source = 0 /\ page'.audible = page.audible \ {i}
      /\ page'.cut = page.cut \ {i} /\ page'.fresh = page.fresh
  BY <1>a, <1>1, BufferEndsQuiet
<1>3. chain[i] = "playing"
  BY <1>a, <1>1 DEF Sound
<1>4. page'.audible = {}
  <2>1. CASE i \in page.audible
    BY <1>a, <1>2, <2>1 DEF Sound
  <2>2. CASE i \in page.cut
    <3>1. \A k \in page.audible : k \in page.fresh /\ buf[k] = "audio"
      BY <1>a DEF Sound
    <3>2. \A k \in page.fresh : buf[k] = "none"
      BY <1>a, <2>2 DEF Sound
    <3>3. page.audible = {}
      BY <3>1, <3>2
    <3>4. QED
      BY <1>2, <3>3
  <2>3. QED
    BY <1>1, <2>1, <2>2
<1>5. Sound(page', chain, pred, buf)
  BY <1>a, <1>2, <1>4 DEF Sound
<1>6. chain' \in [Sentence -> LinkState] /\ Sound(page', chain', pred, buf)
  BY <1>a, <1>1, <1>2, <1>3, <1>4, <1>5, LinkOver
<1>7. Toggle'
  BY <1>a, <1>1, <1>2, ToggleSame
<1>8. LoopTypeOK'
  BY <1>a, <1>1, <1>2, <1>6 DEF LoopTypeOK
<1>9. pred' = pred /\ buf' = buf
  BY <1>1
<1>10. QED
  BY <1>6, <1>7, <1>8, <1>9 DEF LoopInvariant

-----------------------------------------------------------------------------
LEMMA InitHolds ==
  ASSUME LoopInit
  PROVE  LoopInvariant
<1>1. PICK on \in BOOLEAN :
        /\ page = [voiceOn |-> on, checked |-> FALSE, disabled |-> FALSE, mic |-> FALSE, arming |-> 0,
               speaking |-> FALSE, held |-> FALSE, recording |-> FALSE, disarming |-> FALSE,
               busy |-> FALSE, recorder |-> FALSE, onstop |-> 0, wake |-> FALSE, others |-> 0,
               source |-> 0, audible |-> {}, cut |-> {}, fresh |-> {},
               hello |-> FALSE, helloCut |-> 0, busyClip |-> 0, busyCut |-> 0,
               stt |-> 0, timer |-> FALSE]
        /\ wish = on
  BY DEF LoopInit
<1>2. /\ chain = [i \in Sentence |-> "unused"] /\ pred = [i \in Sentence |-> 0]
      /\ buf = [i \in Sentence |-> "none"]
      /\ alerts = {} /\ turns = 0 /\ acked = FALSE /\ meddled = FALSE /\ left = MaxEvents
  BY DEF LoopInit
<1>3. page \in Page
  BY <1>1 DEF Page
<1>4. LoopTypeOK
  <2>1. /\ chain \in [Sentence -> LinkState] /\ pred \in [Sentence -> Sentence \cup {0}]
        /\ buf \in [Sentence -> {"none", "audio", "empty"}]
    BY <1>2 DEF LinkState
  <2>2. left \in 0..MaxEvents /\ turns \in Nat
    BY <1>2, SentenceType
  <2>3. /\ alerts \subseteq [link : Sentence, wasOn : BOOLEAN]
        /\ acked \in BOOLEAN /\ wish \in BOOLEAN /\ meddled \in BOOLEAN
    BY <1>1, <1>2
  <2>4. QED
    BY <1>3, <2>1, <2>2, <2>3 DEF LoopTypeOK
<1>5. page.audible = {} /\ page.cut = {} /\ page.fresh = {}
  BY <1>1
<1>6. Sound(page, chain, pred, buf)
  BY <1>2, <1>5 DEF Sound
<1>7. page.arming = 0 /\ page.checked = FALSE /\ page.voiceOn = on
  BY <1>1
<1>8. Toggle
  BY <1>1, <1>2, <1>7 DEF Toggle
<1>9. QED
  BY <1>4, <1>6, <1>8 DEF LoopInvariant

LEMMA StepKeeps ==
  ASSUME LoopInvariant, [LoopNext]_loop
  PROVE  LoopInvariant'
<1>1. CASE UNCHANGED loop
  BY <1>1 DEF loop, LoopInvariant, LoopTypeOK, Sound, Toggle
<1>2. CASE Continuation
  BY <1>2, LinkKeeps, PlayKeeps, RestoreKeeps DEF Continuation
<1>3. CASE Event
  <2>1. CASE \E i \in Sentence : Synthesized(i) \/ BufferEnded(i)
    BY <2>1, LinkKeeps, EndedKeeps
  <2>2. CASE HelloEnds \/ BusyClipEnds \/ Silence \/ OnStop
    BY <2>2, ClipKeeps
  <2>3. CASE Heard \/ WakeEnds \/ OtherEnds \/ TimerFires \/ SttNothing
    BY <2>3, WakeKeeps
  <2>4. CASE SttWords \/ Submit \/ TurnRefused \/ LinkLost
    BY <2>4, TurnKeeps
  <2>5. CASE Ack \/ Token \/ Done
    BY <2>5, StreamKeeps
  <2>6. CASE Click \/ Granted \/ Denied \/ RenderVoiceMeta
    BY <2>6, ToggleKeeps
  <2>7. CASE Alert
    BY <2>7, AlertKeeps
  <2>8. QED
    BY <1>3, <2>1, <2>2, <2>3, <2>4, <2>5, <2>6, <2>7 DEF Event, Owed
<1>4. QED
  BY <1>1, <1>2, <1>3 DEF LoopNext

\* Every step of the loop keeps the invariant.
THEOREM LoopInvariance == LoopSafeSpec => []LoopInvariant
<1>1. QED
  BY InitHolds, StepKeeps, PTL DEF LoopSafeSpec

\* The script's variables keep their types, the counts of events to come among
\* them: onended, onerror and onstop are never handled more often than owed.
THEOREM LoopTypes == LoopSafeSpec => []LoopTypeOK
<1>1. LoopInvariant => LoopTypeOK
  BY DEF LoopInvariant
<1>2. QED
  BY <1>1, LoopInvariance, PTL

\* enqueueSpeech and playBuffer let one sentence sound at a time, and it is of
\* what was said last, however often stopSpeech cuts in and however late the
\* ended events and the answers of synthesis come.
THEOREM OneVoiceSounds == LoopSafeSpec => []OneVoice
<1>1. ASSUME LoopInvariant PROVE OneVoice
  <2>1. page.audible \subseteq {page.source} /\ page.audible \subseteq page.fresh
    BY <1>1 DEF LoopInvariant, Sound
  <2>2. IsFiniteSet({page.source}) /\ Cardinality({page.source}) = 1
    BY FS_Singleton
  <2>3. Cardinality(page.audible) <= 1
    BY <2>1, <2>2, FS_Subset
  <2>4. QED
    BY <2>1, <2>3 DEF OneVoice
<1>2. QED
  BY <1>1, LoopInvariance, PTL

\* speakAlert leaves voiceOn as the Master last set it and no toggle that shows a
\* voice that is off, for any number of alerts that overlap, in whichever order
\* they end, and wherever renderVoiceMeta redraws the toggle in between.
THEOREM ToggleRestored == LoopSafeSpec => []RestoresToggle
<1>1. ASSUME LoopInvariant, alerts = {}, page.arming = 0, ~meddled
      PROVE  page.voiceOn = wish /\ (page.checked => page.voiceOn)
  <2>1. /\ page.checked => page.voiceOn
        /\ wish => page.voiceOn
        /\ ~(~wish /\ page.voiceOn)
    BY <1>1 DEF LoopInvariant, Toggle
  <2>2. wish \in BOOLEAN /\ page.voiceOn \in BOOLEAN
    BY <1>1 DEF LoopInvariant, LoopTypeOK, Page
  <2>3. QED
    BY <2>1, <2>2
<1>2. LoopInvariant => RestoresToggle
  BY <1>1 DEF RestoresToggle
<1>3. QED
  BY <1>2, LoopInvariance, PTL

=============================================================================
