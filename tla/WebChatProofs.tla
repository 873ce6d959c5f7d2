--------------------------- MODULE WebChatProofs ----------------------------
(* Theorems about the conversations of the web console, for any number of    *)
(* consoles, sessions, requests and events.                                  *)
EXTENDS WebChat, SequenceTheorems, TLAPS

\* An id that has been given out, or the legacy conversation.
Known(i) == i \in Nat /\ i < nextId

Requests ==
  [kind : Kinds, id : Nat, out : SUBSET Nat, legacy : BOOLEAN, step : Steps]

\* What a request carries is known; one that will name a session to its
\* console, or adopts the legacy conversation, has one session in hand.
Sound(c) ==
  /\ Known(c.id) /\ \A i \in c.out : Known(i) /\ i # 0
  /\ c.kind = "list" => c.step \notin {"get", "tell"}
  /\ c.step = "adopt" \/ (c.kind \in {"post", "del"} /\ c.step \in {"tell", "ok"})
       => \E i \in c.out : c.out = {i}
  /\ c.step = "adopt" => c.out \subseteq Live \cup cut

SoundCalls ==
  /\ calls \in [Tab -> Seq(Requests)]
  /\ \A t \in Tab : \A k \in DOMAIN calls[t] : Sound(calls[t][k])

\* A turn past its look writes to a session that was there then.
SoundTurns ==
  /\ turn \in [Tab -> [step : {"idle", "get", "title", "save", "reply"}, to : Nat, saw : Titles]]
  /\ \A t \in Tab : Known(turn[t].to)
  /\ \A t \in Tab : turn[t].step \in {"title", "save", "reply"} => turn[t].to \in Live \cup {0} \cup cut

SoundStore ==
  /\ nextId \in Nat \ {0} /\ nextId <= MaxId + 1
  /\ \A i \in Live : Known(i) /\ i # 0 /\ title[i] \in Titles
  /\ \A i \in history : Known(i)
  /\ NoOrphans

SoundConsoles ==
  /\ at \in [Tab -> Nat] /\ rows \in [Tab -> SUBSET Nat]
  /\ \A t \in Tab : Known(at[t]) /\ \A i \in rows[t] : Known(i) /\ i # 0

Others ==
  /\ cut \subseteq Id /\ excused \subseteq Tab
  /\ notices \in [Tab -> Nat] /\ events \in 0..MaxEvents

IInv == SoundStore /\ SoundCalls /\ SoundTurns /\ SoundConsoles /\ Others

\* A deletion that is still to be announced to every console.
Deletes(c) == c.kind = "del" /\ c.step \in {"ensure", "count", "make", "adopt", "tell"}
Deleting == \E t \in Tab : \E k \in DOMAIN calls[t] : Deletes(calls[t][k])
Pending(t) == notices[t] > 0 \/ Deleting

Lists(c) == c.kind = "list" /\ c.step # "error"
Another(t, k) == \E j \in DOMAIN calls[t] : j # k /\ Lists(calls[t][j])

\* What a list request has found, or is about to, is not out of date.
Fresh(c) ==
  /\ c.step \in {"adopt", "do"} => Live # {}
  /\ c.step = "ok" => c.out # {} /\ c.out \subseteq Live

UpToDate(t) ==
  /\ (at[t] \in Live /\ rows[t] \subseteq Live) \/ \E k \in DOMAIN calls[t] : Lists(calls[t][k])
  /\ \A k \in DOMAIN calls[t] : calls[t][k].kind = "list" => Fresh(calls[t][k]) \/ Another(t, k)

\* A console that could know is up to date, or about to be told, or asks.
Current == \A t \in Tab \ excused : Pending(t) \/ UpToDate(t)

-----------------------------------------------------------------------------
(* Requests in a sequence. *)

\* What remains when a request is answered, and where.
LEMMA Removal ==
  ASSUME NEW S, NEW s \in Seq(S), NEW k \in DOMAIN s
  PROVE  /\ RemoveAt(s, k) \in Seq(S)
         /\ Len(RemoveAt(s, k)) = Len(s) - 1
         /\ \A j \in 1..(Len(s) - 1) : RemoveAt(s, k)[j] = s[IF j < k THEN j ELSE j + 1]
<1> DEFINE a == SubSeq(s, 1, k - 1)
           b == SubSeq(s, k + 1, Len(s))
           r == RemoveAt(s, k)
<1>1. k \in 1..Len(s) /\ Len(s) \in Nat  OBVIOUS
<1>2. /\ a \in Seq(S) /\ Len(a) = k - 1
      /\ \A i \in 1..(k - 1) : a[i] = s[i]
  <2>1. /\ \A i \in 1..(k - 1) : s[i] \in S
        /\ 1 \in Nat /\ k - 1 \in Nat
    BY <1>1
  <2> QED  BY <1>1, <2>1, SubSeqProperties
<1>3. /\ b \in Seq(S) /\ Len(b) = Len(s) - k
      /\ \A i \in 1..(Len(s) - k) : b[i] = s[k + i]
  BY <1>1, SubSeqProperties
<1>4. r = a \o b  BY DEF RemoveAt
<1> HIDE DEF r
<1>5. r \in Seq(S) /\ Len(r) = Len(s) - 1
  <2>1. r \in Seq(S) /\ Len(r) = Len(a) + Len(b)  BY <1>2, <1>3, <1>4, ConcatProperties
  <2> HIDE DEF a, b
  <2> QED  BY <1>1, <1>2, <1>3, <2>1
<1>10. \A j \in 1..(Len(s) - 1) : r[j] = IF j <= k - 1 THEN a[j] ELSE b[j - (k - 1)]
  <2>1. \A j \in 1..(Len(a) + Len(b)) : r[j] = IF j <= Len(a) THEN a[j] ELSE b[j - Len(a)]
    BY <1>2, <1>3, <1>4, ConcatProperties
  <2> HIDE DEF a, b
  <2>2. Len(a) + Len(b) = Len(s) - 1  BY <1>1, <1>2, <1>3
  <2> QED  BY <1>2, <2>1, <2>2
<1>6. \A j \in 1..(k - 1) : r[j] = s[j]
  <2> HIDE DEF a, b
  <2> SUFFICES ASSUME NEW j \in 1..(k - 1) PROVE r[j] = s[j]  OBVIOUS
  <2>1. j \in 1..(Len(s) - 1) /\ j <= k - 1  BY <1>1
  <2> QED  BY <1>2, <1>10, <2>1
<1>7. \A j \in k..(Len(s) - 1) : r[j] = s[j + 1]
  <2> SUFFICES ASSUME NEW j \in k..(Len(s) - 1) PROVE r[j] = s[j + 1]  OBVIOUS
  <2>1. r[j] = b[j - (k - 1)]  BY <1>1, <1>10
  <2>2. j - (k - 1) \in 1..(Len(s) - k) /\ k + (j - (k - 1)) = j + 1  BY <1>1
  <2> QED  BY <1>3, <2>1, <2>2
<1>8. \A j \in 1..(Len(s) - 1) : r[j] = s[IF j < k THEN j ELSE j + 1]
  BY <1>1, <1>6, <1>7
<1> QED  BY <1>5, <1>8 DEF r

\* The requests that stay, stay apart.
LEMMA Remaining ==
  ASSUME NEW S, NEW s \in Seq(S), NEW k \in DOMAIN s
  PROVE  LET r == RemoveAt(s, k) IN
         /\ r \in Seq(S)
         /\ \A j \in DOMAIN r : \E i \in DOMAIN s :
              /\ i # k /\ r[j] = s[i]
              /\ \A m \in DOMAIN s : m # k /\ m # i => \E n \in DOMAIN r : n # j /\ r[n] = s[m]
         /\ \A i \in DOMAIN s : i # k => \E j \in DOMAIN r : r[j] = s[i]
<1> DEFINE r == RemoveAt(s, k)
<1>1. /\ r \in Seq(S) /\ Len(r) = Len(s) - 1
      /\ \A j \in 1..(Len(s) - 1) : r[j] = s[IF j < k THEN j ELSE j + 1]
  BY Removal
<1> HIDE DEF r
<1>2. k \in 1..Len(s) /\ Len(s) \in Nat /\ DOMAIN r = 1..(Len(s) - 1)  BY <1>1
<1>3. ASSUME NEW m \in DOMAIN s, m # k
      PROVE  LET n == IF m < k THEN m ELSE m - 1 IN n \in DOMAIN r /\ r[n] = s[m]
  <2>1. m \in 1..Len(s)  OBVIOUS
  <2>2. CASE m < k
    <3>1. m \in 1..(Len(s) - 1)  BY <1>2, <2>1, <2>2
    <3> QED  BY <1>1, <1>2, <2>2, <3>1
  <2>3. CASE ~(m < k)
    <3>1. m - 1 \in 1..(Len(s) - 1) /\ ~(m - 1 < k) /\ (m - 1) + 1 = m
      BY <1>2, <1>3, <2>1, <2>3
    <3> QED  BY <1>1, <1>2, <2>3, <3>1
  <2> QED  BY <2>2, <2>3
<1>4. ASSUME NEW j \in DOMAIN r
      PROVE  \E i \in DOMAIN s :
               /\ i # k /\ r[j] = s[i]
               /\ \A m \in DOMAIN s : m # k /\ m # i => \E n \in DOMAIN r : n # j /\ r[n] = s[m]
  <2> DEFINE i == IF j < k THEN j ELSE j + 1
  <2>1. i \in DOMAIN s /\ i # k /\ r[j] = s[i]  BY <1>1, <1>2
  <2>2. ASSUME NEW m \in DOMAIN s, m # k, m # i PROVE \E n \in DOMAIN r : n # j /\ r[n] = s[m]
    <3> DEFINE n == IF m < k THEN m ELSE m - 1
    <3>1. n \in DOMAIN r /\ r[n] = s[m]  BY <1>3, <2>2
    <3>2. n # j
      <4>1. m \in Int /\ k \in Int /\ j \in Int  BY <1>2
      <4> QED  BY <2>2, <4>1
    <3> QED  BY <3>1, <3>2
  <2> QED  BY <2>1, <2>2
<1>5. \A i \in DOMAIN s : i # k => \E j \in DOMAIN r : r[j] = s[i]  BY <1>3
<1> QED  BY <1>1, <1>4, <1>5 DEF r

LEMMA RequestType ==
  ASSUME NEW kind \in Kinds, NEW id \in Nat
  PROVE  Request(kind, id) \in Requests
BY DEF Request, Requests, Kinds, Steps

-----------------------------------------------------------------------------
(* What a step of a handler does to the requests. *)

\* Request k of console t comes to another step of its handler.
Goes(t, k, step, out) ==
  /\ calls' \in [Tab -> Seq(Requests)]
  /\ \A u \in Tab : DOMAIN calls'[u] = DOMAIN calls[u]
  /\ \A u \in Tab : \A j \in DOMAIN calls[u] : u # t \/ j # k => calls'[u][j] = calls[u][j]
  /\ calls'[t][k].kind = calls[t][k].kind /\ calls'[t][k].id = calls[t][k].id
  /\ calls'[t][k].step = step /\ calls'[t][k].out = out

LEMMA Replace ==
  ASSUME SoundCalls, NEW t \in Tab, NEW k \in DOMAIN calls[t], NEW c \in Requests,
         c.kind = calls[t][k].kind, c.id = calls[t][k].id,
         calls' = [calls EXCEPT ![t] = [@ EXCEPT ![k] = c]]
  PROVE  Goes(t, k, c.step, c.out)
<1>1. calls \in [Tab -> Seq(Requests)]  BY DEF SoundCalls
<1>2. calls[t] \in Seq(Requests)  BY <1>1
<1>3. /\ [calls[t] EXCEPT ![k] = c] \in Seq(Requests)
      /\ DOMAIN [calls[t] EXCEPT ![k] = c] = DOMAIN calls[t]
      /\ [calls[t] EXCEPT ![k] = c][k] = c
      /\ \A j \in DOMAIN calls[t] : j # k => [calls[t] EXCEPT ![k] = c][j] = calls[t][j]
  BY <1>2
<1>4. calls'[t] = [calls[t] EXCEPT ![k] = c] /\ \A u \in Tab : u # t => calls'[u] = calls[u]
  BY <1>1
<1>5. calls' \in [Tab -> Seq(Requests)]  BY <1>1, <1>3
<1> QED  BY <1>3, <1>4, <1>5 DEF Goes

LEMMA RequestIs ==
  ASSUME SoundCalls, NEW t \in Tab, NEW k \in DOMAIN calls[t]
  PROVE  /\ calls[t][k] \in Requests
         /\ calls[t][k].kind \in Kinds /\ calls[t][k].id \in Nat
         /\ calls[t][k].out \subseteq Nat /\ calls[t][k].step \in Steps
<1>1. calls[t] \in Seq(Requests)  BY DEF SoundCalls
<1>2. calls[t][k] \in Requests  BY <1>1
<1> QED  BY <1>2 DEF Requests

LEMMA MoveGoes ==
  ASSUME SoundCalls, NEW t \in Tab, NEW k \in DOMAIN calls[t], NEW step \in Steps, Move(t, k, step)
  PROVE  Goes(t, k, step, calls[t][k].out)
<1> DEFINE c == [calls[t][k] EXCEPT !.step = step]
<1>1. calls[t][k] \in Requests  BY RequestIs
<1>2. /\ c \in Requests /\ c.kind = calls[t][k].kind /\ c.id = calls[t][k].id
      /\ c.step = step /\ c.out = calls[t][k].out
  BY <1>1 DEF Requests
<1>3. calls' = [calls EXCEPT ![t] = [@ EXCEPT ![k] = c]]  BY DEF Move
<1> HIDE DEF c
<1> QED  BY <1>2, <1>3, Replace

LEMMA MoveWithGoes ==
  ASSUME SoundCalls, NEW t \in Tab, NEW k \in DOMAIN calls[t], NEW step \in Steps,
         NEW out \in SUBSET Nat, MoveWith(t, k, step, out)
  PROVE  Goes(t, k, step, out)
<1> DEFINE c == [calls[t][k] EXCEPT !.step = step, !.out = out]
<1>1. calls[t][k] \in Requests  BY RequestIs
<1>2. /\ c \in Requests /\ c.kind = calls[t][k].kind /\ c.id = calls[t][k].id
      /\ c.step = step /\ c.out = out
  BY <1>1 DEF Requests
<1>3. calls' = [calls EXCEPT ![t] = [@ EXCEPT ![k] = c]]  BY DEF MoveWith
<1> HIDE DEF c
<1> QED  BY <1>2, <1>3, Replace

LEMMA CountsGoes ==
  ASSUME SoundCalls, NEW t \in Tab, NEW k \in DOMAIN calls[t], EnsureCounts(t, k)
  PROVE  Goes(t, k, "make", calls[t][k].out)
<1> DEFINE c == [calls[t][k] EXCEPT !.step = "make", !.legacy = (0 \in history)]
<1>1. calls[t][k] \in Requests  BY RequestIs
<1>2. /\ c \in Requests /\ c.kind = calls[t][k].kind /\ c.id = calls[t][k].id
      /\ c.step = "make" /\ c.out = calls[t][k].out
  <2>1. (0 \in history) \in BOOLEAN /\ "make" \in Steps  BY DEF Steps
  <2> QED  BY <1>1, <2>1 DEF Requests
<1>3. calls' = [calls EXCEPT ![t] = [@ EXCEPT ![k] = c]]  BY DEF EnsureCounts
<1> HIDE DEF c
<1> QED  BY <1>2, <1>3, Replace

\* Ids are only added, and what an adoption still writes to stays or is cut.
Grows ==
  /\ nextId \in Nat /\ nextId' \in Nat /\ nextId <= nextId'
  /\ \A t \in Tab : \A k \in DOMAIN calls[t] :
       calls[t][k].step = "adopt" => calls[t][k].out \subseteq Live' \cup cut'

LEMMA KnownGrows == ASSUME Grows, NEW i, Known(i) PROVE Known(i)'
BY DEF Grows, Known

LEMMA SoundGrows ==
  ASSUME Grows, SoundCalls, NEW t \in Tab, NEW k \in DOMAIN calls[t],
         NEW c, c = calls[t][k]
  PROVE  Sound(c)'
<1>1. Sound(c)  BY DEF SoundCalls
<1>2. c.step = "adopt" => c.out \subseteq Live' \cup cut'  BY DEF Grows
<1>3. Known(c.id)' /\ \A i \in c.out : Known(i)'  BY <1>1, KnownGrows DEF Sound
<1> QED  BY <1>1, <1>2, <1>3 DEF Sound

LEMMA GoesSound ==
  ASSUME SoundCalls, Grows, NEW t \in Tab, NEW k \in DOMAIN calls[t],
         NEW step \in Steps, NEW out, Goes(t, k, step, out),
         \A i \in out : Known(i)' /\ i # 0,
         calls[t][k].kind = "list" => step \notin {"get", "tell"},
         step = "adopt" \/ (calls[t][k].kind \in {"post", "del"} /\ step \in {"tell", "ok"})
           => \E i \in out : out = {i},
         step = "adopt" => out \subseteq Live' \cup cut'
  PROVE  SoundCalls'
<1>1. calls' \in [Tab -> Seq(Requests)]  BY DEF Goes
<1>2. ASSUME NEW u \in Tab, NEW j \in DOMAIN calls'[u], NEW c, c = calls'[u][j] PROVE Sound(c)'
  <2>1. j \in DOMAIN calls[u]  BY DEF Goes
  <2>2. CASE u # t \/ j # k
    <3>1. c = calls[u][j]  BY <1>2, <2>1, <2>2 DEF Goes
    <3> QED  BY <2>1, <3>1, SoundGrows
  <2>3. CASE u = t /\ j = k
    <3>1. PICK i \in Nat : i = calls[t][k].id  BY RequestIs
    <3>2. Known(i)'
      <4>1. Sound(calls[t][k])  BY DEF SoundCalls
      <4> QED  BY <3>1, <4>1, KnownGrows DEF Sound
    <3>3. c.kind = calls[t][k].kind /\ c.id = i /\ c.step = step /\ c.out = out
      BY <1>2, <2>3, <3>1 DEF Goes
    <3> QED  BY <3>2, <3>3 DEF Sound
  <2> QED  BY <2>2, <2>3
<1>3. ASSUME NEW u \in Tab, NEW j \in DOMAIN calls'[u] PROVE Sound(calls[u][j])'
  <2> DEFINE c == calls'[u][j]
  <2>1. PICK c1 : c1 = calls'[u][j]  OBVIOUS
  <2>2. Sound(c1)'  BY <1>2, <2>1
  <2> QED  BY <2>1, <2>2 DEF Sound, Known
<1> QED  BY <1>1, <1>3 DEF SoundCalls

-----------------------------------------------------------------------------
(* The store. *)

LEMMA CreateIs ==
  ASSUME SoundStore, NEW name \in Titles, CreateWebSession(name)
  PROVE  /\ Live' = Live \cup {nextId} /\ nextId \notin Live
         /\ \A i \in Live' : title'[i] \in Titles
         /\ nextId' = nextId + 1 /\ nextId' \in Nat \ {0} /\ nextId' <= MaxId + 1
         /\ nextId \in Nat \ {0} /\ nextId <= nextId'
         /\ \A i : Known(i) => Known(i)'
         /\ \A i \in Live' : i \in Nat /\ i < nextId' /\ i # 0
<1>1. nextId' = nextId + 1 /\ nextId <= MaxId /\ nextId \in Nat \ {0}
  BY DEF CreateWebSession, SoundStore
<1>2. title' = [i \in Live \cup {nextId} |-> IF i = nextId THEN name ELSE title[i]]
  BY DEF CreateWebSession
<1>3. MaxId \in Nat  BY BoundsAssumption
<1>4. nextId' \in Nat \ {0} /\ nextId' <= MaxId + 1 /\ nextId <= nextId'  BY <1>1, <1>3
<1>5. \A i : Known(i) => Known(i)'  BY <1>1 DEF Known
<1>6. nextId \notin Live  BY <1>1 DEF SoundStore, Known
<1>7. Live' = Live \cup {nextId}  BY <1>2 DEF Live
<1>8. \A i \in Live' : title'[i] \in Titles  BY <1>2, <1>7 DEF SoundStore
<1>9. \A i \in Live : i \in Nat /\ i < nextId /\ i # 0  BY DEF SoundStore, Known
<1> QED  BY <1>1, <1>4, <1>5, <1>6, <1>7, <1>8, <1>9

LEMMA RenameIs ==
  ASSUME SoundStore, NEW i, NEW name \in Titles, RenameWebSession(i, name)
  PROVE  Live' = Live /\ \A j \in Live : title'[j] \in Titles
BY DEF RenameWebSession, SoundStore, Live

LEMMA DeleteIs ==
  ASSUME SoundStore, NEW i \in Live, DeleteWebSession(i)
  PROVE  /\ Live' = Live \ {i} /\ history' = history \ {i} /\ nextId' = nextId
         /\ cut' = IF Writing(i) THEN cut \cup {i} ELSE cut
         /\ \A j \in Live' : title'[j] \in Titles
<1>1. title' = [j \in Live \ {i} |-> title[j]]  BY DEF DeleteWebSession
<1>2. Live' = Live \ {i}  BY <1>1 DEF Live
<1>3. \A j \in Live' : title'[j] \in Titles  BY <1>1, <1>2 DEF SoundStore
<1> QED  BY <1>2, <1>3 DEF DeleteWebSession

\* The parts of the invariant a step of a handler does not touch.
LEMMA RestKept ==
  ASSUME SoundTurns, SoundConsoles, Grows, UNCHANGED <<turn, at, rows>>,
         \A t \in Tab : turn[t].step \in {"title", "save", "reply"}
           => turn[t].to \in Live' \cup {0} \cup cut'
  PROVE  SoundTurns' /\ SoundConsoles'
<1>1. \A i \in Nat : Known(i) => Known(i)'  BY KnownGrows
<1>2. \A t \in Tab : turn[t].to \in Nat /\ at[t] \in Nat /\ \A i \in rows[t] : i \in Nat
  BY DEF SoundTurns, SoundConsoles
<1>3. \A t \in Tab : Known(turn[t].to) /\ Known(at[t]) /\ \A i \in rows[t] : Known(i) /\ i # 0
  BY DEF SoundTurns, SoundConsoles
<1>4. \A t \in Tab : /\ turn[t].to < nextId' /\ at[t] < nextId'
                     /\ \A i \in rows[t] : i < nextId' /\ i # 0
  BY <1>1, <1>2, <1>3 DEF Known
<1>5. \A t \in Tab : Known(turn[t].to)'  BY <1>2, <1>4 DEF Known
<1>6. \A t \in Tab : Known(at[t])' /\ \A i \in rows'[t] : Known(i)' /\ i # 0
  BY <1>2, <1>4 DEF Known
<1>7. SoundTurns'  BY <1>5 DEF SoundTurns
<1> QED  BY <1>6, <1>7 DEF SoundConsoles

\* Nothing is created or deleted.
LEMMA StaysGrows ==
  ASSUME SoundStore, SoundCalls, Live' = Live, UNCHANGED <<nextId, cut>>
  PROVE  Grows
<1>1. nextId \in Nat /\ nextId' \in Nat /\ nextId <= nextId'  BY DEF SoundStore
<1> QED  BY <1>1 DEF Grows, SoundCalls, Sound

LEMMA CreateGrows ==
  ASSUME SoundStore, SoundCalls, NEW name \in Titles, CreateWebSession(name), UNCHANGED cut
  PROVE  Grows
<1>1. nextId \in Nat /\ nextId' \in Nat /\ nextId <= nextId' /\ Live \subseteq Live'
  BY CreateIs
<1> QED  BY <1>1 DEF Grows, SoundCalls, Sound

LEMMA StoreStays ==
  ASSUME SoundStore, Live' = Live, \A i \in Live : title'[i] \in Titles,
         UNCHANGED <<nextId, history, cut>>
  PROVE  SoundStore'
<1>1. \A i : Known(i)' <=> Known(i)  BY DEF Known
<1> QED  BY <1>1 DEF SoundStore, NoOrphans

LEMMA CreateStore ==
  ASSUME SoundStore, NEW name \in Titles, CreateWebSession(name), UNCHANGED <<history, cut>>
  PROVE  SoundStore'
<1>1. /\ Live' = Live \cup {nextId}
      /\ \A i \in Live' : title'[i] \in Titles
      /\ nextId' \in Nat \ {0} /\ nextId' <= MaxId + 1
      /\ \A i : Known(i) => Known(i)'
      /\ \A i \in Live' : i \in Nat /\ i < nextId' /\ i # 0
  BY CreateIs
<1>2. \A i \in Live' : Known(i)'  BY <1>1 DEF Known
<1>3. \A i \in history : Known(i)'  BY <1>1 DEF SoundStore
<1>4. NoOrphans'  BY <1>1 DEF NoOrphans, SoundStore
<1> QED  BY <1>1, <1>2, <1>3, <1>4 DEF SoundStore

-----------------------------------------------------------------------------
(* The handlers. *)

LEMMA AtIs ==
  ASSUME SoundCalls, NEW t \in Tab, NEW k \in DOMAIN calls[t], NEW step, At(t, k, step)
  PROVE  calls[t][k].step = step /\ Sound(calls[t][k]) /\ calls[t][k] \in Requests
BY RequestIs DEF At, SoundCalls

\* Steps that leave the store, or rename.
LEMMA QuietHandlerInv ==
  ASSUME IInv, NEW t \in Tab, NEW k \in DOMAIN calls[t], NEW step \in Steps, NEW out,
         Goes(t, k, step, out),
         Live' = Live, \A i \in Live : title'[i] \in Titles,
         UNCHANGED <<nextId, history, cut, turn, at, rows>>, Others',
         out = calls[t][k].out \/ out \subseteq Live,
         calls[t][k].kind = "list" => step \notin {"get", "tell"},
         step = "adopt" \/ (calls[t][k].kind \in {"post", "del"} /\ step \in {"tell", "ok"})
           => \E i \in out : out = {i},
         step # "adopt"
  PROVE  IInv'
<1> USE DEF IInv
<1>1. Grows  BY StaysGrows
<1>2. SoundStore'  BY StoreStays
<1>3. SoundTurns' /\ SoundConsoles'  BY <1>1, RestKept DEF SoundTurns
<1>4. \A i \in out : Known(i)' /\ i # 0
  <2>1. \A i \in calls[t][k].out : Known(i) /\ i # 0  BY DEF SoundCalls, Sound
  <2>2. \A i \in Live : Known(i) /\ i # 0  BY DEF SoundStore
  <2> QED  BY <2>1, <2>2 DEF Known
<1>5. SoundCalls'  BY <1>1, <1>4, GoesSound
<1> QED  BY <1>2, <1>3, <1>5

LEMMA OthersKept ==
  ASSUME Others, UNCHANGED <<cut, excused, notices, events>> PROVE Others'
BY DEF Others

LEMMA EnsureLooksGoes ==
  ASSUME SoundStore, SoundCalls, NEW t \in Tab, NEW k \in DOMAIN calls[t], EnsureLooks(t, k)
  PROVE  \/ Live = {} /\ Goes(t, k, "count", calls[t][k].out)
         \/ /\ calls[t][k].kind = "del"
            /\ \E i \in Live : Goes(t, k, "tell", {i})
         \/ calls[t][k].kind # "del" /\ Live # {} /\ Goes(t, k, "do", {})
<1>1. CASE Live = {}
  <2>1. Move(t, k, "count")  BY <1>1 DEF EnsureLooks
  <2> QED  BY <1>1, <2>1, MoveGoes DEF Steps
<1>2. CASE Live # {}
  <2>1. PICK i \in Live : MoveWith(t, k, AfterEnsure(calls[t][k].kind),
                                   IF calls[t][k].kind = "del" THEN {i} ELSE {})
    BY <1>2 DEF EnsureLooks
  <2>2. i \in Nat  BY DEF SoundStore, Known
  <2>3. CASE calls[t][k].kind = "del"
    <3>1. MoveWith(t, k, "tell", {i})  BY <2>1, <2>3 DEF AfterEnsure
    <3>2. {i} \in SUBSET Nat /\ "tell" \in Steps  BY <2>2 DEF Steps
    <3> QED  BY <2>3, <3>1, <3>2, MoveWithGoes
  <2>4. CASE calls[t][k].kind # "del"
    <3>1. MoveWith(t, k, "do", {})  BY <2>1, <2>4 DEF AfterEnsure
    <3>2. {} \in SUBSET Nat /\ "do" \in Steps  BY DEF Steps
    <3> QED  BY <1>2, <2>4, <3>1, <3>2, MoveWithGoes
  <2> QED  BY <2>3, <2>4
<1> QED  BY <1>1, <1>2

\* What is found up to date, or about to be told, stays so.
LEMMA HandlerCurrent ==
  ASSUME IInv, Current, NEW t \in Tab, NEW k \in DOMAIN calls[t], NEW step, NEW out,
         Goes(t, k, step, out), Live \subseteq Live', UNCHANGED <<at, rows, excused>>,
         \A u \in Tab : notices[u] > 0 => notices'[u] > 0,
         \/ Deletes(calls[t][k]) => step \in {"ensure", "count", "make", "adopt", "tell"}
         \/ \A u \in Tab : notices'[u] > 0,
         Lists(calls[t][k]) => step # "error",
         calls[t][k].kind = "list" /\ step \in {"adopt", "do"} =>
           Live' # {} \/ calls[t][k].step \in {"adopt", "do"},
         calls[t][k].kind = "list" /\ step = "ok" => calls[t][k].step = "do" /\ out = Live
  PROVE  Current'
<1> SUFFICES ASSUME NEW u \in Tab \ excused PROVE Pending(u)' \/ UpToDate(u)'
  BY DEF Current
<1>1. /\ \A w \in Tab : DOMAIN calls'[w] = DOMAIN calls[w]
      /\ \A w \in Tab : \A j \in DOMAIN calls[w] : w # t \/ j # k => calls'[w][j] = calls[w][j]
      /\ calls'[t][k].kind = calls[t][k].kind
      /\ calls'[t][k].step = step /\ calls'[t][k].out = out
  BY DEF Goes
<1>2. CASE Pending(u)
  <2>1. CASE notices[u] > 0  BY <2>1 DEF Pending
  <2>2. CASE Deleting
    <3>0. PICK w \in Tab : \E j \in DOMAIN calls[w] : Deletes(calls[w][j])
      BY <2>2 DEF Deleting
    <3>1. PICK j \in DOMAIN calls[w] : Deletes(calls[w][j])
      BY <3>0
    <3>2. CASE w # t \/ j # k  BY <1>1, <3>1, <3>2 DEF Pending, Deleting, Deletes
    <3>3. CASE w = t /\ j = k  BY <1>1, <3>1, <3>3 DEF Pending, Deleting, Deletes
    <3> QED  BY <3>2, <3>3
  <2> QED  BY <1>2, <2>1, <2>2 DEF Pending
<1>3. CASE UpToDate(u)
  <2>1. \A j \in DOMAIN calls[u] : Lists(calls[u][j]) => Lists(calls'[u][j])
    BY <1>1 DEF Lists
  <2>2. (at[u] \in Live' /\ rows[u] \subseteq Live')
          \/ \E j \in DOMAIN calls'[u] : Lists(calls'[u][j])
    BY <1>1, <1>3, <2>1 DEF UpToDate
  <2>3. ASSUME NEW j \in DOMAIN calls[u], calls'[u][j].kind = "list"
        PROVE  \/ /\ calls'[u][j].step \in {"adopt", "do"} => Live' # {}
                  /\ calls'[u][j].step = "ok" =>
                       calls'[u][j].out # {} /\ calls'[u][j].out \subseteq Live'
               \/ \E m \in DOMAIN calls'[u] : m # j /\ Lists(calls'[u][m])
    <3>1. calls[u][j].kind = "list"  BY <1>1, <2>3
    <3>2. CASE Another(u, j)  BY <1>1, <2>1, <3>2 DEF Another
    <3>3. CASE Fresh(calls[u][j])
      <4>1. CASE u # t \/ j # k  BY <1>1, <3>3, <4>1 DEF Fresh
      <4>2. CASE u = t /\ j = k  BY <1>1, <3>1, <3>3, <4>2 DEF Fresh
      <4> QED  BY <4>1, <4>2
    <3> QED  BY <1>3, <3>1, <3>2, <3>3 DEF UpToDate
  <2> QED  BY <1>1, <2>2, <2>3 DEF UpToDate, Fresh, Another, Lists
<1> QED  BY <1>2, <1>3 DEF Current

\* Sound requests, and what a step keeps of who is up to date.
Kept == IInv' /\ (Current => Current')

LEMMA EnsureLooksInv ==
  ASSUME IInv, NEW t \in Tab, NEW k \in DOMAIN calls[t], EnsureLooks(t, k) PROVE Kept
<1> USE DEF IInv
<1>1. UNCHANGED <<title, nextId, history, notices, cut, turn, at, rows, events, excused>>
  BY DEF EnsureLooks, server, console
<1>2. Live' = Live /\ (\A i \in Live : title'[i] \in Titles) /\ Others'
  BY <1>1, OthersKept DEF Live, SoundStore
<1>3. CASE Live = {} /\ Goes(t, k, "count", calls[t][k].out)
  <2>1. IInv'  BY <1>1, <1>2, <1>3, QuietHandlerInv DEF Steps
  <2>2. Current => Current'
    BY <1>1, <1>2, <1>3, HandlerCurrent DEF EnsureLooks, At, Deletes
  <2> QED  BY <2>1, <2>2 DEF Kept
<1>4. ASSUME calls[t][k].kind = "del", NEW i \in Live, Goes(t, k, "tell", {i}) PROVE Kept
  <2>1. IInv'  BY <1>1, <1>2, <1>4, QuietHandlerInv DEF Steps
  <2>2. Current => Current'  BY <1>1, <1>2, <1>4, HandlerCurrent
  <2> QED  BY <2>1, <2>2 DEF Kept
<1>5. CASE calls[t][k].kind # "del" /\ Live # {} /\ Goes(t, k, "do", {})
  <2>1. IInv'  BY <1>1, <1>2, <1>5, QuietHandlerInv DEF Steps
  <2>2. Current => Current'  BY <1>1, <1>2, <1>5, HandlerCurrent DEF Deletes
  <2> QED  BY <2>1, <2>2 DEF Kept
<1> QED  BY <1>3, <1>4, <1>5, EnsureLooksGoes

LEMMA EnsureCountsInv ==
  ASSUME IInv, NEW t \in Tab, NEW k \in DOMAIN calls[t], EnsureCounts(t, k) PROVE Kept
<1> USE DEF IInv
<1>1. UNCHANGED <<title, nextId, history, notices, cut, turn, at, rows, events, excused>>
  BY DEF EnsureCounts, server, console
<1>2. Live' = Live /\ (\A i \in Live : title'[i] \in Titles) /\ Others'
  BY <1>1, OthersKept DEF Live, SoundStore
<1>3. Goes(t, k, "make", calls[t][k].out)  BY CountsGoes
<1>4. IInv'  BY <1>1, <1>2, <1>3, QuietHandlerInv DEF Steps
<1>5. Current => Current'  BY <1>1, <1>2, <1>3, HandlerCurrent
<1> QED  BY <1>4, <1>5 DEF Kept

\* A session is created and the request carries it.
LEMMA CreatingInv ==
  ASSUME IInv, NEW t \in Tab, NEW k \in DOMAIN calls[t], NEW name \in Titles, NEW step \in Steps,
         CreateWebSession(name), MoveWith(t, k, step, {nextId}),
         calls[t][k].kind = "list" => step \in {"adopt", "do"},
         calls[t][k].kind = "del" => step \in {"adopt", "tell"}, step \notin {"ok", "error"},
         UNCHANGED <<history, notices, cut, turn, at, rows, events, excused>>
  PROVE  Kept
<1> USE DEF IInv
<1>1. /\ Live' = Live \cup {nextId} /\ nextId \in Nat \ {0}
      /\ nextId' = nextId + 1
  BY CreateIs
<1>2. Goes(t, k, step, {nextId})
  <2>1. {nextId} \in SUBSET Nat  BY <1>1
  <2> QED  BY <2>1, MoveWithGoes
<1>3. Grows /\ SoundStore'  BY CreateGrows, CreateStore
<1>4. SoundTurns' /\ SoundConsoles'  BY <1>1, <1>3, RestKept DEF SoundTurns
<1>5. SoundCalls'
  <2>1. \A i \in {nextId} : Known(i)' /\ i # 0  BY <1>1 DEF Known
  <2>2. {nextId} \subseteq Live' \cup cut'  BY <1>1
  <2>3. calls[t][k].kind = "list" => step \notin {"get", "tell"}  OBVIOUS
  <2> QED  BY <1>2, <1>3, <2>1, <2>2, <2>3, GoesSound
<1>6. Others'  BY OthersKept
<1>7. Current => Current'
  <2>1. Live \subseteq Live' /\ Live' # {}  BY <1>1
  <2>2. Lists(calls[t][k]) => step # "error"  OBVIOUS
  <2>3. Deletes(calls[t][k]) => step \in {"ensure", "count", "make", "adopt", "tell"}
    BY DEF Deletes
  <2>4. \A u \in Tab : notices[u] > 0 => notices'[u] > 0  OBVIOUS
  <2>5. ~(calls[t][k].kind = "list" /\ step = "ok")  OBVIOUS
  <2> QED  BY <1>2, <2>1, <2>2, <2>3, <2>4, <2>5, HandlerCurrent
<1> QED  BY <1>3, <1>4, <1>5, <1>6, <1>7 DEF Kept

LEMMA EnsureMakesInv ==
  ASSUME IInv, NEW t \in Tab, NEW k \in DOMAIN calls[t], EnsureMakes(t, k) PROVE Kept
<1> DEFINE c == calls[t][k]
           name == IF c.legacy THEN "main" ELSE "new"
           step == IF c.legacy THEN "adopt" ELSE AfterEnsure(c.kind)
<1>1. CreateWebSession(name) /\ MoveWith(t, k, step, {nextId})
  BY DEF EnsureMakes
<1>2. UNCHANGED <<history, notices, cut, turn, at, rows, events, excused>>
  BY DEF EnsureMakes, console
<1>3. /\ name \in Titles /\ step \in Steps /\ step \notin {"ok", "error"}
      /\ c.kind = "list" => step \in {"adopt", "do"}
      /\ c.kind = "del" => step \in {"adopt", "tell"}
  BY DEF Titles, Steps, AfterEnsure
<1> HIDE DEF name, step
<1> QED  BY <1>1, <1>2, <1>3, CreatingInv

LEMMA HandlePostInv ==
  ASSUME IInv, NEW t \in Tab, NEW k \in DOMAIN calls[t], HandlePost(t, k) PROVE Kept
<1>1. /\ CreateWebSession("new") /\ MoveWith(t, k, "tell", {nextId})
      /\ calls[t][k].kind = "post"
      /\ UNCHANGED <<history, notices, cut, turn, at, rows, events, excused>>
  BY DEF HandlePost, console
<1> QED  BY <1>1, CreatingInv DEF Titles, Steps

LEMMA EnsureAdoptsInv ==
  ASSUME IInv, NEW t \in Tab, NEW k \in DOMAIN calls[t], EnsureAdopts(t, k) PROVE Kept
<1> USE DEF IInv
<1> DEFINE out == calls[t][k].out
           step == AfterEnsure(calls[t][k].kind)
<1>1. /\ UNCHANGED <<title, nextId, notices, cut, turn, at, rows, events, excused>>
      /\ history' = IF 0 \in history THEN (history \ {0}) \cup out ELSE history
      /\ Move(t, k, step) /\ calls[t][k].step = "adopt"
  BY DEF EnsureAdopts, At, console
<1>2. step \in {"tell", "do"} /\ step \in Steps /\ (calls[t][k].kind = "list" => step = "do")
      /\ (calls[t][k].kind = "del" => step = "tell")
  BY DEF AfterEnsure, Steps
<1> HIDE DEF step
<1>3. Goes(t, k, step, out)  BY <1>1, <1>2, MoveGoes
<1>4. Live' = Live /\ (\A i \in Live : title'[i] \in Titles) /\ Others'
  BY <1>1, OthersKept DEF Live, SoundStore
<1>5. /\ \A i \in out : Known(i) /\ i # 0
      /\ \E i \in out : out = {i}
      /\ out \subseteq Live \cup cut
  BY <1>1 DEF SoundCalls, Sound
<1>6. Grows  BY <1>1, <1>4, StaysGrows
<1>7. SoundStore'
  <2>1. \A i : Known(i)' <=> Known(i)  BY <1>1 DEF Known
  <2>2. NoOrphans'  BY <1>1, <1>4, <1>5 DEF NoOrphans, SoundStore
  <2>3. \A i \in history' : Known(i)  BY <1>1, <1>5 DEF SoundStore
  <2> QED  BY <1>1, <1>4, <2>1, <2>2, <2>3 DEF SoundStore
<1>8. SoundTurns' /\ SoundConsoles'  BY <1>1, <1>4, <1>6, RestKept DEF SoundTurns
<1>9. SoundCalls'
  <2>1. \A i \in out : Known(i)' /\ i # 0  BY <1>1, <1>5 DEF Known
  <2> QED  BY <1>2, <1>3, <1>5, <1>6, <2>1, GoesSound
<1>10. Current => Current'
  <2>1. Deletes(calls[t][k]) => step \in {"ensure", "count", "make", "adopt", "tell"}
    BY <1>2 DEF Deletes
  <2> QED  BY <1>1, <1>2, <1>3, <1>4, <2>1, HandlerCurrent
<1> QED  BY <1>4, <1>7, <1>8, <1>9, <1>10 DEF Kept

LEMMA GetWebSessionInv ==
  ASSUME IInv, NEW t \in Tab, NEW k \in DOMAIN calls[t], GetWebSession(t, k) PROVE Kept
<1> USE DEF IInv
<1> DEFINE step == IF calls[t][k].id \in Live THEN "do" ELSE "error"
<1>1. /\ UNCHANGED <<title, nextId, history, notices, cut, turn, at, rows, events, excused>>
      /\ Move(t, k, step) /\ calls[t][k].step = "get"
  BY DEF GetWebSession, At, server, console
<1>2. step \in {"do", "error"} /\ step \in Steps /\ calls[t][k].kind # "list"
  BY <1>1 DEF Steps, SoundCalls, Sound
<1> HIDE DEF step
<1>3. Goes(t, k, step, calls[t][k].out)  BY <1>1, <1>2, MoveGoes
<1>4. Live' = Live /\ (\A i \in Live : title'[i] \in Titles) /\ Others'
  BY <1>1, OthersKept DEF Live, SoundStore
<1>5. IInv'  BY <1>1, <1>2, <1>3, <1>4, QuietHandlerInv
<1>6. Current => Current'
  BY <1>1, <1>2, <1>3, <1>4, HandlerCurrent DEF Deletes, Lists
<1> QED  BY <1>5, <1>6 DEF Kept

LEMMA HandleListInv ==
  ASSUME IInv, NEW t \in Tab, NEW k \in DOMAIN calls[t], HandleList(t, k) PROVE Kept
<1> USE DEF IInv
<1>1. /\ UNCHANGED <<title, nextId, history, notices, cut, turn, at, rows, events, excused>>
      /\ MoveWith(t, k, "ok", Live) /\ calls[t][k].step = "do" /\ calls[t][k].kind = "list"
  BY DEF HandleList, At, server, console
<1>2. Live \in SUBSET Nat  BY DEF SoundStore, Known
<1>3. Goes(t, k, "ok", Live)  BY <1>1, <1>2, MoveWithGoes DEF Steps
<1>4. Live' = Live /\ (\A i \in Live : title'[i] \in Titles) /\ Others'
  BY <1>1, OthersKept DEF Live, SoundStore
<1>5. IInv'  BY <1>1, <1>3, <1>4, QuietHandlerInv DEF Steps
<1>6. Current => Current'  BY <1>1, <1>3, <1>4, HandlerCurrent DEF Deletes
<1> QED  BY <1>5, <1>6 DEF Kept

LEMMA HandlePutInv ==
  ASSUME IInv, NEW t \in Tab, NEW k \in DOMAIN calls[t], HandlePut(t, k) PROVE Kept
<1> USE DEF IInv
<1> DEFINE step == IF calls[t][k].id \in Live THEN "tell" ELSE "error"
<1>1. /\ UNCHANGED <<nextId, history, notices, cut, turn, at, rows, events, excused>>
      /\ Move(t, k, step) /\ calls[t][k].kind = "put"
      /\ RenameWebSession(calls[t][k].id, "named")
  BY DEF HandlePut, At, console
<1>2. step \in {"tell", "error"} /\ step \in Steps  BY DEF Steps
<1> HIDE DEF step
<1>3. Goes(t, k, step, calls[t][k].out)  BY <1>1, <1>2, MoveGoes
<1>4. Live' = Live /\ \A i \in Live : title'[i] \in Titles
  BY <1>1, RenameIs DEF Titles
<1>5. Others'  BY <1>1, OthersKept
<1>6. IInv'  BY <1>1, <1>2, <1>3, <1>4, <1>5, QuietHandlerInv
<1>7. Current => Current'
  BY <1>1, <1>2, <1>3, <1>4, HandlerCurrent DEF Deletes, Lists
<1> QED  BY <1>6, <1>7 DEF Kept

LEMMA HandleDeleteInv ==
  ASSUME IInv, NEW t \in Tab, NEW k \in DOMAIN calls[t], HandleDelete(t, k) PROVE Kept
<1> USE DEF IInv
<1> DEFINE i == calls[t][k].id
<1>1. /\ UNCHANGED <<notices, turn, at, rows, events, excused>>
      /\ calls[t][k].kind = "del" /\ calls[t][k].step = "do"
  BY DEF HandleDelete, At, console
<1>2. CASE i \in Live
  <2>1. DeleteWebSession(i) /\ Move(t, k, "ensure")  BY <1>2 DEF HandleDelete
  <2>2. /\ Live' = Live \ {i} /\ history' = history \ {i} /\ nextId' = nextId
        /\ cut' = IF Writing(i) THEN cut \cup {i} ELSE cut
        /\ \A j \in Live' : title'[j] \in Titles
    BY <1>2, <2>1, DeleteIs
  <2>3. Goes(t, k, "ensure", calls[t][k].out)  BY <2>1, MoveGoes DEF Steps
  <2>4. Grows
    <3>1. nextId \in Nat /\ nextId' \in Nat /\ nextId <= nextId'  BY <2>2 DEF SoundStore
    <3>2. ASSUME NEW u \in Tab, NEW j \in DOMAIN calls[u], calls[u][j].step = "adopt"
          PROVE  calls[u][j].out \subseteq Live' \cup cut'
      <4>1. calls[u][j].out \subseteq Live \cup cut  BY <3>2 DEF SoundCalls, Sound
      <4>2. i \in calls[u][j].out => Writing(i)  BY <3>2 DEF Writing
      <4> QED  BY <2>2, <4>1, <4>2
    <3> QED  BY <3>1, <3>2 DEF Grows
  <2>5. SoundTurns' /\ SoundConsoles'
    <3>1. \A u \in Tab : turn[u].step \in {"title", "save", "reply"}
            => turn[u].to \in Live' \cup {0} \cup cut'
      BY <2>2 DEF SoundTurns, Writing
    <3> QED  BY <1>1, <2>4, <3>1, RestKept
  <2>6. SoundStore'
    <3>1. \A j : Known(j)' <=> Known(j)  BY <2>2 DEF Known
    <3>2. NoOrphans'  BY <2>2 DEF NoOrphans, SoundStore
    <3> QED  BY <2>2, <3>1, <3>2 DEF SoundStore
  <2>7. SoundCalls'
    <3>1. \A j \in calls[t][k].out : Known(j)' /\ j # 0
      BY <2>2 DEF SoundCalls, Sound, Known
    <3> QED  BY <1>1, <2>3, <2>4, <3>1, GoesSound DEF Steps
  <2>8. Others'
    <3>1. i \in Id  BY <1>2, BoundsAssumption DEF SoundStore, Known, Id
    <3> QED  BY <1>1, <2>2, <3>1 DEF Others
  <2>9. Current'
    <3>1. k \in DOMAIN calls'[t] /\ calls'[t][k].kind = "del" /\ calls'[t][k].step = "ensure"
      BY <1>1, <2>3 DEF Goes
    <3> QED  BY <3>1 DEF Current, Pending, Deleting, Deletes
  <2> QED  BY <2>5, <2>6, <2>7, <2>8, <2>9 DEF Kept
<1>3. CASE i \notin Live
  <2>1. Move(t, k, "error") /\ UNCHANGED <<title, nextId, history, cut>>
    BY <1>3 DEF HandleDelete, store
  <2>2. Goes(t, k, "error", calls[t][k].out)  BY <2>1, MoveGoes DEF Steps
  <2>3. Live' = Live /\ (\A j \in Live : title'[j] \in Titles) /\ Others'
    BY <1>1, <2>1, OthersKept DEF Live, SoundStore
  <2>4. IInv'  BY <1>1, <2>1, <2>2, <2>3, QuietHandlerInv DEF Steps
  <2>5. Current => Current'
    BY <1>1, <2>1, <2>2, <2>3, HandlerCurrent DEF Deletes, Lists
  <2> QED  BY <2>4, <2>5 DEF Kept
<1> QED  BY <1>2, <1>3

LEMMA TellInv ==
  ASSUME IInv, NEW t \in Tab, NEW k \in DOMAIN calls[t], Tell(t, k) PROVE Kept
<1> USE DEF IInv
<1>1. /\ UNCHANGED <<title, nextId, history, cut, turn, at, rows, events, excused>>
      /\ Move(t, k, "ok") /\ calls[t][k].step = "tell"
      /\ notices' = [u \in Tab |-> notices[u] + 1]
  BY DEF Tell, At, store, console, broadcastChanged
<1>2. Goes(t, k, "ok", calls[t][k].out)  BY <1>1, MoveGoes DEF Steps
<1>3. Live' = Live /\ (\A i \in Live : title'[i] \in Titles)
  BY <1>1 DEF Live, SoundStore
<1>4. notices' \in [Tab -> Nat] /\ \A u \in Tab : notices'[u] > 0
  <2>1. \A n \in Nat : n + 1 \in Nat /\ n + 1 > 0  OBVIOUS
  <2>2. \A u \in Tab : notices[u] \in Nat  BY DEF Others
  <2> QED  BY <1>1, <2>1, <2>2
<1>5. Others'  BY <1>1, <1>4 DEF Others
<1>6. calls[t][k].kind # "list" /\ (calls[t][k].kind \in {"post", "del"} =>
        \E i \in calls[t][k].out : calls[t][k].out = {i})
  BY <1>1 DEF SoundCalls, Sound
<1>7. IInv'  BY <1>1, <1>2, <1>3, <1>5, <1>6, QuietHandlerInv DEF Steps
<1>8. Current => Current'  BY <1>1, <1>2, <1>3, <1>4, <1>6, HandlerCurrent DEF Lists
<1> QED  BY <1>7, <1>8 DEF Kept

LEMMA RequestFailsInv ==
  ASSUME IInv, NEW t \in Tab, NEW k \in DOMAIN calls[t], RequestFails(t, k) PROVE Kept
<1> USE DEF IInv
<1>1. /\ UNCHANGED <<title, nextId, history, notices, cut, turn, at, rows>>
      /\ Move(t, k, "error") /\ excused' = Tab /\ Happens
  BY DEF RequestFails, server, console
<1>2. Goes(t, k, "error", calls[t][k].out)  BY <1>1, MoveGoes DEF Steps
<1>3. Live' = Live /\ (\A i \in Live : title'[i] \in Titles)
  BY <1>1 DEF Live, SoundStore
<1>4. Others'  BY <1>1, BoundsAssumption DEF Others, Happens
<1>5. IInv'  BY <1>1, <1>2, <1>3, <1>4, QuietHandlerInv DEF Steps
<1>6. Current'  BY <1>1 DEF Current
<1> QED  BY <1>5, <1>6 DEF Kept

-----------------------------------------------------------------------------
(* The chat turn. *)

LEMMA CallsKept ==
  ASSUME SoundCalls, Grows, UNCHANGED calls PROVE SoundCalls'
<1>1. ASSUME NEW t \in Tab, NEW k \in DOMAIN calls[t], NEW c, c = calls[t][k] PROVE Sound(c)'
  BY <1>1, SoundGrows
<1>2. ASSUME NEW t \in Tab, NEW k \in DOMAIN calls[t] PROVE Sound(calls[t][k])'
  <2>1. PICK c : c = calls[t][k]  OBVIOUS
  <2>2. Sound(c)'  BY <1>1, <2>1
  <2> QED  BY <2>1, <2>2 DEF Sound, Known
<1> QED  BY <1>2 DEF SoundCalls

\* No page changes what it shows or asks for.
LEMMA PagesCurrent ==
  ASSUME Current, Live' = Live, UNCHANGED <<calls, at, rows>>, excused \subseteq excused',
         \A u \in Tab \ excused' : notices[u] > 0 => notices'[u] > 0
  PROVE  Current'
BY DEF Current, Pending, Deleting, Deletes, UpToDate, Lists, Another, Fresh

TurnType == [step : {"idle", "get", "title", "save", "reply"}, to : Nat, saw : Titles]

LEMMA TurnIs ==
  ASSUME SoundTurns, NEW t \in Tab
  PROVE  /\ turn[t] \in TurnType /\ turn[t].to \in Nat /\ Known(turn[t].to)
         /\ NoTurn \in TurnType
BY DEF SoundTurns, TurnType, NoTurn, Titles

\* One turn takes a step, and writes to a session it may write to.
LEMMA TurnStep ==
  ASSUME IInv, NEW t \in Tab, NEW r \in TurnType, turn' = [turn EXCEPT ![t] = r],
         Known(r.to), r.step \in {"title", "save", "reply"} => r.to \in Live \cup {0} \cup cut,
         history' = history \/ (/\ history' = history \cup {turn[t].to}
                                /\ turn[t].step \in {"title", "save", "reply"}),
         Live' = Live, \A i \in Live : title'[i] \in Titles,
         UNCHANGED <<nextId, cut, calls, at, rows, excused>>, Others',
         \A u \in Tab : notices[u] > 0 => notices'[u] > 0
  PROVE  Kept
<1> USE DEF IInv
<1>1. \A i : Known(i)' <=> Known(i)  BY DEF Known
<1>2. SoundStore'
  <2>1. \A i \in history' : Known(i)  BY TurnIs DEF SoundStore
  <2>2. NoOrphans'  BY DEF NoOrphans, SoundStore, SoundTurns
  <2> QED  BY <1>1, <2>1, <2>2 DEF SoundStore
<1>3. SoundTurns'
  <2>1. turn \in [Tab -> TurnType]  BY DEF SoundTurns, TurnType
  <2>2. turn' \in [Tab -> TurnType]  BY <2>1
  <2>3. ASSUME NEW u \in Tab
        PROVE  /\ turn'[u].to \in Nat /\ turn'[u].to < nextId
               /\ turn'[u].step \in {"title", "save", "reply"} => turn'[u].to \in Live \cup {0} \cup cut
    <3>1. CASE u = t
      <4>1. turn'[u] = r  BY <2>1, <3>1
      <4> QED  BY <4>1 DEF Known
    <3>2. CASE u # t
      <4>1. turn'[u] = turn[u]  BY <2>1, <3>2
      <4> QED  BY <4>1 DEF SoundTurns, Known
    <3> QED  BY <3>1, <3>2
  <2> QED  BY <2>2, <2>3 DEF SoundTurns, TurnType, Known
<1>4. SoundCalls'
  <2>1. Grows  BY StaysGrows
  <2> QED  BY <2>1, CallsKept
<1>5. SoundConsoles'  BY DEF SoundConsoles, Known
<1>6. Current => Current'  BY PagesCurrent
<1> QED  BY <1>2, <1>3, <1>4, <1>5, <1>6 DEF Kept

LEMMA TurnLooksInv == ASSUME IInv, NEW t \in Tab, TurnLooks(t) PROVE Kept
<1> USE DEF IInv
<1> DEFINE i == turn[t].to
           r == IF i = 0 THEN [turn[t] EXCEPT !.step = "save"]
                ELSE IF i \notin Live THEN NoTurn
                ELSE [turn[t] EXCEPT !.saw = title[i],
                                     !.step = IF title[i] = "new" THEN "title" ELSE "save"]
<1>1. /\ turn' = [turn EXCEPT ![t] = r]
      /\ UNCHANGED <<title, nextId, history, notices, cut, at, rows, calls, events, excused>>
  BY DEF TurnLooks, store, console
<1>2. turn[t] \in TurnType /\ Known(i) /\ NoTurn \in TurnType  BY TurnIs
<1>3. r \in TurnType /\ (r.to = i \/ r = NoTurn)
      /\ (r.step \in {"title", "save", "reply"} => r.to \in Live \cup {0})
  <2>1. i \in Live => title[i] \in Titles  BY DEF SoundStore
  <2>2. CASE i = 0  BY <1>2, <2>2 DEF TurnType
  <2>3. CASE i # 0 /\ i \notin Live  BY <1>2, <2>3 DEF NoTurn
  <2>4. CASE i # 0 /\ i \in Live  BY <1>2, <2>1, <2>4 DEF TurnType
  <2> QED  BY <2>2, <2>3, <2>4
<1>4. Known(r.to)  BY <1>2, <1>3 DEF NoTurn, Known, SoundStore
<1> HIDE DEF r
<1>5. Live' = Live /\ \A j \in Live : title'[j] \in Titles  BY <1>1 DEF Live, SoundStore
<1>6. Others'  BY <1>1, OthersKept
<1> QED  BY <1>1, <1>3, <1>4, <1>5, <1>6, TurnStep

LEMMA TurnNamesInv == ASSUME IInv, NEW t \in Tab, TurnNames(t) PROVE Kept
<1> USE DEF IInv
<1> DEFINE r == [turn[t] EXCEPT !.step = "save"]
<1>1. /\ turn' = [turn EXCEPT ![t] = r] /\ turn[t].step = "title"
      /\ RenameWebSession(turn[t].to, "auto")
      /\ UNCHANGED <<nextId, history, notices, cut, at, rows, calls, events, excused>>
  BY DEF TurnNames, GoTurn, console
<1>2. r \in TurnType /\ r.to = turn[t].to /\ Known(r.to)  BY TurnIs DEF TurnType
<1>3. r.to \in Live \cup {0} \cup cut  BY <1>1, <1>2 DEF SoundTurns
<1>4. Live' = Live /\ \A j \in Live : title'[j] \in Titles  BY <1>1, RenameIs DEF Titles
<1>5. Others'  BY <1>1, OthersKept
<1> HIDE DEF r
<1> QED  BY <1>1, <1>2, <1>3, <1>4, <1>5, TurnStep

LEMMA TurnSavesInv == ASSUME IInv, NEW t \in Tab, TurnSaves(t) PROVE Kept
<1> USE DEF IInv
<1> DEFINE r == [turn[t] EXCEPT !.step = "reply"]
<1>1. /\ turn' = [turn EXCEPT ![t] = r] /\ turn[t].step = "save"
      /\ history' = history \cup {turn[t].to}
      /\ UNCHANGED <<title, nextId, notices, cut, at, rows, calls, events, excused>>
  BY DEF TurnSaves, GoTurn, console
<1>2. r \in TurnType /\ r.to = turn[t].to /\ Known(r.to)  BY TurnIs DEF TurnType
<1>3. r.to \in Live \cup {0} \cup cut  BY <1>1, <1>2 DEF SoundTurns
<1>4. Live' = Live /\ \A j \in Live : title'[j] \in Titles  BY <1>1 DEF Live, SoundStore
<1>5. Others'  BY <1>1, OthersKept
<1> HIDE DEF r
<1> QED  BY <1>1, <1>2, <1>3, <1>4, <1>5, TurnStep

LEMMA TurnRepliesInv == ASSUME IInv, NEW t \in Tab, TurnReplies(t) PROVE Kept
<1> USE DEF IInv
<1>1. /\ turn' = [turn EXCEPT ![t] = NoTurn] /\ turn[t].step = "reply"
      /\ history' = history \cup {turn[t].to}
      /\ notices' = [u \in Tab |-> notices[u] + (IF turn[t].to > 0 THEN 1 ELSE 0)
                                              + (IF u = t THEN 1 ELSE 0)]
      /\ UNCHANGED <<title, nextId, cut, at, rows, calls, events, excused>>
  BY DEF TurnReplies, console
<1>2. NoTurn \in TurnType /\ Known(NoTurn.to) /\ NoTurn.step = "idle"
  BY TurnIs DEF NoTurn, Known, SoundStore
<1>3. notices' \in [Tab -> Nat] /\ \A u \in Tab : notices[u] > 0 => notices'[u] > 0
  <2>1. \A n \in Nat : \A a, b \in {0, 1} : n + a + b \in Nat /\ (n > 0 => n + a + b > 0)
    OBVIOUS
  <2>2. \A u \in Tab : notices[u] \in Nat  BY DEF Others
  <2>3. \A u \in Tab : (IF turn[t].to > 0 THEN 1 ELSE 0) \in {0, 1} /\ (IF u = t THEN 1 ELSE 0) \in {0, 1}
    OBVIOUS
  <2>4. ASSUME NEW u \in Tab PROVE notices'[u] \in Nat /\ (notices[u] > 0 => notices'[u] > 0)
    <3>1. notices'[u] = notices[u] + (IF turn[t].to > 0 THEN 1 ELSE 0) + (IF u = t THEN 1 ELSE 0)
      BY <1>1
    <3> QED  BY <2>1, <2>2, <2>3, <3>1
  <2> QED  BY <1>1, <2>4
<1>4. Live' = Live /\ \A j \in Live : title'[j] \in Titles  BY <1>1 DEF Live, SoundStore
<1>5. Others'  BY <1>1, <1>3 DEF Others
<1> QED  BY <1>1, <1>2, <1>3, <1>4, <1>5, TurnStep

LEMMA TurnFailsInv == ASSUME IInv, NEW t \in Tab, TurnFails(t) PROVE Kept
<1> USE DEF IInv
<1>1. /\ turn' = [turn EXCEPT ![t] = NoTurn] /\ Happens
      /\ UNCHANGED <<title, nextId, history, notices, cut, at, rows, calls, excused>>
  BY DEF TurnFails, store, console
<1>2. NoTurn \in TurnType /\ Known(NoTurn.to) /\ NoTurn.step = "idle"
  BY TurnIs DEF NoTurn, Known, SoundStore
<1>3. Live' = Live /\ \A j \in Live : title'[j] \in Titles  BY <1>1 DEF Live, SoundStore
<1>4. Others'  BY <1>1, BoundsAssumption DEF Others, Happens
<1> QED  BY <1>1, <1>2, <1>3, <1>4, TurnStep

LEMMA SubmitInv == ASSUME IInv, NEW t \in Tab, NEW to, Submit(t, to) PROVE Kept
<1> USE DEF IInv
<1> DEFINE r == [step |-> "get", to |-> to, saw |-> "new"]
<1>1. /\ turn' = [turn EXCEPT ![t] = r] /\ Happens /\ to \in {at[t], 0}
      /\ UNCHANGED <<title, nextId, history, notices, cut, at, rows, calls, excused>>
  BY DEF Submit, store, console
<1>2. Known(to) /\ to \in Nat  BY <1>1 DEF SoundConsoles, Known, SoundStore
<1>3. r \in TurnType /\ r.to = to /\ r.step = "get"  BY <1>2 DEF TurnType, Titles
<1>4. Live' = Live /\ \A j \in Live : title'[j] \in Titles  BY <1>1 DEF Live, SoundStore
<1>5. Others'  BY <1>1, BoundsAssumption DEF Others, Happens
<1> HIDE DEF r
<1> QED  BY <1>1, <1>2, <1>3, <1>4, <1>5, TurnStep

-----------------------------------------------------------------------------
(* The console. *)

\* A request that has just been sent.
Asked(c) ==
  /\ Known(c.id) /\ c.out = {}
  /\ c.step = IF c.kind \in {"list", "post"} THEN "ensure" ELSE "get"

\* Requests go when they are answered, and come.
LEMMA CallsFrom ==
  ASSUME SoundCalls, Grows, calls' \in [Tab -> Seq(Requests)],
         \A u \in Tab : \A j \in DOMAIN calls'[u] :
           Asked(calls'[u][j]) \/ \E i \in DOMAIN calls[u] : calls'[u][j] = calls[u][i]
  PROVE  SoundCalls'
<1>1. ASSUME NEW u \in Tab, NEW j \in DOMAIN calls'[u], NEW c, c = calls'[u][j] PROVE Sound(c)'
  <2>1. CASE Asked(c)
    <3>1. Known(c.id)'  BY <2>1, KnownGrows DEF Asked
    <3>2. /\ c.kind = "list" => c.step \notin {"get", "tell"}
          /\ c.step \notin {"adopt", "tell", "ok"} /\ c.out = {}
      BY <2>1 DEF Asked
    <3> QED  BY <3>1, <3>2 DEF Sound
  <2>2. ASSUME NEW i \in DOMAIN calls[u], c = calls[u][i] PROVE Sound(c)'
    BY <2>2, SoundGrows
  <2> QED  BY <1>1, <2>1, <2>2
<1>2. ASSUME NEW u \in Tab, NEW j \in DOMAIN calls'[u] PROVE Sound(calls[u][j])'
  <2>1. PICK c : c = calls'[u][j]  OBVIOUS
  <2>2. Sound(c)'  BY <1>1, <2>1
  <2> QED  BY <2>1, <2>2 DEF Sound, Known
<1> QED  BY <1>2 DEF SoundCalls

\* What a step of page t leaves alone.
Page(t) ==
  /\ UNCHANGED <<title, nextId, history, cut, turn>>
  /\ \A u \in Tab : u # t => calls'[u] = calls[u] /\ at'[u] = at[u] /\ rows'[u] = rows[u]

LEMMA PageInv ==
  ASSUME IInv, NEW t \in Tab, Page(t), Others', SoundConsoles',
         calls' \in [Tab -> Seq(Requests)],
         \A j \in DOMAIN calls'[t] :
           Asked(calls'[t][j]) \/ \E i \in DOMAIN calls[t] : calls'[t][j] = calls[t][i]
  PROVE  IInv'
<1> USE DEF IInv, Page
<1>1. Live' = Live /\ \A i \in Live : title'[i] \in Titles  BY DEF Live, SoundStore
<1>2. SoundStore'  BY <1>1, StoreStays
<1>3. SoundTurns'  BY <1>1 DEF SoundTurns, Known
<1>4. SoundCalls'
  <2>1. Grows  BY <1>1, StaysGrows
  <2>2. \A u \in Tab : \A j \in DOMAIN calls'[u] :
          Asked(calls'[u][j]) \/ \E i \in DOMAIN calls[u] : calls'[u][j] = calls[u][i]
    OBVIOUS
  <2> QED  BY <2>1, <2>2, CallsFrom
<1> QED  BY <1>2, <1>3, <1>4

\* The other pages know as much as before; deletions are announced as before.
LEMMA PageCurrent ==
  ASSUME IInv, Current, NEW t \in Tab, Page(t),
         \A u \in Tab : u # t => (notices[u] > 0 => notices'[u] > 0) /\ (u \in excused => u \in excused'),
         \A i \in DOMAIN calls[t] : Deletes(calls[t][i]) =>
           \E j \in DOMAIN calls'[t] : calls'[t][j] = calls[t][i],
         t \in excused' \/ UpToDate(t)' \/ Pending(t)'
  PROVE  Current'
<1> SUFFICES ASSUME NEW u \in Tab, u \notin excused', u # t PROVE Pending(u)' \/ UpToDate(u)'
  BY DEF Current
<1>1. Pending(u) \/ UpToDate(u)  BY DEF Current
<1>2. Deleting => Deleting'
  <2> SUFFICES ASSUME Deleting PROVE Deleting'  OBVIOUS
  <2>1. PICK w \in Tab : \E k \in DOMAIN calls[w] : Deletes(calls[w][k])  BY DEF Deleting
  <2>2. PICK k \in DOMAIN calls[w] : Deletes(calls[w][k])  BY <2>1
  <2>3. CASE w # t  BY <2>2, <2>3 DEF Page, Deleting, Deletes
  <2>4. CASE w = t
    <3>1. PICK j \in DOMAIN calls'[t] : calls'[t][j] = calls[t][k]  BY <2>2, <2>4
    <3> QED  BY <2>2, <2>4, <3>1 DEF Deleting, Deletes
  <2> QED  BY <2>3, <2>4
<1>3. Pending(u) => Pending(u)'  BY <1>2 DEF Pending
<1>4. UpToDate(u) => UpToDate(u)'
  BY DEF Page, UpToDate, Live, Lists, Another, Fresh
<1> QED  BY <1>1, <1>3, <1>4

\* The requests of a page when one is answered.
LEMMA Answering ==
  ASSUME IInv, NEW t \in Tab, NEW k \in DOMAIN calls[t]
  PROVE  /\ calls \in [Tab -> Seq(Requests)] /\ calls[t] \in Seq(Requests)
         /\ Without(t, k) \in Seq(Requests)
         /\ \A j \in DOMAIN Without(t, k) : \E i \in DOMAIN calls[t] :
              /\ i # k /\ Without(t, k)[j] = calls[t][i]
              /\ \A m \in DOMAIN calls[t] : m # k /\ m # i =>
                   \E n \in DOMAIN Without(t, k) : n # j /\ Without(t, k)[n] = calls[t][m]
         /\ \A i \in DOMAIN calls[t] : i # k =>
              \E j \in DOMAIN Without(t, k) : Without(t, k)[j] = calls[t][i]
<1>1. calls \in [Tab -> Seq(Requests)]  BY DEF IInv, SoundCalls
<1>2. calls[t] \in Seq(Requests)  BY <1>1
<1> QED  BY <1>1, <1>2, Remaining DEF Without

LEMMA Asking ==
  ASSUME IInv, NEW t \in Tab, NEW q \in Seq(Requests), NEW r \in Requests,
         calls' = [calls EXCEPT ![t] = Append(q, r)]
  PROVE  /\ calls' \in [Tab -> Seq(Requests)]
         /\ \A u \in Tab : u # t => calls'[u] = calls[u]
         /\ \A j \in DOMAIN q : j \in DOMAIN calls'[t] /\ calls'[t][j] = q[j]
         /\ \E j \in DOMAIN calls'[t] :
              /\ j \notin DOMAIN q /\ calls'[t][j] = r
              /\ \A i \in DOMAIN calls'[t] : i = j \/ i \in DOMAIN q
<1>1. calls \in [Tab -> Seq(Requests)]  BY DEF IInv, SoundCalls
<1>2. /\ Append(q, r) \in Seq(Requests)
      /\ DOMAIN Append(q, r) = 1..(Len(q) + 1)
      /\ Append(q, r)[Len(q) + 1] = r
      /\ \A j \in 1..Len(q) : Append(q, r)[j] = q[j]
      /\ DOMAIN q = 1..Len(q) /\ Len(q) \in Nat
  BY AppendProperties, LenProperties
<1>3. calls'[t] = Append(q, r) /\ \A u \in Tab : u # t => calls'[u] = calls[u]
  BY <1>1
<1>4. calls' \in [Tab -> Seq(Requests)]  BY <1>1, <1>2
<1>5. \A j \in 1..Len(q) : j \in 1..(Len(q) + 1)  BY <1>2
<1>6. /\ Len(q) + 1 \in 1..(Len(q) + 1) /\ Len(q) + 1 \notin 1..Len(q)
      /\ \A i \in 1..(Len(q) + 1) : i = Len(q) + 1 \/ i \in 1..Len(q)
  BY <1>2
<1> QED  BY <1>2, <1>3, <1>4, <1>5, <1>6

\* A request for the list.
LEMMA ListRequest ==
  ASSUME IInv
  PROVE  /\ Request("list", 0) \in Requests /\ Asked(Request("list", 0))
         /\ Request("list", 0).kind = "list" /\ Request("list", 0).step = "ensure"
<1>1. Known(0) /\ 0 \in Nat /\ "list" \in Kinds  BY DEF IInv, SoundStore, Known, Kinds
<1> QED  BY <1>1, RequestType DEF Asked, Request

\* A page that has just asked for the list is up to date.
LEMMA AskedIsCurrent ==
  ASSUME IInv, NEW t \in Tab, NEW j \in DOMAIN calls'[t], calls'[t][j] = Request("list", 0)
  PROVE  UpToDate(t)'
<1>1. calls'[t][j].kind = "list" /\ calls'[t][j].step = "ensure"  BY ListRequest
<1>2. \A i \in DOMAIN calls'[t] : i # j => Another(t, i)'  BY <1>1 DEF Another, Lists
<1>3. Fresh(calls[t][j])'  BY <1>1 DEF Fresh
<1>4. \E i \in DOMAIN calls'[t] : Lists(calls[t][i])'  BY <1>1 DEF Lists
<1>5. ASSUME NEW i \in DOMAIN calls'[t] PROVE Fresh(calls[t][i])' \/ Another(t, i)'
  <2>1. CASE i = j  BY <1>3, <2>1
  <2>2. CASE i # j  BY <1>2, <2>2
  <2> QED  BY <2>1, <2>2
<1> QED  BY <1>4, <1>5 DEF UpToDate

LEMMA ListAnsweredInv ==
  ASSUME IInv, NEW t \in Tab, NEW k \in DOMAIN calls[t], ListAnswered(t, k) PROVE Kept
<1> DEFINE c == calls[t][k]
           crossed == \E j \in DOMAIN calls[t] \ {k} : calls[t][j].kind = "list"
           q == Without(t, k)
<1>1. /\ c.step = "ok" /\ c.kind = "list"
      /\ rows' = [rows EXCEPT ![t] = c.out]
      /\ calls' = [calls EXCEPT ![t] = q]
      /\ excused' = IF crossed THEN excused \cup {t} ELSE excused
      /\ UNCHANGED <<title, nextId, history, notices, cut, turn, events>>
  BY DEF ListAnswered, At, server
<1>2. PICK i \in IF at[t] \in c.out THEN {at[t]} ELSE IF c.out = {} THEN {0} ELSE c.out :
        at' = [at EXCEPT ![t] = i]
  BY DEF ListAnswered
<1>3. /\ \A j \in c.out : Known(j) /\ j # 0
      /\ c.out \subseteq Nat
  BY RequestIs DEF IInv, SoundCalls, Sound
<1>4. at \in [Tab -> Nat] /\ rows \in [Tab -> SUBSET Nat] /\ nextId \in Nat \ {0}
  BY DEF IInv, SoundConsoles, SoundStore
<1>5. Known(i) /\ i \in Nat /\ (c.out # {} => i \in c.out)
  BY <1>2, <1>3, <1>4 DEF Known
<1>6. /\ calls \in [Tab -> Seq(Requests)] /\ q \in Seq(Requests)
      /\ \A j \in DOMAIN q : \E m \in DOMAIN calls[t] : m # k /\ q[j] = calls[t][m]
      /\ \A m \in DOMAIN calls[t] : m # k => \E j \in DOMAIN q : q[j] = calls[t][m]
  BY Answering
<1> HIDE DEF q
<1>7. calls' \in [Tab -> Seq(Requests)] /\ calls'[t] = q  BY <1>1, <1>6
<1>8. Page(t)  BY <1>1, <1>2, <1>4, <1>6 DEF Page
<1>9. at'[t] = i /\ rows'[t] = c.out  BY <1>1, <1>2, <1>4
<1>10. SoundConsoles'
  <2>1. at' \in [Tab -> Nat] /\ rows' \in [Tab -> SUBSET Nat]  BY <1>1, <1>2, <1>3, <1>4, <1>5
  <2>2. ASSUME NEW u \in Tab
        PROVE  at'[u] < nextId /\ \A j \in rows'[u] : j \in Nat /\ j < nextId /\ j # 0
    <3>1. CASE u = t  BY <1>3, <1>5, <1>9, <3>1 DEF Known
    <3>2. CASE u # t  BY <1>8, <3>2 DEF Page, IInv, SoundConsoles, Known
    <3> QED  BY <3>1, <3>2
  <2> QED  BY <1>1, <2>1, <2>2 DEF SoundConsoles, Known
<1>11. Others'  BY <1>1 DEF IInv, Others
<1>12. IInv'  BY <1>6, <1>7, <1>8, <1>10, <1>11, PageInv
<1>13. ASSUME Current PROVE Current'
  <2>1. t \in excused' \/ UpToDate(t)' \/ Pending(t)'
    <3> SUFFICES ASSUME t \notin excused, ~crossed, ~Pending(t)' PROVE UpToDate(t)'
      BY <1>1
    <3>1. Pending(t) => Pending(t)'
      <4>1. Deleting => Deleting'
        <5> SUFFICES ASSUME Deleting PROVE Deleting'  OBVIOUS
        <5>1. PICK w \in Tab : \E m \in DOMAIN calls[w] : Deletes(calls[w][m])  BY DEF Deleting
        <5>2. PICK m \in DOMAIN calls[w] : Deletes(calls[w][m])  BY <5>1
        <5>3. CASE w # t  BY <1>8, <5>2, <5>3 DEF Page, Deleting, Deletes
        <5>4. CASE w = t
          <6>1. m # k  BY <1>1, <5>2, <5>4 DEF Deletes
          <6>2. PICK j \in DOMAIN q : q[j] = calls[t][m]  BY <1>6, <5>2, <5>4, <6>1
          <6> QED  BY <1>7, <5>2, <5>4, <6>2 DEF Deleting, Deletes
        <5> QED  BY <5>3, <5>4
      <4> QED  BY <1>1, <4>1 DEF Pending
    <3>2. UpToDate(t)  BY <1>13, <3>1 DEF Current
    <3>3. ~Another(t, k)  BY DEF Another, Lists
    <3>4. c.out # {} /\ c.out \subseteq Live  BY <1>1, <3>2, <3>3 DEF UpToDate, Fresh
    <3>5. at'[t] \in Live' /\ rows'[t] \subseteq Live'  BY <1>1, <1>5, <1>9, <3>4 DEF Live
    <3>6. \A j \in DOMAIN calls'[t] : calls'[t][j].kind # "list"  BY <1>6, <1>7
    <3> QED  BY <3>5, <3>6 DEF UpToDate
  <2>2. \A m \in DOMAIN calls[t] : Deletes(calls[t][m]) =>
          \E j \in DOMAIN calls'[t] : calls'[t][j] = calls[t][m]
    BY <1>1, <1>6, <1>7 DEF Deletes
  <2>3. \A u \in Tab : u # t => (notices[u] > 0 => notices'[u] > 0) /\ (u \in excused => u \in excused')
    BY <1>1
  <2> QED  BY <1>8, <1>13, <2>1, <2>2, <2>3, PageCurrent
<1> QED  BY <1>12, <1>13 DEF Kept

LEMMA ChangeAnsweredInv ==
  ASSUME IInv, NEW t \in Tab, NEW k \in DOMAIN calls[t], ChangeAnswered(t, k) PROVE Kept
<1> DEFINE c == calls[t][k]
           q == Without(t, k)
           moved == c.kind = "post" \/ (c.kind = "del" /\ c.id = at[t])
<1>1. /\ c.step = "ok" /\ c.kind # "list"
      /\ at' = IF moved THEN [at EXCEPT ![t] = Max(c.out)] ELSE at
      /\ calls' = [calls EXCEPT ![t] = Append(q, Request("list", 0))]
      /\ excused' = excused \ {t}
      /\ UNCHANGED <<title, nextId, history, notices, cut, turn, rows, events>>
  BY DEF ChangeAnswered, At, server, refreshSessions
<1>2. /\ calls \in [Tab -> Seq(Requests)] /\ q \in Seq(Requests)
      /\ \A j \in DOMAIN q : \E m \in DOMAIN calls[t] : q[j] = calls[t][m]
      /\ \A m \in DOMAIN calls[t] : m # k => \E j \in DOMAIN q : q[j] = calls[t][m]
  BY Answering
<1>3. moved => Max(c.out) \in Nat /\ Known(Max(c.out))
  <2> SUFFICES ASSUME moved PROVE Max(c.out) \in Nat /\ Known(Max(c.out))  OBVIOUS
  <2>1. PICK i \in c.out : c.out = {i}  BY <1>1 DEF IInv, SoundCalls, Sound
  <2>2. Known(i) /\ i \in Nat  BY <2>1 DEF IInv, SoundCalls, Sound, Known
  <2>3. Max(c.out) = i  BY <2>1, <2>2 DEF Max
  <2> QED  BY <2>2, <2>3
<1> HIDE DEF q, moved
<1>4. at \in [Tab -> Nat] /\ rows \in [Tab -> SUBSET Nat]
  BY DEF IInv, SoundConsoles
<1>5. Request("list", 0) \in Requests /\ Asked(Request("list", 0))  BY ListRequest
<1>6. /\ calls' \in [Tab -> Seq(Requests)]
      /\ \A u \in Tab : u # t => calls'[u] = calls[u]
      /\ \A j \in DOMAIN q : j \in DOMAIN calls'[t] /\ calls'[t][j] = q[j]
      /\ \A j \in DOMAIN calls'[t] : j \in DOMAIN q \/ Asked(calls'[t][j])
      /\ \E j \in DOMAIN calls'[t] : calls'[t][j] = Request("list", 0)
  BY <1>1, <1>2, <1>5, Asking
<1>7. Page(t)  BY <1>1, <1>4, <1>6 DEF Page
<1>8. SoundConsoles'
  <2>1. at' \in [Tab -> Nat]  BY <1>1, <1>3, <1>4
  <2>2. ASSUME NEW u \in Tab PROVE at'[u] < nextId
    <3>1. at[u] < nextId  BY DEF IInv, SoundConsoles, Known
    <3>2. CASE moved /\ u = t
      <4>1. at'[u] = Max(c.out)  BY <1>1, <1>4, <3>2
      <4> QED  BY <1>3, <3>2, <4>1 DEF Known
    <3>3. CASE ~(moved /\ u = t)
      <4>1. at'[u] = at[u]  BY <1>1, <1>4, <3>3
      <4> QED  BY <3>1, <4>1
    <3> QED  BY <3>2, <3>3
  <2> QED  BY <1>1, <2>1, <2>2 DEF IInv, SoundConsoles, Known
<1>9. Others'  BY <1>1 DEF IInv, Others
<1>10. IInv'
  <2>1. \A j \in DOMAIN calls'[t] :
          Asked(calls'[t][j]) \/ \E m \in DOMAIN calls[t] : calls'[t][j] = calls[t][m]
    BY <1>2, <1>6
  <2> QED  BY <1>6, <1>7, <1>8, <1>9, <2>1, PageInv
<1>11. ASSUME Current PROVE Current'
  <2>1. UpToDate(t)'  BY <1>6, AskedIsCurrent
  <2>2. ASSUME NEW m \in DOMAIN calls[t], Deletes(calls[t][m])
        PROVE  \E j \in DOMAIN calls'[t] : calls'[t][j] = calls[t][m]
    <3>1. m # k  BY <1>1, <2>2 DEF Deletes
    <3>2. PICK j \in DOMAIN q : q[j] = calls[t][m]  BY <1>2, <3>1
    <3> QED  BY <1>6, <3>2
  <2>3. \A u \in Tab : u # t => (notices[u] > 0 => notices'[u] > 0) /\ (u \in excused => u \in excused')
    BY <1>1
  <2> QED  BY <1>7, <1>11, <2>1, <2>2, <2>3, PageCurrent
<1> QED  BY <1>10, <1>11 DEF Kept

LEMMA ErrorAnsweredInv ==
  ASSUME IInv, NEW t \in Tab, NEW k \in DOMAIN calls[t], ErrorAnswered(t, k) PROVE Kept
<1> DEFINE q == Without(t, k)
<1>1. /\ calls[t][k].step = "error"
      /\ calls' = [calls EXCEPT ![t] = q]
      /\ UNCHANGED <<title, nextId, history, notices, cut, turn, at, rows, events, excused>>
  BY DEF ErrorAnswered, At, server, console
<1>2. /\ calls \in [Tab -> Seq(Requests)] /\ q \in Seq(Requests)
      /\ \A j \in DOMAIN q : \E i \in DOMAIN calls[t] :
           /\ i # k /\ q[j] = calls[t][i]
           /\ \A m \in DOMAIN calls[t] : m # k /\ m # i => \E n \in DOMAIN q : n # j /\ q[n] = calls[t][m]
      /\ \A i \in DOMAIN calls[t] : i # k => \E j \in DOMAIN q : q[j] = calls[t][i]
  BY Answering
<1> HIDE DEF q
<1>3. /\ calls' \in [Tab -> Seq(Requests)] /\ calls'[t] = q
      /\ \A u \in Tab : u # t => calls'[u] = calls[u]
  BY <1>1, <1>2
<1>4. Page(t) /\ Live' = Live  BY <1>1, <1>3 DEF Page, Live
<1>5. SoundConsoles'  BY <1>1 DEF IInv, SoundConsoles, Known
<1>6. Others'  BY <1>1, OthersKept DEF IInv
<1>7. IInv'
  <2>1. \A j \in DOMAIN calls'[t] : \E i \in DOMAIN calls[t] : calls'[t][j] = calls[t][i]
    BY <1>2, <1>3
  <2> QED  BY <1>3, <1>4, <1>5, <1>6, <2>1, PageInv
<1>8. ASSUME Current PROVE Current'
  <2>1. \A i \in DOMAIN calls[t] : Deletes(calls[t][i]) \/ Lists(calls[t][i]) =>
          i # k /\ \E j \in DOMAIN calls'[t] : calls'[t][j] = calls[t][i]
    BY <1>1, <1>2, <1>3 DEF Deletes, Lists
  <2>2. UpToDate(t) => UpToDate(t)'
    <3> SUFFICES ASSUME UpToDate(t) PROVE UpToDate(t)'  OBVIOUS
    <3>1. (at'[t] \in Live' /\ rows'[t] \subseteq Live') \/ \E j \in DOMAIN calls'[t] : Lists(calls[t][j])'
      BY <1>1, <1>4, <2>1 DEF UpToDate, Lists
    <3>2. ASSUME NEW j \in DOMAIN calls'[t], calls'[t][j].kind = "list"
          PROVE  Fresh(calls[t][j])' \/ Another(t, j)'
      <4>1. PICK i \in DOMAIN calls[t] :
              /\ i # k /\ q[j] = calls[t][i]
              /\ \A m \in DOMAIN calls[t] : m # k /\ m # i =>
                   \E n \in DOMAIN q : n # j /\ q[n] = calls[t][m]
        BY <1>2, <1>3
      <4>2. CASE Fresh(calls[t][i])  BY <1>3, <1>4, <4>1, <4>2 DEF Fresh
      <4>3. CASE Another(t, i)
        <5>1. PICK m \in DOMAIN calls[t] : m # i /\ Lists(calls[t][m])  BY <4>3 DEF Another
        <5>2. m # k  BY <2>1, <5>1
        <5>3. PICK n \in DOMAIN q : n # j /\ q[n] = calls[t][m]  BY <4>1, <5>1, <5>2
        <5> QED  BY <1>3, <5>1, <5>3 DEF Another, Lists
      <4>4. Fresh(calls[t][i]) \/ Another(t, i)  BY <1>3, <3>2, <4>1 DEF UpToDate
      <4> QED  BY <4>2, <4>3, <4>4
    <3> QED  BY <3>1, <3>2 DEF UpToDate
  <2>3. Pending(t) => Pending(t)' \/ t \in excused'
    <3>1. Deleting => Deleting'
      <4> SUFFICES ASSUME Deleting PROVE Deleting'  OBVIOUS
      <4>1. PICK w \in Tab : \E m \in DOMAIN calls[w] : Deletes(calls[w][m])  BY DEF Deleting
      <4>2. PICK m \in DOMAIN calls[w] : Deletes(calls[w][m])  BY <4>1
      <4>3. CASE w # t  BY <1>3, <4>2, <4>3 DEF Deleting, Deletes
      <4>4. CASE w = t
        <5>1. PICK j \in DOMAIN calls'[t] : calls'[t][j] = calls[t][m]  BY <2>1, <4>2, <4>4
        <5> QED  BY <4>2, <4>4, <5>1 DEF Deleting, Deletes
      <4> QED  BY <4>3, <4>4
    <3> QED  BY <1>1, <3>1 DEF Pending
  <2>4. t \in excused' \/ UpToDate(t)' \/ Pending(t)'  BY <1>1, <1>8, <2>2, <2>3 DEF Current
  <2>5. \A u \in Tab : u # t => (notices[u] > 0 => notices'[u] > 0) /\ (u \in excused => u \in excused')
    BY <1>1
  <2>6. \A i \in DOMAIN calls[t] : Deletes(calls[t][i]) =>
          \E j \in DOMAIN calls'[t] : calls'[t][j] = calls[t][i]
    BY <2>1
  <2> QED  BY <1>4, <1>8, <2>4, <2>5, <2>6, PageCurrent
<1> QED  BY <1>7, <1>8 DEF Kept

LEMMA NoticeInv == ASSUME IInv, NEW t \in Tab, Notice(t) PROVE Kept
<1>1. /\ notices[t] > 0 /\ notices' = [notices EXCEPT ![t] = @ - 1]
      /\ calls' = [calls EXCEPT ![t] = Append(calls[t], Request("list", 0))]
      /\ excused' = excused \ {t}
      /\ UNCHANGED <<title, nextId, history, cut, turn, at, rows, events>>
  BY DEF Notice, refreshSessions, store, console
<1>2. calls \in [Tab -> Seq(Requests)] /\ calls[t] \in Seq(Requests)
  BY DEF IInv, SoundCalls
<1>3. Request("list", 0) \in Requests /\ Asked(Request("list", 0))  BY ListRequest
<1>4. /\ calls' \in [Tab -> Seq(Requests)]
      /\ \A u \in Tab : u # t => calls'[u] = calls[u]
      /\ \A j \in DOMAIN calls[t] : j \in DOMAIN calls'[t] /\ calls'[t][j] = calls[t][j]
      /\ \A j \in DOMAIN calls'[t] : j \in DOMAIN calls[t] \/ Asked(calls'[t][j])
      /\ \E j \in DOMAIN calls'[t] : calls'[t][j] = Request("list", 0)
  BY <1>1, <1>2, <1>3, Asking
<1>5. Page(t)  BY <1>1, <1>4 DEF Page
<1>6. SoundConsoles'  BY <1>1 DEF IInv, SoundConsoles, Known
<1>7. Others'
  <2>1. notices[t] - 1 \in Nat  BY <1>1 DEF IInv, Others
  <2> QED  BY <1>1, <2>1 DEF IInv, Others
<1>8. IInv'
  <2>1. \A j \in DOMAIN calls'[t] :
          Asked(calls'[t][j]) \/ \E m \in DOMAIN calls[t] : calls'[t][j] = calls[t][m]
    BY <1>4
  <2> QED  BY <1>4, <1>5, <1>6, <1>7, <2>1, PageInv
<1>9. ASSUME Current PROVE Current'
  <2>1. UpToDate(t)'  BY <1>4, AskedIsCurrent
  <2>2. \A m \in DOMAIN calls[t] : Deletes(calls[t][m]) =>
          \E j \in DOMAIN calls'[t] : calls'[t][j] = calls[t][m]
    BY <1>4
  <2>3. \A u \in Tab : u # t => (notices[u] > 0 => notices'[u] > 0) /\ (u \in excused => u \in excused')
    BY <1>1 DEF IInv, Others
  <2> QED  BY <1>5, <1>9, <2>1, <2>2, <2>3, PageCurrent
<1> QED  BY <1>8, <1>9 DEF Kept

LEMMA NoticeMissedInv == ASSUME IInv, NEW t \in Tab, NoticeMissed(t) PROVE Kept
<1>1. /\ notices[t] > 0 /\ notices' = [notices EXCEPT ![t] = @ - 1] /\ Happens
      /\ excused' = excused \cup {t}
      /\ UNCHANGED <<title, nextId, history, cut, turn, at, rows, calls>>
  BY DEF NoticeMissed, store, console
<1>2. calls \in [Tab -> Seq(Requests)]  BY DEF IInv, SoundCalls
<1>3. Page(t)  BY <1>1 DEF Page
<1>4. SoundConsoles'  BY <1>1 DEF IInv, SoundConsoles, Known
<1>5. Others'
  <2>1. notices[t] - 1 \in Nat  BY <1>1 DEF IInv, Others
  <2> QED  BY <1>1, <2>1, BoundsAssumption DEF IInv, Others, Happens
<1>6. IInv'  BY <1>1, <1>2, <1>3, <1>4, <1>5, PageInv
<1>7. Current => Current'
  <2>1. \A u \in Tab : u # t => (notices[u] > 0 => notices'[u] > 0) /\ (u \in excused => u \in excused')
    BY <1>1 DEF IInv, Others
  <2>2. t \in excused'  BY <1>1
  <2> QED  BY <1>1, <1>3, <2>1, <2>2, PageCurrent
<1> QED  BY <1>6, <1>7 DEF Kept

LEMMA SwitchInv == ASSUME IInv, NEW t \in Tab, NEW i, switchSession(t, i) PROVE Kept
<1>1. /\ i \in rows[t] /\ at' = [at EXCEPT ![t] = i] /\ Happens
      /\ UNCHANGED <<title, nextId, history, notices, cut, turn, rows, calls, excused>>
  BY DEF switchSession, server
<1>2. /\ calls \in [Tab -> Seq(Requests)] /\ at \in [Tab -> Nat] /\ rows \in [Tab -> SUBSET Nat]
      /\ Known(i) /\ i \in Nat
  BY <1>1 DEF IInv, SoundCalls, SoundConsoles, Known
<1>3. /\ at' \in [Tab -> Nat] /\ at'[t] = i
      /\ \A u \in Tab : u # t => at'[u] = at[u]
  BY <1>1, <1>2
<1>4. Page(t)  BY <1>1, <1>3 DEF Page
<1>5. SoundConsoles'
  <2>1. \A u \in Tab : at'[u] < nextId  BY <1>2, <1>3 DEF IInv, SoundConsoles, Known
  <2> QED  BY <1>1, <1>3, <2>1 DEF IInv, SoundConsoles, Known
<1>6. Others'  BY <1>1, BoundsAssumption DEF IInv, Others, Happens
<1>7. IInv'  BY <1>1, <1>2, <1>4, <1>5, <1>6, PageInv
<1>8. ASSUME Current PROVE Current'
  <2>1. UpToDate(t) => UpToDate(t)'
    BY <1>1, <1>3 DEF UpToDate, Live, Lists, Fresh, Another
  <2>2. Pending(t) => Pending(t)'  BY <1>1 DEF Pending, Deleting, Deletes
  <2>3. t \in excused' \/ UpToDate(t)' \/ Pending(t)'  BY <1>1, <1>8, <2>1, <2>2 DEF Current
  <2> QED  BY <1>1, <1>4, <1>8, <2>3, PageCurrent
<1> QED  BY <1>7, <1>8 DEF Kept

LEMMA ClickInv == ASSUME IInv, NEW t \in Tab, NEW kind, NEW i, Click(t, kind, i) PROVE Kept
<1> DEFINE r == Request(kind, i)
<1>1. /\ kind \in {"post", "put", "del"} /\ i \in IF kind = "post" THEN {0} ELSE rows[t]
      /\ calls' = [calls EXCEPT ![t] = Append(calls[t], r)] /\ Happens
      /\ UNCHANGED <<title, nextId, history, notices, cut, turn, at, rows, excused>>
  BY DEF Click, Ask, server, console
<1>2. calls \in [Tab -> Seq(Requests)] /\ calls[t] \in Seq(Requests)
  BY DEF IInv, SoundCalls
<1>3. Known(i) /\ i \in Nat
  BY <1>1 DEF IInv, SoundStore, SoundConsoles, Known
<1>4. r \in Requests /\ Asked(r) /\ r.kind # "list"
  <2>1. kind \in Kinds  BY <1>1 DEF Kinds
  <2> QED  BY <1>1, <1>3, <2>1, RequestType DEF Asked, Request
<1> HIDE DEF r
<1>5. /\ calls' \in [Tab -> Seq(Requests)]
      /\ \A u \in Tab : u # t => calls'[u] = calls[u]
      /\ \A j \in DOMAIN calls[t] : j \in DOMAIN calls'[t] /\ calls'[t][j] = calls[t][j]
      /\ \A j \in DOMAIN calls'[t] : j \in DOMAIN calls[t] \/ calls'[t][j] = r
  BY <1>1, <1>2, <1>4, Asking
<1>6. Page(t) /\ Live' = Live  BY <1>1, <1>5 DEF Page, Live
<1>7. SoundConsoles'  BY <1>1 DEF IInv, SoundConsoles, Known
<1>8. Others'  BY <1>1, BoundsAssumption DEF IInv, Others, Happens
<1>9. IInv'
  <2>1. \A j \in DOMAIN calls'[t] :
          Asked(calls'[t][j]) \/ \E m \in DOMAIN calls[t] : calls'[t][j] = calls[t][m]
    BY <1>4, <1>5
  <2> QED  BY <1>5, <1>6, <1>7, <1>8, <2>1, PageInv
<1>10. ASSUME Current PROVE Current'
  <2>1. UpToDate(t) => UpToDate(t)'
    <3> SUFFICES ASSUME UpToDate(t) PROVE UpToDate(t)'  OBVIOUS
    <3>1. (at'[t] \in Live' /\ rows'[t] \subseteq Live') \/ \E j \in DOMAIN calls'[t] : Lists(calls[t][j])'
      BY <1>1, <1>5, <1>6 DEF UpToDate, Lists
    <3>2. ASSUME NEW j \in DOMAIN calls'[t], calls'[t][j].kind = "list"
          PROVE  Fresh(calls[t][j])' \/ Another(t, j)'
      <4>1. j \in DOMAIN calls[t] /\ calls'[t][j] = calls[t][j]  BY <1>4, <1>5, <3>2
      <4>2. Fresh(calls[t][j]) \/ Another(t, j)  BY <3>2, <4>1 DEF UpToDate
      <4> QED  BY <1>5, <1>6, <4>1, <4>2 DEF Fresh, Another, Lists
    <3> QED  BY <3>1, <3>2 DEF UpToDate
  <2>2. Pending(t) => Pending(t)'
    <3>1. Deleting => Deleting'
      <4> SUFFICES ASSUME Deleting PROVE Deleting'  OBVIOUS
      <4>1. PICK w \in Tab : \E m \in DOMAIN calls[w] : Deletes(calls[w][m])  BY DEF Deleting
      <4>2. PICK m \in DOMAIN calls[w] : Deletes(calls[w][m])  BY <4>1
      <4>3. m \in DOMAIN calls'[w] /\ calls'[w][m] = calls[w][m]  BY <1>5, <4>2
      <4> QED  BY <4>2, <4>3 DEF Deleting, Deletes
    <3> QED  BY <1>1, <3>1 DEF Pending
  <2>3. t \in excused' \/ UpToDate(t)' \/ Pending(t)'  BY <1>1, <1>10, <2>1, <2>2 DEF Current
  <2>4. \A m \in DOMAIN calls[t] : Deletes(calls[t][m]) =>
          \E j \in DOMAIN calls'[t] : calls'[t][j] = calls[t][m]
    BY <1>5
  <2>5. \A u \in Tab : u # t => (notices[u] > 0 => notices'[u] > 0) /\ (u \in excused => u \in excused')
    BY <1>1
  <2> QED  BY <1>6, <1>10, <2>3, <2>4, <2>5, PageCurrent
<1> QED  BY <1>9, <1>10 DEF Kept

-----------------------------------------------------------------------------
(* The theorems. *)

LEMMA InitInv == Init => IInv /\ Current
<1> SUFFICES ASSUME Init PROVE IInv /\ Current
  OBVIOUS
<1>1. MaxId \in Nat \ {0} /\ MaxEvents \in Nat  BY BoundsAssumption
<1>2. Others  BY <1>1 DEF Init, Others
<1>3. NoTurn \in TurnType /\ NoTurn.to = 0 /\ NoTurn.step = "idle"  BY DEF NoTurn, TurnType, Titles
<1>4. nextId \in Nat \ {0} /\ nextId <= MaxId + 1  BY <1>1 DEF Init
<1>5. SoundTurns  BY <1>3, <1>4 DEF Init, SoundTurns, TurnType, Known
<1>6. CASE /\ title = [i \in {1} |-> "new"] /\ nextId = 2
           /\ history \in SUBSET {0, 1}
           /\ at = [t \in Tab |-> 1] /\ rows = [t \in Tab |-> {1}]
           /\ calls = [t \in Tab |-> <<>>]
           /\ excused = {}
  <2>1. Live = {1}  BY <1>6 DEF Live
  <2>2. SoundStore  BY <1>4, <1>6, <2>1 DEF SoundStore, Known, Titles, NoOrphans
  <2>3. SoundConsoles  BY <1>6 DEF SoundConsoles, Known
  <2>4. <<>> \in Seq(Requests) /\ DOMAIN <<>> = {}  OBVIOUS
  <2>5. \A t \in Tab : calls[t] = <<>> /\ at[t] \in Live /\ rows[t] \subseteq Live
    BY <1>6, <2>1
  <2>6. SoundCalls  BY <1>6, <2>4, <2>5 DEF SoundCalls
  <2>7. Current  BY <2>4, <2>5 DEF Current, UpToDate
  <2> QED  BY <1>2, <1>5, <2>2, <2>3, <2>6, <2>7 DEF IInv
<1>7. CASE /\ title = [i \in {} |-> "new"] /\ nextId = 1
           /\ history \in {{}, {0}}
           /\ at = [t \in Tab |-> 0] /\ rows = [t \in Tab |-> {}]
           /\ \E t \in Tab :
                /\ calls = [u \in Tab |-> IF u = t THEN <<Request("list", 0)>> ELSE <<>>]
                /\ excused = Tab \ {t}
  <2>1. Live = {}  BY <1>7 DEF Live
  <2>2. SoundStore  BY <1>4, <1>7, <2>1 DEF SoundStore, Known, NoOrphans
  <2>3. SoundConsoles  BY <1>7 DEF SoundConsoles, Known
  <2>4. PICK t \in Tab :
          /\ calls = [u \in Tab |-> IF u = t THEN <<Request("list", 0)>> ELSE <<>>]
          /\ excused = Tab \ {t}
    BY <1>7
  <2>5. PICK r : r = Request("list", 0)  OBVIOUS
  <2>6. /\ r \in Requests /\ r.kind = "list" /\ r.step = "ensure" /\ r.id = 0 /\ r.out = {}
    BY <2>5, RequestType DEF Request, Kinds
  <2>7. /\ <<r>> \in Seq(Requests) /\ <<>> \in Seq(Requests)
        /\ DOMAIN <<r>> = {1} /\ DOMAIN <<>> = {} /\ <<r>>[1] = r
    BY <2>6
  <2>8. calls \in [Tab -> Seq(Requests)]  BY <2>4, <2>5, <2>7
  <2>9. calls[t] = <<r>> /\ \A u \in Tab : u # t => calls[u] = <<>>  BY <2>4, <2>5
  <2>10. Sound(r)  BY <1>7, <2>6 DEF Sound, Known
  <2>11. \A u \in Tab : \A k \in DOMAIN calls[u] : calls[u][k] = r  BY <2>7, <2>9
  <2>12. SoundCalls  BY <2>8, <2>10, <2>11 DEF SoundCalls
  <2>13. UpToDate(t)  BY <2>6, <2>7, <2>9 DEF UpToDate, Lists, Fresh
  <2>14. Current  BY <2>4, <2>13 DEF Current
  <2> QED  BY <1>2, <1>5, <2>2, <2>3, <2>12, <2>14 DEF IInv
<1> QED  BY <1>6, <1>7 DEF Init

LEMMA StepKept == ASSUME IInv, Next PROVE Kept
<1>1. PICK t \in Tab :
        \/ \E k \in DOMAIN calls[t] : Handlers(t, k) \/ Answers(t, k)
        \/ Turns(t)
        \/ Notice(t) \/ NoticeMissed(t)
        \/ \E i \in Id : switchSession(t, i)
        \/ \E kind \in Kinds, i \in Id \cup {0} : Click(t, kind, i)
        \/ \E to \in Id \cup {0} : Submit(t, to)
  BY DEF Next
<1>2. ASSUME NEW k \in DOMAIN calls[t], Handlers(t, k) PROVE Kept
  BY <1>2, EnsureLooksInv, EnsureCountsInv, EnsureMakesInv, EnsureAdoptsInv, GetWebSessionInv,
     HandleListInv, HandlePostInv, HandlePutInv, HandleDeleteInv, TellInv, RequestFailsInv
     DEF Handlers
<1>3. ASSUME NEW k \in DOMAIN calls[t], Answers(t, k) PROVE Kept
  BY <1>3, ListAnsweredInv, ChangeAnsweredInv, ErrorAnsweredInv DEF Answers
<1>4. ASSUME Turns(t) PROVE Kept
  BY <1>4, TurnLooksInv, TurnNamesInv, TurnSavesInv, TurnRepliesInv, TurnFailsInv DEF Turns
<1> QED  BY <1>1, <1>2, <1>3, <1>4, NoticeInv, NoticeMissedInv, SwitchInv, ClickInv, SubmitInv

LEMMA StutterKept == ASSUME IInv, UNCHANGED vars PROVE Kept
<1>1. UNCHANGED <<title, nextId, history, notices, at, rows, calls, turn, events, cut, excused>>
  BY DEF vars
<1>2. Live' = Live  BY <1>1 DEF Live
<1>3. SoundStore' /\ SoundTurns' /\ SoundConsoles' /\ Others'
  BY <1>1, <1>2 DEF IInv, SoundStore, SoundTurns, SoundConsoles, Others, Known, NoOrphans
<1>4. SoundCalls'
  <2>1. Grows  BY <1>1, <1>2, StaysGrows DEF IInv
  <2> QED  BY <1>1, <2>1, CallsKept DEF IInv
<1>5. Current => Current'  BY <1>1, <1>2, PagesCurrent
<1> QED  BY <1>3, <1>4, <1>5 DEF Kept, IInv

\* The inductive invariant, and what every page is owed: that it shows what
\* there is, asks for it, or is about to be told.
THEOREM Invariance == Spec => [](IInv /\ Current)
<1>1. IInv /\ Current /\ [Next]_vars => (IInv /\ Current)'
  BY StepKept, StutterKept DEF Kept
<1> QED  BY <1>1, InitInv, PTL DEF Spec

\* Every variable keeps its type.
THEOREM TypeCorrect == Spec => []TypeOK
<1>1. ASSUME IInv PROVE TypeOK
  <2> USE <1>1 DEF IInv
  <2>1. \A i : Known(i) /\ i # 0 => i \in Id
    BY BoundsAssumption DEF Known, Id, SoundStore
  <2>2. \A i : Known(i) => i \in Id \cup {0}  BY <2>1
  <2>3. Live \subseteq Id /\ \A i \in Live : title[i] \in Titles
    BY <2>1 DEF SoundStore
  <2>4. history \subseteq Id \cup {0} /\ nextId \in 1..(MaxId + 1)
    BY <2>2, BoundsAssumption DEF SoundStore
  <2>5. at \in [Tab -> Id \cup {0}] /\ rows \in [Tab -> SUBSET Id]
    BY <2>1, <2>2 DEF SoundConsoles
  <2>6. ASSUME NEW t \in Tab, NEW k \in DOMAIN calls[t]
        PROVE  /\ calls[t][k].kind \in Kinds /\ calls[t][k].step \in Steps
               /\ calls[t][k].id \in Id \cup {0} /\ calls[t][k].out \subseteq Id
    <3>1. Sound(calls[t][k])  BY DEF SoundCalls
    <3> QED  BY <2>1, <2>2, <3>1, RequestIs DEF Sound
  <2>7. ASSUME NEW t \in Tab
        PROVE  /\ turn[t].step \in {"idle", "get", "title", "save", "reply"}
               /\ turn[t].to \in Id \cup {0} /\ turn[t].saw \in Titles
    BY <2>2 DEF SoundTurns
  <2> QED  BY <2>3, <2>4, <2>5, <2>6, <2>7 DEF TypeOK, Others
<1> QED  BY <1>1, Invariance, PTL

\* However requests, turns, adoptions and deletions interleave, messages are
\* kept for sessions that exist, for the legacy conversation, or for a session
\* that was deleted while something was still writing to it.
THEOREM NothingOrphaned == Spec => []NoOrphans
<1>1. IInv => NoOrphans  BY DEF IInv, SoundStore
<1> QED  BY <1>1, Invariance, PTL

\* When everything is answered, a page that could know is on a session that
\* exists, whichever page deleted what, and in whatever order the answers came.
THEOREM PagesOnLiveSessions == Spec => []OnALiveSession
<1>1. Current => OnALiveSession
  <2> SUFFICES ASSUME Current, Quiet, NEW t \in Tab \ excused PROVE at[t] \in Live
    BY DEF OnALiveSession
  <2>1. \A u \in Tab : DOMAIN calls[u] = {} /\ notices[u] = 0  BY DEF Quiet
  <2>2. ~Pending(t)  BY <2>1 DEF Pending, Deleting
  <2>3. UpToDate(t)  BY <2>2 DEF Current
  <2> QED  BY <2>1, <2>3 DEF UpToDate
<1> QED  BY <1>1, Invariance, PTL

\* Sessions come from CreateWebSession only.
LEMMA Created ==
  ASSUME [Next]_vars PROVE DOMAIN title' \subseteq Live \/ \E name : CreateWebSession(name)
<1>1. ASSUME UNCHANGED title PROVE DOMAIN title' \subseteq Live  BY <1>1 DEF Live
<1>2. CASE UNCHANGED vars  BY <1>1, <1>2 DEF vars
<1>3. CASE Next
  <2>1. PICK t \in Tab :
          \/ \E k \in DOMAIN calls[t] : Handlers(t, k) \/ Answers(t, k)
          \/ Turns(t)
          \/ Notice(t) \/ NoticeMissed(t)
          \/ \E j \in Id : switchSession(t, j)
          \/ \E kind \in Kinds, j \in Id \cup {0} : Click(t, kind, j)
          \/ \E to \in Id \cup {0} : Submit(t, to)
    BY <1>3 DEF Next
  <2>2. \A i, name : RenameWebSession(i, name) => DOMAIN title' \subseteq Live
    BY DEF RenameWebSession, Live
  <2>3. \A i : DeleteWebSession(i) => DOMAIN title' \subseteq Live
    BY DEF DeleteWebSession, Live
  <2>4. ASSUME NEW k \in DOMAIN calls[t], Handlers(t, k)
        PROVE  DOMAIN title' \subseteq Live \/ \E name : CreateWebSession(name)
    <3>1. UNCHANGED title \/ EnsureMakes(t, k) \/ HandlePost(t, k) \/ HandlePut(t, k) \/ HandleDelete(t, k)
      BY <2>4 DEF Handlers, EnsureLooks, EnsureCounts, EnsureAdopts, GetWebSession, HandleList,
                  Tell, RequestFails, server, store
    <3>2. HandleDelete(t, k) => UNCHANGED title \/ DeleteWebSession(calls[t][k].id)
      BY DEF HandleDelete, store
    <3> QED  BY <1>1, <2>2, <2>3, <3>1, <3>2 DEF EnsureMakes, HandlePost, HandlePut
  <2>5. ASSUME NEW k \in DOMAIN calls[t], Answers(t, k) PROVE UNCHANGED title
    BY <2>5 DEF Answers, ListAnswered, ChangeAnswered, ErrorAnswered, server
  <2>6. Turns(t) => UNCHANGED title \/ RenameWebSession(turn[t].to, "auto")
    BY DEF Turns, TurnLooks, TurnNames, TurnSaves, TurnReplies, TurnFails, store
  <2>7. Notice(t) \/ NoticeMissed(t) => UNCHANGED title  BY DEF Notice, NoticeMissed, store
  <2>8. \A j : switchSession(t, j) => UNCHANGED title  BY DEF switchSession, server
  <2>9. \A kind, j : Click(t, kind, j) => UNCHANGED title  BY DEF Click, server
  <2>10. \A to : Submit(t, to) => UNCHANGED title  BY DEF Submit, store
  <2> QED  BY <1>1, <2>1, <2>2, <2>4, <2>5, <2>6, <2>7, <2>8, <2>9, <2>10
<1> QED  BY <1>2, <1>3

\* A session that is created starts empty, and no turn and no adoption is still
\* writing to its id: ids are never given out again.
THEOREM FreshSessions == Spec => FreshIsEmpty
<1>1. ASSUME IInv, [Next]_vars, NEW i \in DOMAIN title' \ Live
      PROVE  i \notin history /\ ~Writing(i)
  <2>1. i = nextId
    <3>1. ASSUME NEW name, CreateWebSession(name) PROVE i = nextId
      BY <1>1, <3>1 DEF CreateWebSession, Live
    <3> QED  BY <1>1, <3>1, Created
  <2>2. ~Known(i) /\ i # 0  BY <1>1, <2>1 DEF IInv, SoundStore, Known
  <2>3. i \notin history  BY <1>1, <2>2 DEF IInv, SoundStore
  <2>4. ~Writing(i)  BY <1>1, <2>2 DEF IInv, SoundTurns, SoundCalls, Sound, Writing
  <2> QED  BY <2>3, <2>4
<1>2. IInv /\ [Next]_vars => [\A i \in DOMAIN title' \ Live : i \notin history /\ ~Writing(i)]_vars
  BY <1>1
<1> QED  BY <1>2, Invariance, PTL DEF Spec, FreshIsEmpty

=============================================================================
