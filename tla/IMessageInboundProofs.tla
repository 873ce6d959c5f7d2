----------------------- MODULE IMessageInboundProofs ------------------------
(* Theorems about the inbound iMessage path, for any rows, times, limits and *)
(* number of faults.                                                         *)
EXTENDS IMessageInbound, TLAPS, WellFoundedInduction

\* Whatever is known about a row, the row is there.
Rows ==
  /\ mark <= top /\ file <= top
  /\ \A b \in batch : b <= top
  /\ \A c \in calls : c.row <= top
  /\ \A r \in Row : Seen(r) \/ entered[r] # 0 => r <= top

\* The bridge waits for one answer at most, to the first row of its batch.
Awaiting ==
  /\ bridge = "scanning" => batch # {}
  /\ \A c \in calls : Waited(c) =>
       /\ bridge = "waiting" /\ c.row \in batch
       /\ \A b \in batch : c.row <= b
  /\ \A c, d \in calls : Waited(c) /\ Waited(d) => c = d

\* A request that is being normalised has passed the staleness guard, and has
\* not been at it for long.
Young ==
  \A c \in calls : c.pc = "normalize" =>
    c.at <= arrival[c.row] + MaxAge /\ now <= c.at + NormalizeMax

Past(c) == c.pc \in {"evict", "handling"}

\* The handler knows the row, or the row is too old to be let in again.
Barred(r) == Seen(r) \/ arrival[r] + DedupTTL < now

\* A row that has been let past the dedup is with one request, or has entered,
\* and is barred either way.
Once ==
  /\ \A r \in Row : arrival[r] <= now /\ (Seen(r) => arrival[r] <= dedup[r])
  /\ \A c \in calls : Past(c) => entered[c.row] = 0 /\ Barred(c.row)
  /\ \A c, d \in calls : Past(c) /\ Past(d) /\ c.row = d.row => c = d
  /\ \A r \in Row : entered[r] # 0 => entered[r] = 1 /\ Barred(r)

IInv == TypeOK /\ Rows /\ Awaiting /\ Young /\ Once

\* A batch holds every row to be forwarded between the watermark and its end.
Complete ==
  bridge \in {"scanning", "waiting", "persist"} =>
    /\ \A b \in batch : mark < b
    /\ \A r \in Wanted : mark < r => r \in batch \/ \A b \in batch : b < r

\* What is posted, or remembered, has only answered rows before it.
Behind ==
  /\ \A c \in calls : \A q \in Wanted : q < c.row => q \in settled
  /\ \A r \in Row : \A q \in Wanted : q < r /\ Seen(r) => q \in settled

\* The bridge has no watermark only while it is down.
Marked == file > 0 /\ (bridge # "down" => mark > 0)

SInv == Marked /\ NothingSkipped /\ Complete /\ Behind

-----------------------------------------------------------------------------
\* A set of rows that is not empty has a lowest one.
LEMMA LowestIs ==
  ASSUME NEW S \in SUBSET Row, S # {}
  PROVE  Lowest(S) \in S /\ \A q \in S : Lowest(S) <= q
<1>1. S \subseteq Nat  BY KindType DEF Row
<1> DEFINE Less == {ss \in Nat \X Nat : ss[1] < ss[2]}
<1>2. IsWellFoundedOn(Less, Nat)  BY NatLessThanWellFounded DEF OpToRel
<1>3. PICK r \in S : \A q \in S : <<q, r>> \notin Less
  <2> HIDE DEF Less
  <2> QED  BY <1>1, <1>2, WFMin
<1>4. ASSUME NEW q \in S PROVE r <= q
  <2>1. q \in Nat /\ r \in Nat /\ <<q, r>> \in Nat \X Nat  BY <1>1
  <2>2. ~(<<q, r>>[1] < <<q, r>>[2])  BY <1>3, <2>1
  <2> QED  BY <2>1, <2>2
<1> QED  BY <1>4 DEF Lowest

LEMMA InitInv == Init => IInv
BY KindType, HistoryType, TimesType
   DEF Init, IInv, TypeOK, Rows, Awaiting, Young, Once, Seen, Row, Call

LEMMA ArriveInv == ASSUME IInv, Arrive PROVE IInv'
<1> USE DEF IInv
<1>1. /\ top' = top + 1 /\ top + 1 \in Row /\ arrival' = [arrival EXCEPT ![top + 1] = now]
      /\ UNCHANGED <<now, bridgeVars, clarkVars, histVars, faults>>
  BY KindType DEF Arrive, TypeOK, Row
<1>2. \A r \in Row : r <= top => arrival'[r] = arrival[r]
  BY <1>1, KindType DEF TypeOK, Row
<1>3. TypeOK'  BY <1>1, KindType DEF TypeOK, bridgeVars, clarkVars, histVars, Row
<1>4. Rows'  BY <1>1, KindType DEF Rows, TypeOK, Seen, bridgeVars, clarkVars, histVars, Row, Call
<1>5. Awaiting'  BY <1>1 DEF Awaiting, bridgeVars, clarkVars
<1>6. Young'  BY <1>1, <1>2 DEF Young, Rows, TypeOK, Call, clarkVars
<1>7. Once'
  <2>1. \A r \in Row : arrival'[r] <= now' /\ (Seen(r)' => arrival'[r] <= dedup'[r])
    BY <1>1, <1>2, TimesType DEF Once, Rows, Seen, TypeOK, clarkVars, Row
  <2>2. \A r \in Row : r <= top => (Barred(r) <=> Barred(r)')
    BY <1>1, <1>2 DEF Barred, Seen, clarkVars
  <2> QED  BY <1>1, <2>1, <2>2 DEF Once, Rows, TypeOK, Call, clarkVars, histVars
<1> QED  BY <1>3, <1>4, <1>5, <1>6, <1>7

LEMMA TickInv == ASSUME IInv, Tick PROVE IInv'
<1> USE DEF IInv
<1>1. /\ now' = now + 1 /\ now < MaxTime
      /\ \A c \in calls : c.pc = "normalize" => now < c.at + NormalizeMax
      /\ UNCHANGED <<top, arrival, bridgeVars, clarkVars, histVars, faults>>
  BY DEF Tick
<1>2. TypeOK' /\ Rows' /\ Awaiting'
  BY <1>1, TimesType DEF TypeOK, Rows, Awaiting, Seen, bridgeVars, clarkVars, histVars
<1>3. Young'  BY <1>1, TimesType DEF Young, TypeOK, Call, clarkVars
<1>4. \A r \in Row : Barred(r) => Barred(r)'
  BY <1>1, TimesType DEF Barred, Seen, TypeOK, clarkVars
<1>5. Once'  BY <1>1, <1>4 DEF Once, TypeOK, Seen, Call, clarkVars, histVars
<1> QED  BY <1>2, <1>3, <1>5

LEMMA BridgeStartInv == ASSUME IInv, BridgeStart PROVE IInv'
<1> USE DEF IInv
<1>1. /\ bridge = "down" /\ bridge' = "idle"
      /\ mark' \in {file, top} /\ file' \in {file, top}
      /\ UNCHANGED <<now, top, arrival, batch, clarkVars, histVars, faults>>
  BY DEF BridgeStart
<1>2. TypeOK' /\ Rows'
  BY <1>1, KindType DEF TypeOK, Rows, Seen, clarkVars, histVars
<1> QED  BY <1>1, <1>2 DEF Awaiting, Young, Once, Barred, Seen, clarkVars, histVars

LEMMA ScanInv == ASSUME IInv, Scan PROVE IInv'
<1> USE DEF IInv
<1>1. /\ bridge = "idle" /\ bridge' = "scanning" /\ batch' = Selected /\ Selected # {}
      /\ UNCHANGED <<now, top, arrival, mark, file, clarkVars, histVars, faults>>
  BY DEF Scan
<1>2. TypeOK' /\ Rows' /\ Awaiting'
  BY <1>1 DEF TypeOK, Rows, Awaiting, Seen, Selected, clarkVars, histVars
<1> QED  BY <1>1, <1>2 DEF Young, Once, Barred, Seen, clarkVars, histVars

LEMMA PostInv == ASSUME IInv, Post PROVE IInv'
<1> USE DEF IInv
<1> DEFINE r == Lowest(batch)
           c == [row |-> r, pc |-> "arrived", at |-> now, lost |-> 0]
<1>1. /\ bridge = "scanning" /\ bridge' = "waiting" /\ calls' = calls \cup {c}
      /\ UNCHANGED <<now, top, arrival, batch, mark, file, clark, dedup, histVars, faults>>
  BY DEF Post
<1>2. r \in batch /\ (\A q \in batch : r <= q) /\ r \in Row
  BY <1>1, LowestIs DEF Awaiting, TypeOK
<1>3. c \in Call /\ c.row = r /\ c.pc = "arrived" /\ c.lost = 0
  BY <1>2, TimesType DEF Call, CallPC, TypeOK
<1> HIDE DEF c, r
<1>4. TypeOK' /\ Rows'
  BY <1>1, <1>2, <1>3 DEF TypeOK, Rows, Seen, histVars
<1>5. Awaiting'  BY <1>1, <1>2, <1>3 DEF Awaiting, Waited
<1> QED  BY <1>1, <1>3, <1>4, <1>5 DEF Young, Once, Past, Barred, Seen, histVars

\* The requests the bridge has given up are where they were.
LEMMA UnwaitedIs ==
  ASSUME IInv, faults' \in 1..MaxFaults, NEW d \in Unwaited
  PROVE  /\ d \in Call /\ ~Waited(d)
         /\ \E c \in calls : c.row = d.row /\ c.pc = d.pc /\ c.at = d.at
                            /\ d = IF Waited(c) THEN [c EXCEPT !.lost = faults'] ELSE c
<1>1. PICK c \in calls : d = IF Waited(c) THEN [c EXCEPT !.lost = faults'] ELSE c
  BY DEF Unwaited
<1>2. c \in Call  BY DEF IInv, TypeOK
<1>3. CASE Waited(c)  BY <1>1, <1>2, <1>3 DEF Waited, Call
<1>4. CASE ~Waited(c)  BY <1>1, <1>2, <1>4 DEF Waited, Call
<1> QED  BY <1>3, <1>4

\* The bridge gives up what it waits for, in a fault of its own or of the link.
LEMMA GiveUpInv == ASSUME IInv, Timeout \/ BridgeCrash PROVE IInv'
<1> USE DEF IInv
<1>1. /\ bridge' \in {"idle", "down"} /\ batch' = {} /\ mark' \in {mark, 0}
      /\ calls' = Unwaited
      /\ UNCHANGED <<now, top, arrival, file, clark, dedup, histVars>>
  BY DEF Timeout, BridgeCrash
<1>2. faults' \in 1..MaxFaults
  BY TimesType DEF Timeout, BridgeCrash, Fault, TypeOK
<1>3. \A d \in calls' :
        /\ d \in Call /\ ~Waited(d)
        /\ \E c \in calls : c.row = d.row /\ c.pc = d.pc /\ c.at = d.at
                           /\ d = IF Waited(c) THEN [c EXCEPT !.lost = faults'] ELSE c
  BY <1>1, <1>2, UnwaitedIs
<1>4. TypeOK'  BY <1>1, <1>2, <1>3, KindType, TimesType DEF TypeOK, histVars
<1>5. Rows'  BY <1>1, <1>3, KindType DEF Rows, Seen, TypeOK, histVars
<1>6. Awaiting'  BY <1>1, <1>3 DEF Awaiting
<1>7. Young'  BY <1>1, <1>3 DEF Young
<1>8. Once'
  <2>1. \A c, d \in calls' : Past(c) /\ Past(d) /\ c.row = d.row => c = d
    <3> SUFFICES ASSUME NEW c \in calls', NEW d \in calls', Past(c), Past(d), c.row = d.row
                 PROVE  c = d
      OBVIOUS
    <3>1. PICK p \in calls : p.row = c.row /\ p.pc = c.pc
                /\ c = IF Waited(p) THEN [p EXCEPT !.lost = faults'] ELSE p
      BY <1>3
    <3>2. PICK q \in calls : q.row = d.row /\ q.pc = d.pc
                /\ d = IF Waited(q) THEN [q EXCEPT !.lost = faults'] ELSE q
      BY <1>3
    <3>3. p = q  BY <3>1, <3>2 DEF Once, Past
    <3> QED  BY <3>1, <3>2, <3>3
  <2> QED  BY <1>1, <1>3, <2>1 DEF Once, Past, Barred, Seen, histVars
<1> QED  BY <1>4, <1>5, <1>6, <1>7, <1>8

LEMMA PersistInv == ASSUME IInv, Persist PROVE IInv'
<1> USE DEF IInv
<1>1. /\ bridge = "persist" /\ file' \in {mark, file}
      /\ bridge' = IF batch = {} THEN "idle" ELSE "scanning"
      /\ UNCHANGED <<now, top, arrival, batch, mark, clarkVars, histVars>>
  BY DEF Persist
<1>2. faults' \in 0..MaxFaults  BY TimesType DEF Persist, Fault, TypeOK
<1>3. TypeOK' /\ Rows' /\ Awaiting'
  BY <1>1, <1>2 DEF TypeOK, Rows, Awaiting, Seen, clarkVars, histVars
<1> QED  BY <1>1, <1>3 DEF Young, Once, Barred, Seen, clarkVars, histVars

LEMMA PostFailsInv == ASSUME IInv, PostFails PROVE IInv'
<1> USE DEF IInv
<1>1. /\ bridge = "scanning" /\ bridge' = "idle" /\ batch' = {}
      /\ UNCHANGED <<now, top, arrival, mark, file, clarkVars, histVars, faults>>
  BY DEF PostFails
<1> QED  BY <1>1 DEF TypeOK, Rows, Awaiting, Young, Once, Barred, Seen, clarkVars, histVars

\* An answered request is gone, and with it the bridge's wait for it.
LEMMA AnswerIs ==
  ASSUME IInv, NEW c \in calls, NEW ok \in BOOLEAN, Answer(c, ok), calls' = calls \ {c}
  PROVE  /\ UNCHANGED <<now, top, arrival, file, clark, faults>>
         /\ settled' \subseteq Row /\ heard' \subseteq Row /\ calls' \subseteq Call
         /\ bridge' \in {"down", "idle", "scanning", "waiting", "persist"}
         /\ batch' \subseteq Row /\ mark' \in 0..N
         /\ mark' <= top /\ (\A b \in batch' : b <= top) /\ (\A d \in calls' : d.row <= top)
         /\ Awaiting' /\ Young'
<1> USE DEF IInv
<1>1. /\ c \in Call /\ c.row \in Row /\ c.row \in 0..N /\ c.row <= top
      /\ calls' \subseteq calls
  BY KindType DEF TypeOK, Call, Rows, Row
<1>2. CASE ~Waited(c)
  <2>1. UNCHANGED <<now, top, arrival, file, clark, faults, bridge, batch, mark>>
    BY <1>2 DEF Answer
  <2> QED  BY <1>1, <2>1 DEF Answer, TypeOK, Rows, Awaiting, Young, Waited
<1>3. CASE Waited(c)
  <2>1. \A d \in calls' : ~Waited(d)  BY <1>3 DEF Awaiting
  <2>2. /\ bridge' \in {"idle", "persist"} /\ batch' \subseteq batch /\ mark' \in {mark, c.row}
        /\ UNCHANGED <<now, top, arrival, file, clark, faults>>
    BY <1>3 DEF Answer
  <2> QED  BY <1>1, <2>1, <2>2 DEF Answer, TypeOK, Rows, Awaiting, Young
<1> QED  BY <1>2, <1>3

\* A request goes one stage on.
LEMMA MoveIs ==
  ASSUME IInv, NEW c \in calls, NEW d \in Call,
         d.row = c.row, d.lost = c.lost, calls' = (calls \ {c}) \cup {d},
         UNCHANGED <<top, bridge, batch, mark, file>>
  PROVE  /\ calls' \subseteq Call /\ Awaiting'
         /\ mark' <= top' /\ file' <= top' /\ (\A b \in batch' : b <= top')
         /\ \A e \in calls' : e.row <= top'
BY DEF IInv, TypeOK, Rows, Awaiting, Waited

LEMMA ValidateInv == ASSUME IInv, NEW c \in calls, Validate(c) PROVE IInv'
<1> USE DEF IInv
<1>1. c \in Call /\ c.row \in Row /\ c.pc = "arrived" /\ UNCHANGED <<dedup, entered, refused>>
  BY DEF Validate, TypeOK, Call
<1>2. CASE calls' = calls \ {c} /\ \E ok \in BOOLEAN : Answer(c, ok)
  <2>1. /\ UNCHANGED <<now, top, arrival, file, clark, faults>>
        /\ settled' \subseteq Row /\ heard' \subseteq Row /\ calls' \subseteq Call
        /\ bridge' \in {"down", "idle", "scanning", "waiting", "persist"}
        /\ batch' \subseteq Row /\ mark' \in 0..N
        /\ mark' <= top /\ (\A b \in batch' : b <= top) /\ (\A d \in calls' : d.row <= top)
        /\ Awaiting' /\ Young'
    BY <1>2, AnswerIs
  <2>2. TypeOK'  BY <1>1, <2>1 DEF TypeOK
  <2>3. Rows'  BY <1>1, <2>1 DEF Rows, Seen
  <2>4. Once'  BY <1>1, <1>2, <2>1 DEF Once, Barred, Seen
  <2> QED  BY <2>1, <2>2, <2>3, <2>4
<1>3. CASE /\ ~Stale(c.row)
           /\ calls' = (calls \ {c}) \cup {[c EXCEPT !.pc = "normalize", !.at = now]}
           /\ UNCHANGED <<now, top, arrival, bridgeVars, clark, settled, heard, faults>>
  <2> DEFINE d == [c EXCEPT !.pc = "normalize", !.at = now]
  <2>1. d \in Call /\ d.row = c.row /\ d.lost = c.lost /\ d.pc = "normalize" /\ d.at = now
    BY <1>1 DEF Call, CallPC, TypeOK
  <2>2. calls' = (calls \ {c}) \cup {d}  BY <1>3
  <2> HIDE DEF d
  <2>3. /\ calls' \subseteq Call /\ Awaiting'
        /\ mark' <= top' /\ file' <= top' /\ (\A b \in batch' : b <= top')
        /\ \A e \in calls' : e.row <= top'
    BY <1>3, <2>1, <2>2, MoveIs DEF bridgeVars
  <2>4. TypeOK' /\ Rows'  BY <1>1, <1>3, <2>3 DEF TypeOK, Rows, Seen, bridgeVars
  <2>5. now <= arrival[c.row] + MaxAge /\ now <= now + NormalizeMax
    BY <1>1, <1>3, TimesType DEF Stale, TypeOK, Row
  <2>6. Young'  BY <1>3, <2>1, <2>2, <2>5 DEF Young
  <2>7. Once'  BY <1>1, <1>3, <2>1, <2>2 DEF Once, Past, Barred, Seen
  <2> QED  BY <2>3, <2>4, <2>6, <2>7
<1> QED  BY <1>2, <1>3 DEF Validate

LEMMA RememberInv == ASSUME IInv, NEW c \in calls, Remember(c) PROVE IInv'
<1> USE DEF IInv
<1>1. /\ c \in Call /\ c.row \in Row /\ c.pc = "normalize" /\ c.row <= top
      /\ UNCHANGED <<entered, refused>>
  BY DEF Remember, TypeOK, Call, Rows
<1>2. CASE calls' = calls \ {c} /\ Answer(c, TRUE) /\ UNCHANGED dedup
  <2>1. /\ UNCHANGED <<now, top, arrival, file, clark, faults>>
        /\ settled' \subseteq Row /\ heard' \subseteq Row /\ calls' \subseteq Call
        /\ bridge' \in {"down", "idle", "scanning", "waiting", "persist"}
        /\ batch' \subseteq Row /\ mark' \in 0..N
        /\ mark' <= top /\ (\A b \in batch' : b <= top) /\ (\A d \in calls' : d.row <= top)
        /\ Awaiting' /\ Young'
    BY <1>2, AnswerIs
  <2>2. TypeOK'  BY <1>1, <1>2, <2>1 DEF TypeOK
  <2>3. Rows'  BY <1>1, <1>2, <2>1 DEF Rows, Seen
  <2>4. Once'  BY <1>1, <1>2, <2>1 DEF Once, Barred, Seen
  <2> QED  BY <2>1, <2>2, <2>3, <2>4
<1>3. CASE /\ ~Seen(c.row)
           /\ calls' = (calls \ {c}) \cup {[c EXCEPT !.pc = "evict"]}
           /\ dedup' = [dedup EXCEPT ![c.row] = now]
           /\ UNCHANGED <<now, top, arrival, bridgeVars, clark, settled, heard, faults>>
  <2> DEFINE d == [c EXCEPT !.pc = "evict"]
  <2>1. d \in Call /\ d.row = c.row /\ d.lost = c.lost /\ d.pc = "evict" /\ d.at = c.at
    BY <1>1 DEF Call, CallPC, TypeOK
  <2>2. calls' = (calls \ {c}) \cup {d}  BY <1>3
  <2> HIDE DEF d
  <2>3. /\ calls' \subseteq Call /\ Awaiting'
        /\ mark' <= top' /\ file' <= top' /\ (\A b \in batch' : b <= top')
        /\ \A e \in calls' : e.row <= top'
    BY <1>3, <2>1, <2>2, MoveIs DEF bridgeVars
  <2>4. /\ dedup'[c.row] = now /\ now # NoTime
        /\ \A r \in Row : r # c.row => dedup'[r] = dedup[r]
    BY <1>1, <1>3, TimesType DEF TypeOK
  <2>5. TypeOK'  BY <1>1, <1>3, <2>3 DEF TypeOK, bridgeVars
  <2>6. Rows'  BY <1>1, <1>3, <2>3, <2>4 DEF Rows, Seen
  <2>7. Young'  BY <1>3, <2>1, <2>2 DEF Young
  <2>8. ~Barred(c.row)
    <3>1. c.at <= arrival[c.row] + MaxAge /\ now <= c.at + NormalizeMax  BY <1>1 DEF Young
    <3>2. now <= arrival[c.row] + DedupTTL
      BY <1>1, <3>1, TimesType, DedupLastsLonger DEF TypeOK, Call
    <3> QED  BY <1>1, <1>3, <3>2, TimesType DEF Barred, TypeOK
  <2>9. /\ \A e \in calls : Past(e) => e.row # c.row
        /\ entered[c.row] = 0
    BY <1>1, <2>8 DEF Once
  <2>10. \A r \in Row : Barred(r) => Barred(r)'  BY <1>3, <2>4 DEF Barred, Seen
  <2>11. Barred(c.row)'  BY <2>4, TimesType DEF Barred, Seen
  <2>12. \A r \in Row : arrival'[r] <= now' /\ (Seen(r)' => arrival'[r] <= dedup'[r])
    BY <1>3, <2>4 DEF Once, Seen
  <2>13. \A e \in calls' : Past(e) => entered'[e.row] = 0 /\ Barred(e.row)'
    BY <1>1, <2>1, <2>2, <2>3, <2>9, <2>10, <2>11 DEF Once, Call
  <2>14. \A e, f \in calls' : Past(e) /\ Past(f) /\ e.row = f.row => e = f
    BY <1>1, <2>1, <2>2, <2>9 DEF Once
  <2>15. \A r \in Row : entered'[r] # 0 => entered'[r] = 1 /\ Barred(r)'
    BY <1>1, <2>10 DEF Once
  <2> QED  BY <2>3, <2>5, <2>6, <2>7, <2>12, <2>13, <2>14, <2>15 DEF Once
<1> QED  BY <1>2, <1>3 DEF Remember

LEMMA EvictInv == ASSUME IInv, NEW c \in calls, Evict(c) PROVE IInv'
<1> USE DEF IInv
<1> DEFINE d == [c EXCEPT !.pc = "handling"]
<1>1. /\ c \in Call /\ c.row \in Row /\ c.pc = "evict"
      /\ d \in Call /\ d.row = c.row /\ d.lost = c.lost /\ d.pc = "handling"
  BY DEF Evict, TypeOK, Call, CallPC
<1>2. /\ calls' = (calls \ {c}) \cup {d}
      /\ dedup' = [r \in Row |->
           IF Seen(r) /\ dedup[r] + DedupTTL < now THEN NoTime ELSE dedup[r]]
      /\ UNCHANGED <<now, top, arrival, bridgeVars, clark, histVars, faults>>
  BY DEF Evict
<1> HIDE DEF d
<1>3. /\ calls' \subseteq Call /\ Awaiting'
      /\ mark' <= top' /\ file' <= top' /\ (\A b \in batch' : b <= top')
      /\ \A e \in calls' : e.row <= top'
  BY <1>1, <1>2, MoveIs DEF bridgeVars
<1>4. TypeOK' /\ Rows' /\ Young'
  BY <1>1, <1>2, <1>3 DEF TypeOK, Rows, Young, Seen, bridgeVars, histVars
<1>5. \A r \in Row : Seen(r)' => Seen(r) /\ dedup'[r] = dedup[r]
  BY <1>2 DEF Seen
<1>6. ASSUME NEW r \in Row, Barred(r) PROVE Barred(r)'
  <2>1. CASE Seen(r) /\ dedup[r] + DedupTTL < now
    BY <1>2, <2>1, TimesType DEF Barred, Once, Seen, TypeOK
  <2>2. CASE ~(Seen(r) /\ dedup[r] + DedupTTL < now)
    BY <1>2, <1>6, <2>2 DEF Barred, Seen
  <2> QED  BY <2>1, <2>2
<1>7. Once'
  BY <1>1, <1>2, <1>3, <1>5, <1>6 DEF Once, Past, Call, histVars
<1> QED  BY <1>3, <1>4, <1>7

LEMMA EnterInv == ASSUME IInv, NEW c \in calls, Enter(c) PROVE IInv'
<1> USE DEF IInv
<1>1. /\ c \in Call /\ c.row \in Row /\ c.pc = "handling" /\ c.row <= top
      /\ calls' = calls \ {c} /\ Answer(c, TRUE) /\ UNCHANGED dedup
      /\ refused' \subseteq Row
      /\ entered' \in {entered, [entered EXCEPT ![c.row] = @ + 1]}
  <2>1. c \in Call /\ c.row \in Row /\ c.row <= top  BY DEF TypeOK, Call, Rows
  <2>2. CASE clark = "up"  BY <2>1, <2>2 DEF Enter, TypeOK
  <2>3. CASE clark # "up"  BY <2>1, <2>3 DEF Enter, TypeOK
  <2> QED  BY <2>1, <2>2, <2>3
<1>2. /\ UNCHANGED <<now, top, arrival, file, clark, faults>>
      /\ settled' \subseteq Row /\ heard' \subseteq Row /\ calls' \subseteq Call
      /\ bridge' \in {"down", "idle", "scanning", "waiting", "persist"}
      /\ batch' \subseteq Row /\ mark' \in 0..N
      /\ mark' <= top /\ (\A b \in batch' : b <= top) /\ (\A d \in calls' : d.row <= top)
      /\ Awaiting' /\ Young'
  BY <1>1, AnswerIs
<1>3. /\ entered[c.row] = 0 /\ Barred(c.row)
      /\ \A e \in calls' : Past(e) => e.row # c.row
  BY <1>1 DEF Once, Past
<1>4. /\ entered'[c.row] \in {0, 1}
      /\ \A r \in Row : r # c.row => entered'[r] = entered[r]
  BY <1>1, <1>3 DEF TypeOK
<1>5. TypeOK'
  <2>1. entered' \in [Row -> Nat]  BY <1>1 DEF TypeOK
  <2> QED  BY <1>1, <1>2, <2>1 DEF TypeOK
<1>6. Rows'  BY <1>1, <1>2, <1>4 DEF Rows, Seen
<1>7. \A r \in Row : Barred(r)' <=> Barred(r)  BY <1>1, <1>2 DEF Barred, Seen
<1>8. Once'  BY <1>1, <1>2, <1>3, <1>4, <1>7 DEF Once, Seen, Call, TypeOK
<1> QED  BY <1>2, <1>5, <1>6, <1>8

\* Clark closes, dies or starts.
LEMMA ClarkInv == ASSUME IInv, ClarkClose \/ ClarkEnd \/ ClarkStart PROVE IInv'
<1> USE DEF IInv
<1>1. CASE ClarkEnd
  <2>1. /\ clark' = "down" /\ calls' = {} /\ dedup' = [r \in Row |-> NoTime]
        /\ entered' = [r \in Row |-> 0]
        /\ \/ bridge' = "idle" /\ batch' = {}
           \/ UNCHANGED <<bridge, batch>>
        /\ UNCHANGED <<now, top, arrival, mark, file, settled, heard, refused>>
    BY <1>1 DEF ClarkEnd
  <2>2. faults' \in 0..MaxFaults  BY <1>1, TimesType DEF ClarkEnd, Fault, TypeOK
  <2> QED  BY <2>1, <2>2, KindType DEF TypeOK, Rows, Awaiting, Young, Once, Seen, Call, Row
<1>2. CASE ClarkClose \/ ClarkStart
  <2>1. /\ clark' \in {"up", "closing"}
        /\ UNCHANGED <<now, top, arrival, bridgeVars, calls, dedup, histVars>>
    BY <1>2 DEF ClarkClose, ClarkStart
  <2>2. faults' \in 0..MaxFaults
    BY <1>2, TimesType DEF ClarkClose, ClarkStart, Fault, TypeOK
  <2> QED
    BY <2>1, <2>2 DEF TypeOK, Rows, Awaiting, Young, Once, Barred, Seen, bridgeVars, histVars
<1> QED  BY <1>1, <1>2

LEMMA InvStep == IInv /\ [Next]_vars => IInv'
<1> SUFFICES ASSUME IInv, [Next]_vars PROVE IInv'  OBVIOUS
<1>1. CASE Serve
  BY <1>1, ValidateInv, RememberInv, EvictInv, EnterInv DEF Serve
<1>2. CASE UNCHANGED vars
  BY <1>2 DEF IInv, TypeOK, Rows, Awaiting, Young, Once, Barred, Seen, vars, bridgeVars,
              clarkVars, histVars
<1> QED
  BY <1>1, <1>2, ArriveInv, TickInv, BridgeStartInv, ScanInv, PostInv, PostFailsInv,
     GiveUpInv, PersistInv, ClarkInv DEF Next

-----------------------------------------------------------------------------
(* nothing is skipped *)

LEMMA InitSkip == History > 0 /\ Init => SInv
BY HistoryType, KindType
   DEF Init, SInv, Marked, NothingSkipped, Complete, Behind, Wanted, Seen, Row

\* A step that leaves chat.db, the watermark and its file, the batch and the
\* requests' rows, and lets the dedup learn nothing.
LEMMA QuietSkip ==
  ASSUME SInv, UNCHANGED <<top, bridge, batch, mark, file>>, settled \subseteq settled',
         \A d \in calls' : \E c \in calls : c.row = d.row,
         \A r \in Row : Seen(r)' => Seen(r)
  PROVE  SInv'
<1>1. Wanted' = Wanted  BY DEF Wanted
<1> QED  BY <1>1 DEF SInv, Marked, NothingSkipped, Complete, Behind

LEMMA ArriveSkip == ASSUME IInv, SInv, Arrive PROVE SInv'
<1>1. /\ top' = top + 1
      /\ UNCHANGED <<bridge, batch, mark, file, calls, dedup, settled>>
  BY DEF Arrive, bridgeVars, clarkVars, histVars
<1>2. /\ top \in Nat /\ (\A b \in batch : b \in Nat) /\ (\A c \in calls : c.row \in Nat)
      /\ \A r \in Row : r \in Nat
  BY KindType DEF IInv, TypeOK, Call, Row
<1>3. \A r \in Wanted' : r \in Wanted \/ r > top
  BY <1>1, <1>2 DEF Wanted
<1>4. Marked' /\ NothingSkipped'
  <2>1. mark \in Nat /\ file \in Nat /\ mark <= top /\ file <= top
    BY KindType DEF IInv, TypeOK, Rows
  <2>2. \A r \in Wanted' : r \in Nat  BY <1>2 DEF Wanted
  <2> QED  BY <1>1, <1>2, <1>3, <2>1, <2>2 DEF SInv, Marked, NothingSkipped
<1>5. Complete'
  <2>1. \A b \in batch : b <= top  BY DEF IInv, Rows
  <2>2. \A r \in Wanted' : r \in Nat  BY <1>2 DEF Wanted
  <2>3. \A r \in Wanted' : r \in Wanted \/ \A b \in batch : b < r
    BY <1>2, <1>3, <2>1, <2>2
  <2> QED  BY <1>1, <2>3 DEF SInv, Complete
<1>6. Behind'
  BY <1>1, <1>2, <1>3 DEF SInv, Behind, IInv, Rows, Seen, Wanted
<1> QED  BY <1>4, <1>5, <1>6 DEF SInv

LEMMA ScanSkip == ASSUME IInv, SInv, Scan PROVE SInv'
<1>1. /\ bridge' = "scanning" /\ bridge = "idle" /\ batch' = Selected
      /\ UNCHANGED <<top, mark, file, calls, dedup, settled>>
  BY DEF Scan, clarkVars, histVars
<1>2. Wanted' = Wanted  BY <1>1 DEF Wanted
<1> QED
  BY <1>1, <1>2 DEF SInv, Marked, NothingSkipped, Complete, Behind, Seen, Selected, Wanted

LEMMA PostSkip == ASSUME IInv, SInv, Post PROVE SInv'
<1> DEFINE r == Lowest(batch)
           c == [row |-> r, pc |-> "arrived", at |-> now, lost |-> 0]
<1>1. /\ bridge = "scanning" /\ bridge' = "waiting" /\ calls' = calls \cup {c}
      /\ UNCHANGED <<top, batch, mark, file, dedup, settled>>
  BY DEF Post, histVars
<1>2. r \in batch /\ (\A q \in batch : r <= q)
  BY <1>1, LowestIs DEF Awaiting, TypeOK, IInv
<1>3. c.row = r  OBVIOUS
<1> HIDE DEF c, r
<1>4. Wanted' = Wanted  BY <1>1 DEF Wanted
<1>5. ASSUME NEW q \in Wanted, q < r PROVE q \in settled
  <2>1. q \in Nat /\ r \in Nat /\ mark \in Nat
    BY <1>2, KindType DEF Wanted, Row, IInv, TypeOK
  <2>2. CASE q <= mark  BY <2>2 DEF SInv, NothingSkipped
  <2>3. CASE mark < q
    <3>1. q \in batch \/ r < q  BY <1>1, <1>2, <2>3 DEF SInv, Complete
    <3> QED  BY <3>1, <1>2, <1>5, <2>1
  <2> QED  BY <2>1, <2>2, <2>3
<1> QED
  BY <1>1, <1>3, <1>4, <1>5 DEF SInv, Marked, NothingSkipped, Complete, Behind, Seen

\* The watcher starts, or gives the scan up, or has saved the watermark.
LEMMA WatcherSkip ==
  ASSUME IInv, SInv, BridgeStart \/ PostFails \/ Timeout \/ BridgeCrash \/ Persist
  PROVE  SInv'
<1>1. UNCHANGED <<top, dedup, settled>>
  BY DEF BridgeStart, PostFails, Timeout, BridgeCrash, Persist, clarkVars, histVars
<1>2. \A d \in calls' : \E c \in calls : c.row = d.row
  <2>1. CASE BridgeStart \/ PostFails \/ Persist
    BY <2>1 DEF BridgeStart, PostFails, Persist, clarkVars
  <2>2. CASE Timeout \/ BridgeCrash
    <3>1. faults' \in 1..MaxFaults /\ calls' = Unwaited
      BY <2>2, TimesType DEF Timeout, BridgeCrash, Fault, IInv, TypeOK
    <3> QED  BY <3>1, UnwaitedIs
  <2> QED  BY <2>1, <2>2
<1>3. Wanted' = Wanted /\ Behind'  BY <1>1, <1>2 DEF Wanted, SInv, Behind, Seen
<1>4. Wanted \subseteq Nat \ {0} /\ mark \in Nat /\ file \in Nat
  BY KindType DEF Wanted, Row, IInv, TypeOK
<1>5. CASE BridgeStart \/ PostFails \/ Timeout \/ BridgeCrash
  <2>1. /\ bridge' \in {"idle", "down"} /\ file' = file
        /\ \/ bridge' = "idle" /\ mark' \in {mark, file} /\ mark' > 0
           \/ bridge' = "down" /\ mark' = 0
    BY <1>5 DEF BridgeStart, PostFails, Timeout, BridgeCrash, SInv, Marked
  <2> QED  BY <1>1, <1>3, <1>4, <2>1 DEF SInv, Marked, NothingSkipped, Complete
<1>6. CASE Persist
  <2>1. /\ bridge = "persist" /\ bridge' \in {"idle", "scanning"} /\ file' \in {mark, file}
        /\ UNCHANGED <<batch, mark>>
    BY <1>6 DEF Persist
  <2> QED  BY <1>1, <1>3, <2>1 DEF SInv, Marked, NothingSkipped, Complete
<1> QED  BY <1>5, <1>6

\* Clark answers: the watermark moves over a row whose predecessors are settled.
LEMMA AnswerSkip ==
  ASSUME IInv, SInv, NEW c \in calls, NEW ok \in BOOLEAN, Answer(c, ok), calls' = calls \ {c},
         UNCHANGED dedup
  PROVE  SInv'
<1>1. UNCHANGED <<top, file>> /\ settled \subseteq settled'  BY DEF Answer
<1>2. CASE ~Waited(c)
  BY <1>1, <1>2, QuietSkip DEF Answer, Seen
<1>3. CASE Waited(c) /\ ~ok
  <2>1. bridge' = "idle" /\ mark' = mark /\ bridge = "waiting"
    BY <1>3 DEF Answer, IInv, Awaiting
  <2> QED
    BY <1>1, <2>1 DEF SInv, Marked, NothingSkipped, Complete, Behind, Wanted, Seen
<1>4. CASE Waited(c) /\ ok
  <2>1. /\ bridge' = "persist" /\ mark' = c.row /\ batch' = batch \ {c.row}
        /\ settled' = settled \cup {c.row}
    BY <1>4 DEF Answer
  <2>2. /\ bridge = "waiting" /\ c.row \in batch /\ \A b \in batch : c.row <= b
    BY <1>4 DEF IInv, Awaiting
  <2>3. /\ Wanted' = Wanted /\ mark \in Nat /\ file \in Nat /\ c.row \in Nat /\ c.row > 0
        /\ (\A r \in Wanted : r \in Nat) /\ (\A b \in batch : b \in Nat)
    <3>1. Wanted' = Wanted  BY <1>1 DEF Wanted
    <3>2. batch \subseteq Row /\ mark \in 0..N /\ file \in 0..N  BY DEF IInv, TypeOK
    <3>3. \A r \in Row : r \in Nat /\ r > 0  BY KindType DEF Row
    <3>4. \A r \in Wanted : r \in Row  BY DEF Wanted
    <3> QED  BY <2>2, <3>1, <3>2, <3>3, <3>4, KindType
  <2>4. Marked'  BY <1>1, <2>1, <2>2, <2>3 DEF SInv, Marked
  <2>5. NothingSkipped'
    <3>1. ASSUME NEW r \in Wanted, r <= c.row \/ r <= file PROVE r \in settled'
      <4>1. CASE r <= file  BY <1>1, <4>1 DEF SInv, NothingSkipped
      <4>2. CASE r < c.row  BY <1>1, <4>2 DEF SInv, Behind
      <4>3. CASE r = c.row  BY <2>1, <4>3
      <4> QED  BY <2>3, <3>1, <4>1, <4>2, <4>3
    <3>2. \A r \in Wanted' : r \in Wanted /\ (r <= mark' \/ r <= file' => r \in settled')
      BY <1>1, <2>1, <2>3, <3>1
    <3> QED  BY <3>2 DEF NothingSkipped
  <2>6. Complete'
    <3>1. mark < c.row  BY <2>2 DEF SInv, Complete
    <3>2. \A r \in Wanted : c.row < r => r \in batch \/ \A b \in batch : b < r
      BY <2>2, <2>3, <3>1 DEF SInv, Complete
    <3> QED  BY <2>1, <2>2, <2>3, <3>2 DEF Complete
  <2>7. Behind'  BY <1>1, <2>3 DEF SInv, Behind, Seen
  <2> QED  BY <2>4, <2>5, <2>6, <2>7 DEF SInv
<1> QED  BY <1>2, <1>3, <1>4

LEMMA ServeSkip == ASSUME IInv, SInv, Serve PROVE SInv'
<1>1. PICK c \in calls : Validate(c) \/ Remember(c) \/ Evict(c) \/ Enter(c)
  BY DEF Serve
<1>2. c \in Call /\ c.row \in Row  BY DEF IInv, TypeOK, Call
<1>3. CASE Validate(c)
  <2>1. UNCHANGED dedup  BY <1>3 DEF Validate
  <2>2. CASE calls' = calls \ {c} /\ \E ok \in BOOLEAN : Answer(c, ok)
    BY <2>1, <2>2, AnswerSkip
  <2>3. CASE /\ calls' = (calls \ {c}) \cup {[c EXCEPT !.pc = "normalize", !.at = now]}
             /\ UNCHANGED <<top, bridgeVars, settled>>
    <3>1. [c EXCEPT !.pc = "normalize", !.at = now].row = c.row  BY <1>2 DEF Call
    <3> QED  BY <2>1, <2>3, <3>1, QuietSkip DEF Seen, bridgeVars
  <2> QED  BY <1>3, <2>2, <2>3 DEF Validate
<1>4. CASE Remember(c)
  <2>1. CASE calls' = calls \ {c} /\ Answer(c, TRUE) /\ UNCHANGED dedup
    BY <2>1, AnswerSkip
  <2>2. CASE /\ calls' = (calls \ {c}) \cup {[c EXCEPT !.pc = "evict"]}
             /\ dedup' = [dedup EXCEPT ![c.row] = now]
             /\ UNCHANGED <<top, bridgeVars, settled>>
    <3>1. \A d \in calls' : \E e \in calls : e.row = d.row  BY <1>2, <2>2 DEF Call
    <3>2. \A r \in Row : Seen(r)' => Seen(r) \/ r = c.row
      BY <2>2 DEF Seen, IInv, TypeOK
    <3> QED
      BY <2>2, <3>1, <3>2
         DEF SInv, Marked, NothingSkipped, Complete, Behind, Wanted, bridgeVars
  <2> QED  BY <1>4, <2>1, <2>2 DEF Remember
<1>5. CASE Evict(c)
  <2>1. /\ calls' = (calls \ {c}) \cup {[c EXCEPT !.pc = "handling"]}
        /\ UNCHANGED <<top, bridge, batch, mark, file, settled>>
    BY <1>5 DEF Evict, bridgeVars, histVars
  <2>2. [c EXCEPT !.pc = "handling"].row = c.row  BY <1>2 DEF Call
  <2>3. \A r \in Row : Seen(r)' => Seen(r)  BY <1>5 DEF Evict, Seen
  <2> QED  BY <2>1, <2>2, <2>3, QuietSkip
<1>6. CASE Enter(c)
  BY <1>6, AnswerSkip DEF Enter
<1> QED  BY <1>1, <1>3, <1>4, <1>5, <1>6

LEMMA ClarkSkip == ASSUME IInv, SInv, Tick \/ ClarkClose \/ ClarkEnd \/ ClarkStart PROVE SInv'
<1>1. CASE ClarkEnd
  <2>1. /\ calls' = {} /\ dedup' = [r \in Row |-> NoTime]
        /\ \/ bridge = "waiting" /\ bridge' = "idle"
           \/ UNCHANGED <<bridge, batch>>
        /\ UNCHANGED <<top, mark, file, settled>>
    BY <1>1 DEF ClarkEnd
  <2> QED
    BY <2>1 DEF SInv, Marked, NothingSkipped, Complete, Behind, Wanted, Seen
<1>2. CASE Tick \/ ClarkClose \/ ClarkStart
  <2>1. UNCHANGED <<top, bridge, batch, mark, file, calls, dedup, settled>>
    BY <1>2 DEF Tick, ClarkClose, ClarkStart, bridgeVars, clarkVars, histVars
  <2> QED  BY <2>1, QuietSkip DEF Seen
<1> QED  BY <1>1, <1>2

LEMMA SkipStep == IInv /\ SInv /\ [Next]_vars => SInv'
<1> SUFFICES ASSUME IInv, SInv, [Next]_vars PROVE SInv'  OBVIOUS
<1>1. CASE UNCHANGED vars
  BY <1>1, QuietSkip DEF vars, bridgeVars, clarkVars, histVars, Seen
<1> QED
  BY <1>1, ArriveSkip, ScanSkip, PostSkip, WatcherSkip, ServeSkip, ClarkSkip DEF Next

-----------------------------------------------------------------------------
(* the theorems *)

\* The inductive invariant holds in every reachable state, whatever crashes,
\* times out or is lost.
THEOREM Invariance == SafeSpec => []IInv
<1>1. Init => IInv  BY InitInv
<1>2. IInv /\ [Next]_vars => IInv'  BY InvStep
<1> QED  BY <1>1, <1>2, PTL DEF SafeSpec

THEOREM TypeCorrect == SafeSpec => []TypeOK
<1>1. IInv => TypeOK  BY DEF IInv
<1> QED  BY <1>1, Invariance, PTL

\* One run of clark lets a row into the pipeline once at most, for every number
\* of rows, crashes, timeouts and lost answers, as long as the dedup outlasts
\* the staleness limit and a media normalisation together.
THEOREM EnteredOnlyOnce == SafeSpec => []EnteredOnce
<1>1. IInv => EnteredOnce  BY DEF IInv, TypeOK, Once, EnteredOnce
<1> QED  BY <1>1, Invariance, PTL

\* The watermark never passes a row clark has not answered, in memory or in the
\* state file, once the first start has left a positive watermark there.
THEOREM NoneSkipped == ASSUME History > 0 PROVE SafeSpec => []NothingSkipped
<1>1. Init => SInv  BY InitSkip
<1>2. IInv /\ SInv /\ [Next]_vars => SInv'  BY SkipStep
<1>3. SInv => NothingSkipped  BY DEF SInv
<1> QED  BY <1>1, <1>2, <1>3, Invariance, PTL DEF SafeSpec

\* Rows are let past the handler's dedup in ROWID order.
THEOREM SeenOrder == ASSUME History > 0 PROVE SafeSpec => []SeenInOrder
<1>1. Init => SInv  BY InitSkip
<1>2. IInv /\ SInv /\ [Next]_vars => SInv'  BY SkipStep
<1>3. SInv => SeenInOrder  BY DEF SInv, Behind, SeenInOrder, Wanted
<1> QED  BY <1>1, <1>2, <1>3, Invariance, PTL DEF SafeSpec

=============================================================================
