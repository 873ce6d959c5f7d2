--------------------------- MODULE IMessageInbound --------------------------
(***************************************************************************)
(* The inbound iMessage path: the macOS bridge's watcher reads chat.db     *)
(* above a ROWID watermark and POSTs each row to clark, whose bridge       *)
(* server drops stale rows and hands the rest to the gateway handler,      *)
(* which drops ids it has seen.  Both processes crash and restart, POSTs   *)
(* time out while clark still works on them, the watermark file may fail   *)
(* to be written, and clark's orderly exit closes the handler while the    *)
(* server still answers.  The first start of the bridge, which skips the   *)
(* existing chat history, has happened.                                    *)
(*                                                                         *)
(* Time is counted in units of the staleness limit; one fault budget       *)
(* bounds crashes, timeouts and write failures together.                   *)
(***************************************************************************)
EXTENDS Naturals, FiniteSets

CONSTANTS
  N,             \* rows that ever appear in chat.db; ROWIDs are 1..N
  Kind,          \* Kind[r]: what the row is, one of RowKind
  History,       \* rows already there when the bridge is first started
  MaxAge,        \* maxMessageAge, the staleness limit
  NormalizeMax,  \* how long media normalisation may hold a request
  DedupTTL,      \* how long the handler remembers a message id
  MaxTime,       \* bound on the clock
  MaxFaults,     \* bound on crashes, timeouts and write failures
  NoTime         \* "id not remembered"

\* "text": an ordinary message; "self": the Master's own chat; "filtered": a
\* group message, reaction or system row the query leaves out; "nohandle": no
\* handle row, so handle.id is NULL; "unreadable": no text, and attachments
\* that cannot be read.
RowKind == {"text", "self", "filtered", "nohandle", "unreadable"}
Row == 1..N

ASSUME KindType == N \in Nat /\ Kind \in [Row -> RowKind]
ASSUME HistoryType == History \in 0..N
ASSUME TimesType ==
  /\ {MaxAge, NormalizeMax, DedupTTL, MaxTime, MaxFaults} \subseteq Nat
  /\ NoTime \notin Nat
\* 5 minutes and 45 seconds against 10 minutes.
ASSUME DedupLastsLonger == MaxAge + NormalizeMax <= DedupTTL

VARIABLES
  now,       \* the clock
  top,       \* highest ROWID in chat.db
  arrival,   \* when each row appeared
  bridge,    \* the watcher: "down", "idle", "scanning", "waiting", "persist"
  batch,     \* rows of the current scan still to forward
  mark,      \* w.lastRowID
  file,      \* the state file's last_row_id; 0 when there is none
  clark,     \* clark's process: "up", "closing" (handler closed) or "down"
  calls,     \* requests clark is working on
  dedup,     \* h.dedup: when each row's id was first seen
  entered,   \* history: times each row entered the pipeline, this clark run
  settled,   \* history: rows clark answered with 200
  heard,     \* history: rows whose 200 reached the bridge
  refused,   \* history: rows answered 200 by a closed handler and not taken
  faults

bridgeVars == <<bridge, batch, mark, file>>
clarkVars == <<clark, calls, dedup>>
histVars == <<entered, settled, heard, refused>>
vars == <<now, top, arrival, bridgeVars, clarkVars, histVars, faults>>

\* A request: where it stands and since when, and by which fault the bridge has
\* given it up, 0 while it waits for the answer; so no two requests are equal.
CallPC == {"arrived", "normalize", "evict", "handling"}
Call == [row : Row, pc : CallPC, at : 0..MaxTime, lost : 0..MaxFaults]
Waited(c) == c.lost = 0

\* Rows queryNewMessages returns: inbound direct messages above the watermark.
Selected == {r \in Row : mark < r /\ r <= top /\ Kind[r] # "filtered"}
Lowest(S) == CHOOSE r \in S : \A q \in S : r <= q

Init ==
  /\ now = 0
  /\ top = History
  /\ arrival = [r \in Row |-> 0]
  /\ bridge = "idle" /\ batch = {} /\ mark = History /\ file = History
  /\ clark = "up" /\ calls = {} /\ dedup = [r \in Row |-> NoTime]
  /\ entered = [r \in Row |-> 0]
  /\ settled = {}
  /\ heard = {}
  /\ refused = {}
  /\ faults = 0

-----------------------------------------------------------------------------
(* environment *)

Arrive ==
  /\ top < N
  /\ top' = top + 1
  /\ arrival' = [arrival EXCEPT ![top + 1] = now]
  /\ UNCHANGED <<now, bridgeVars, clarkVars, histVars, faults>>

\* Media normalisation runs under its own timeout.
Tick ==
  /\ now < MaxTime
  /\ \A c \in calls : c.pc = "normalize" => now < c.at + NormalizeMax
  /\ now' = now + 1
  /\ UNCHANGED <<top, arrival, bridgeVars, clarkVars, histVars, faults>>

Fault == faults < MaxFaults /\ faults' = faults + 1

-----------------------------------------------------------------------------
(* the bridge's watcher *)

\* bootstrap: a positive watermark is loaded; anything else counts as missing
\* and the watermark jumps to the current end of the table.
BridgeStart ==
  /\ bridge = "down"
  /\ mark' = IF file > 0 THEN file ELSE top
  /\ file' = mark'
  /\ bridge' = "idle"
  /\ UNCHANGED <<now, top, arrival, batch, clarkVars, histVars, faults>>

\* scanOnce runs the query; scanning a NULL handle into a string fails, and
\* then the whole query returns an error and nothing is forwarded.
Scan ==
  /\ bridge = "idle"
  /\ Selected # {}
  /\ \A r \in Selected : Kind[r] # "nohandle"
  /\ bridge' = "scanning"
  /\ batch' = Selected
  /\ UNCHANGED <<now, top, arrival, mark, file, clarkVars, histVars, faults>>

\* Mutant. The watermark advances before clark has answered.
PostAdvancing ==
  /\ bridge = "scanning"
  /\ clark # "down"
  /\ calls' = calls \cup
       {[row |-> Lowest(batch), pc |-> "arrived", at |-> now, lost |-> 0]}
  /\ mark' = Lowest(batch)
  /\ bridge' = "waiting"
  /\ UNCHANGED <<now, top, arrival, batch, file, clark, dedup, histVars, faults>>

\* PostInbound for the next row of the batch.
Post ==
  /\ bridge = "scanning"
  /\ clark # "down"
  /\ calls' = calls \cup
       {[row |-> Lowest(batch), pc |-> "arrived", at |-> now, lost |-> 0]}
  /\ bridge' = "waiting"
  /\ UNCHANGED <<now, top, arrival, batch, mark, file, clark, dedup, histVars, faults>>

\* The POST cannot reach clark: the scan ends, the next tick starts again.
PostFails ==
  /\ bridge = "scanning"
  /\ clark = "down"
  /\ bridge' = "idle"
  /\ batch' = {}
  /\ UNCHANGED <<now, top, arrival, mark, file, clarkVars, histVars, faults>>

\* What becomes of the requests when the bridge no longer waits.
Unwaited == {IF Waited(c) THEN [c EXCEPT !.lost = faults'] ELSE c : c \in calls}

\* The HTTP client gives up after 45 s; clark does not notice.
Timeout ==
  /\ Fault
  /\ bridge = "waiting"
  /\ bridge' = "idle"
  /\ batch' = {}
  /\ calls' = Unwaited
  /\ UNCHANGED <<now, top, arrival, mark, file, clark, dedup, histVars>>

\* The watermark was advanced in memory; write the state file, then go on
\* with the batch.  A failed write is logged and the scan goes on.
Persist ==
  /\ bridge = "persist"
  /\ \/ file' = mark /\ UNCHANGED faults
     \/ file' = file /\ Fault
  /\ bridge' = IF batch = {} THEN "idle" ELSE "scanning"
  /\ UNCHANGED <<now, top, arrival, batch, mark, clarkVars, histVars>>

BridgeCrash ==
  /\ Fault
  /\ bridge # "down"
  /\ bridge' = "down"
  /\ batch' = {}
  /\ mark' = 0
  /\ calls' = Unwaited
  /\ UNCHANGED <<now, top, arrival, file, clark, dedup, histVars>>

-----------------------------------------------------------------------------
(* clark's bridge server and the gateway's dedup *)

\* The answer reaches the bridge if it still waits: 200 advances the
\* watermark, anything else ends the scan.
Answer(c, ok) ==
  /\ settled' = IF ok THEN settled \cup {c.row} ELSE settled
  /\ heard' = IF ok /\ Waited(c) THEN heard \cup {c.row} ELSE heard
  /\ IF ~Waited(c) THEN UNCHANGED <<bridge, batch, mark>>
     ELSE IF ok
       THEN /\ bridge' = "persist"
            /\ mark' = c.row
            /\ batch' = batch \ {c.row}
       ELSE /\ bridge' = "idle"
            /\ batch' = {}
            /\ UNCHANGED mark
  /\ UNCHANGED <<now, top, arrival, file, clark, faults>>

\* Mutant. The staleness guard is gone: old rows are handed to the pipeline.
StaleNever(r) == FALSE

Stale(r) == now > arrival[r] + MaxAge

\* handleInbound up to the staleness guard.
Validate(c) ==
  /\ c.pc = "arrived"
  /\ IF Kind[c.row] = "unreadable"
     THEN calls' = calls \ {c} /\ Answer(c, FALSE)
     ELSE IF Kind[c.row] = "self" \/ Stale(c.row)
     THEN calls' = calls \ {c} /\ Answer(c, TRUE)
     ELSE /\ calls' = (calls \ {c}) \cup {[c EXCEPT !.pc = "normalize", !.at = now]}
          /\ UNCHANGED <<now, top, arrival, bridgeVars, clark, settled, heard, faults>>
  /\ UNCHANGED <<dedup, entered, refused>>

Seen(r) == dedup[r] # NoTime

\* Handle, first part: a remembered id is dropped, a new one is remembered ...
Remember(c) ==
  /\ c.pc = "normalize"
  /\ IF Seen(c.row)
     THEN calls' = calls \ {c} /\ Answer(c, TRUE) /\ UNCHANGED dedup
     ELSE /\ calls' = (calls \ {c}) \cup {[c EXCEPT !.pc = "evict"]}
          /\ dedup' = [dedup EXCEPT ![c.row] = now]
          /\ UNCHANGED <<now, top, arrival, bridgeVars, clark, settled, heard, faults>>
  /\ UNCHANGED <<entered, refused>>

\* ... and, under the lock a second time, the entries past their time go.
Evict(c) ==
  /\ c.pc = "evict"
  /\ calls' = (calls \ {c}) \cup {[c EXCEPT !.pc = "handling"]}
  /\ dedup' = [r \in Row |->
       IF Seen(r) /\ dedup[r] + DedupTTL < now THEN NoTime ELSE dedup[r]]
  /\ UNCHANGED <<now, top, arrival, bridgeVars, clark, histVars, faults>>

\* Handle, the rest of the pipeline down to enqueue, which a closed
\* dispatcher refuses without telling its caller; 200 either way.
Enter(c) ==
  /\ c.pc = "handling"
  /\ calls' = calls \ {c}
  /\ IF clark = "up"
     THEN entered' = [entered EXCEPT ![c.row] = @ + 1] /\ refused' = refused \ {c.row}
     ELSE refused' = refused \cup {c.row} /\ UNCHANGED entered
  /\ Answer(c, TRUE)
  /\ UNCHANGED dedup

\* An orderly exit: Run closes the handler first, which may take minutes of
\* draining, and shuts the server down when that has returned.
ClarkClose ==
  /\ Fault
  /\ clark = "up"
  /\ clark' = "closing"
  /\ UNCHANGED <<now, top, arrival, bridgeVars, calls, dedup, histVars>>

\* The process ends with what it had in memory: a crash, or the end of an
\* exit, which waits 5 s at most for the requests it still serves.
ClarkEnd ==
  /\ IF clark = "closing" THEN UNCHANGED faults ELSE clark = "up" /\ Fault
  /\ clark' = "down"
  /\ calls' = {}
  /\ dedup' = [r \in Row |-> NoTime]
  /\ entered' = [r \in Row |-> 0]
  /\ IF bridge = "waiting"
     THEN bridge' = "idle" /\ batch' = {}
     ELSE UNCHANGED <<bridge, batch>>
  /\ UNCHANGED <<now, top, arrival, mark, file, settled, heard, refused>>

ClarkStart ==
  /\ clark = "down"
  /\ clark' = "up"
  /\ UNCHANGED <<now, top, arrival, bridgeVars, calls, dedup, histVars, faults>>

-----------------------------------------------------------------------------
Serve == \E c \in calls : Validate(c) \/ Remember(c) \/ Evict(c) \/ Enter(c)

Next ==
  \/ Arrive \/ Tick
  \/ BridgeStart \/ Scan \/ Post \/ PostFails \/ Timeout \/ Persist \/ BridgeCrash
  \/ Serve
  \/ ClarkClose \/ ClarkEnd \/ ClarkStart

\* The watcher's ticker keeps firing, requests are served, and launchd and the
\* container runtime restart what crashed.  A tick that finds clark down only
\* ends the scan, so scanning again is as fair as the ticker.
Fairness ==
  /\ WF_vars(BridgeStart) /\ WF_vars(Scan) /\ WF_vars(Post) /\ WF_vars(PostFails)
  /\ WF_vars(Persist) /\ WF_vars(Serve) /\ WF_vars(ClarkStart)

SafeSpec == Init /\ [][Next]_vars
Spec == SafeSpec /\ Fairness

-----------------------------------------------------------------------------
(* properties *)

TypeOK ==
  /\ now \in 0..MaxTime
  /\ top \in 0..N
  /\ arrival \in [Row -> 0..MaxTime]
  /\ bridge \in {"down", "idle", "scanning", "waiting", "persist"}
  /\ batch \subseteq Row
  /\ mark \in 0..N
  /\ file \in 0..N
  /\ clark \in {"up", "closing", "down"}
  /\ calls \subseteq Call
  /\ dedup \in [Row -> 0..MaxTime \cup {NoTime}]
  /\ entered \in [Row -> Nat]
  /\ settled \subseteq Row
  /\ heard \subseteq Row
  /\ refused \subseteq Row
  /\ faults \in 0..MaxFaults

\* Rows the bridge has to forward once it has been installed.
Wanted == {r \in Row : History < r /\ r <= top /\ Kind[r] # "filtered"}

\* The watermark, in memory and on disk, never passes a row clark has not
\* answered with 200, through crashes of either side, timeouts and lost
\* writes (watcher.go: "advancing it per message only after clark accepts the
\* POST").
NothingSkipped ==
  \A r \in Wanted : (r <= mark \/ r <= file) => r \in settled

\* One run of clark lets a row into the pipeline once, however often the
\* bridge posts it: dedup covers the time a row can be posted before the
\* staleness guard drops it (handler.go, dedup; server.go, maxMessageAge).
EnteredOnce == \A r \in Row : entered[r] <= 1

\* Rows are let past the handler's dedup in ROWID order.
SeenInOrder ==
  \A q, r \in Wanted : q < r /\ Seen(r) /\ Kind[q] = "text" =>
    q \in settled \/ Seen(q)

\* Every row the bridge should forward is answered by clark in the end,
\* whatever crashed, timed out or was lost on the way.
EveryRowSettled ==
  \A r \in Row : r \in Wanted ~> r \in settled

\* watcher.go: "The handle may be empty when the message has no handle row;
\* clark drops such messages, but the watermark still advances so a broken row
\* cannot wedge the poller."
BrokenRowCannotWedge ==
  \A r \in Row : r \in Wanted ~> mark >= r

\* watcher.go: "A failed POST leaves the watermark behind so the message is
\* retried next tick (at-least-once delivery, matching the plan)": a row the
\* bridge is done with has been handed to the pipeline, unless it was stale. No
\* run checks it: it fails while clark closes (README, section 5).
AtLeastOnce == \A r \in heard : r \notin refused

=============================================================================
