------------------------------ MODULE WebChat ------------------------------
(* The conversations of the web console: the session table and the history  *)
(* behind it (store/sessions.go), the REST handlers and the chat turn that  *)
(* read and write them in several separate statements (web/rest.go,         *)
(* web/chat.go), the hub that tells the open consoles of a change, and the  *)
(* sidebar of each console, which picks its conversation from list answers  *)
(* that may arrive in any order (web/static/app.js).                        *)
(*                                                                          *)
(* A session is its id; conversation 0 is the legacy one, jid "web".  Of    *)
(* the messages only the conversations that hold any are kept, and of the   *)
(* order of the list that somebody is first.  Bounds: MaxId sessions ever,  *)
(* MaxCalls requests of a console at once that it does not owe to an answer,*)
(* MaxEvents user actions, failures and missed notices together.            *)
EXTENDS Integers, Sequences, SequencesExt, FiniteSetsExt

CONSTANTS Tab, MaxId, MaxEvents, MaxCalls

ASSUME BoundsAssumption ==
  MaxId \in Nat \ {0} /\ MaxEvents \in Nat /\ MaxCalls \in Nat \ {0}

VARIABLES
  title,    \* the session table: id -> what its title is
  nextId,   \* the AUTOINCREMENT counter
  history,  \* the conversations that hold messages
  notices,  \* per console, "sessions_changed" and "done" frames not handled yet
  at,       \* per console, chatSessionId
  rows,     \* per console, chatSessions: the rows of its sidebar
  calls,    \* per console, its requests in flight, oldest first
  turn,     \* per console, the chat turn of its socket
  events,   \* user actions, failures and missed notices so far
  cut,      \* history: sessions deleted under a turn or an adoption at work
  excused   \* history: consoles that missed a notice, had two list requests in
            \* flight at an answer, or saw a request fail since they last asked

store == <<title, nextId, history>>
server == <<title, nextId, history, notices, cut, turn>>
console == <<at, rows>>
vars == <<title, nextId, history, notices, at, rows, calls, turn,
          events, cut, excused>>

Id == 1..MaxId
Live == DOMAIN title
Titles == {"new", "main", "auto", "named"}
Kinds == {"list", "post", "put", "del"}
Steps == {"ensure", "count", "make", "adopt", "get", "do", "tell", "ok", "error"}

\* A request as the console sends it.
Request(kind, id) ==
  [kind |-> kind, id |-> id, out |-> {}, legacy |-> FALSE,
   step |-> IF kind \in {"list", "post"} THEN "ensure" ELSE "get"]
NoTurn == [step |-> "idle", to |-> 0, saw |-> "new"]

TypeOK ==
  /\ Live \subseteq Id /\ \A i \in Live : title[i] \in Titles
  /\ nextId \in 1..(MaxId + 1)
  /\ history \subseteq Id \cup {0} /\ cut \subseteq Id
  /\ excused \subseteq Tab
  /\ notices \in [Tab -> Nat]
  /\ at \in [Tab -> Id \cup {0}]
  /\ rows \in [Tab -> SUBSET Id]
  /\ \A t \in Tab : \A k \in DOMAIN calls[t] :
       /\ calls[t][k].kind \in Kinds /\ calls[t][k].step \in Steps
       /\ calls[t][k].id \in Id \cup {0} /\ calls[t][k].out \subseteq Id
  /\ \A t \in Tab : /\ turn[t].step \in {"idle", "get", "title", "save", "reply"}
                    /\ turn[t].to \in Id \cup {0} /\ turn[t].saw \in Titles
  /\ events \in 0..MaxEvents

\* Either every console shows the one session there is, or a console opens on
\* an upgraded server, which has no session yet and perhaps a legacy
\* conversation: it asks for the list.
Init ==
  /\ notices = [t \in Tab |-> 0]
  /\ turn = [t \in Tab |-> NoTurn]
  /\ events = 0 /\ cut = {}
  /\ \/ /\ title = [i \in {1} |-> "new"] /\ nextId = 2
        /\ history \in SUBSET {0, 1}
        /\ at = [t \in Tab |-> 1] /\ rows = [t \in Tab |-> {1}]
        /\ calls = [t \in Tab |-> <<>>]
        /\ excused = {}
     \/ /\ title = [i \in {} |-> "new"] /\ nextId = 1
        /\ history \in {{}, {0}}
        /\ at = [t \in Tab |-> 0] /\ rows = [t \in Tab |-> {}]
        /\ \E t \in Tab :
             /\ calls = [u \in Tab |-> IF u = t THEN <<Request("list", 0)>> ELSE <<>>]
             /\ excused = Tab \ {t}

-----------------------------------------------------------------------------
(* The store.                                                               *)

CreateWebSession(name) ==
  /\ nextId <= MaxId
  /\ title' = [i \in Live \cup {nextId} |-> IF i = nextId THEN name ELSE title[i]]
  /\ nextId' = nextId + 1

RenameWebSession(i, name) ==
  title' = IF i \in Live THEN [title EXCEPT ![i] = name] ELSE title

\* Turns past their look at the session, and adoptions, that still write to i.
Writing(i) ==
  \/ \E t \in Tab : turn[t].to = i /\ turn[t].step \in {"title", "save", "reply"}
  \/ \E t \in Tab : \E k \in DOMAIN calls[t] : calls[t][k].step = "adopt" /\ i \in calls[t][k].out

\* Mutant: without AUTOINCREMENT the id of the last row is given out again.
DeleteReusable(i) ==
  /\ title' = [j \in Live \ {i} |-> title[j]]
  /\ history' = history \ {i}
  /\ cut' = IF Writing(i) THEN cut \cup {i} ELSE cut
  /\ nextId' = 1 + Max((Live \ {i}) \cup {0})

DeleteWebSession(i) ==
  /\ title' = [j \in Live \ {i} |-> title[j]]
  /\ history' = history \ {i}
  /\ cut' = IF Writing(i) THEN cut \cup {i} ELSE cut
  /\ UNCHANGED nextId

-----------------------------------------------------------------------------
(* The handlers, one statement of the store per step.                       *)

Happens == events < MaxEvents /\ events' = events + 1

At(t, k, step) == k \in DOMAIN calls[t] /\ calls[t][k].step = step
Move(t, k, step) == calls' = [calls EXCEPT ![t][k].step = step]
MoveWith(t, k, step, out) == calls' = [calls EXCEPT ![t][k].step = step, ![t][k].out = out]
\* Mutant: a deletion is not announced.
AfterEnsureSilent(kind) == IF kind = "del" THEN "ok" ELSE "do"

AfterEnsure(kind) == IF kind = "del" THEN "tell" ELSE "do"

\* The hub hands a frame to every console.
broadcastChanged == notices' = [t \in Tab |-> notices[t] + 1]

\* EnsureDefaultWebSession, in four statements.
EnsureLooks(t, k) ==
  /\ At(t, k, "ensure")
  /\ IF Live = {}
     THEN Move(t, k, "count")
     ELSE \E i \in Live :
            MoveWith(t, k, AfterEnsure(calls[t][k].kind),
                     IF calls[t][k].kind = "del" THEN {i} ELSE {})
  /\ UNCHANGED <<server, console, events, excused>>

EnsureCounts(t, k) ==
  /\ At(t, k, "count")
  /\ calls' = [calls EXCEPT ![t][k].step = "make", ![t][k].legacy = (0 \in history)]
  /\ UNCHANGED <<server, console, events, excused>>

EnsureMakes(t, k) ==
  LET c == calls[t][k] IN
  /\ At(t, k, "make")
  /\ CreateWebSession(IF c.legacy THEN "main" ELSE "new")
  /\ MoveWith(t, k, IF c.legacy THEN "adopt" ELSE AfterEnsure(c.kind), {nextId})
  /\ UNCHANGED <<history, notices, cut, turn, console, events, excused>>

EnsureAdopts(t, k) ==
  /\ At(t, k, "adopt")
  /\ history' = IF 0 \in history THEN (history \ {0}) \cup calls[t][k].out ELSE history
  /\ Move(t, k, AfterEnsure(calls[t][k].kind))
  /\ UNCHANGED <<title, nextId, notices, cut, turn, console, events, excused>>

\* handleChatSessionAction looks the session up before anything else.
GetWebSession(t, k) ==
  /\ At(t, k, "get")
  /\ Move(t, k, IF calls[t][k].id \in Live THEN "do" ELSE "error")
  /\ UNCHANGED <<server, console, events, excused>>

\* What the request came for; a rename or a delete finds the row gone if
\* another request was faster.
HandleList(t, k) ==
  /\ At(t, k, "do") /\ calls[t][k].kind = "list"
  /\ MoveWith(t, k, "ok", Live)
  /\ UNCHANGED <<server, console, events, excused>>

HandlePost(t, k) ==
  /\ At(t, k, "do") /\ calls[t][k].kind = "post"
  /\ CreateWebSession("new")
  /\ MoveWith(t, k, "tell", {nextId})
  /\ UNCHANGED <<history, notices, cut, turn, console, events, excused>>

HandlePut(t, k) ==
  LET i == calls[t][k].id IN
  /\ At(t, k, "do") /\ calls[t][k].kind = "put"
  /\ RenameWebSession(i, "named")
  /\ Move(t, k, IF i \in Live THEN "tell" ELSE "error")
  /\ UNCHANGED <<nextId, history, notices, cut, turn, console, events, excused>>

HandleDelete(t, k) ==
  LET i == calls[t][k].id IN
  /\ At(t, k, "do") /\ calls[t][k].kind = "del"
  /\ IF i \in Live
     THEN DeleteWebSession(i) /\ Move(t, k, "ensure")
     ELSE Move(t, k, "error") /\ UNCHANGED <<store, cut>>
  /\ UNCHANGED <<notices, turn, console, events, excused>>

Tell(t, k) ==
  /\ At(t, k, "tell")
  /\ broadcastChanged
  /\ Move(t, k, "ok")
  /\ UNCHANGED <<store, cut, turn, console, events, excused>>

\* A statement fails, or the handler's process dies: the rest is not done.
RequestFails(t, k) ==
  /\ k \in DOMAIN calls[t] /\ calls[t][k].step \notin {"ok", "error"}
  /\ Happens
  /\ Move(t, k, "error")
  /\ excused' = Tab
  /\ UNCHANGED <<server, console>>

-----------------------------------------------------------------------------
(* The chat turn of a console's socket.                                     *)

GoTurn(t, step) == turn' = [turn EXCEPT ![t].step = step]

\* Mutant: the conversation is written without looking whether it is there.
TurnTrusts(t) ==
  LET i == turn[t].to IN
  /\ turn[t].step = "get"
  /\ turn' = [turn EXCEPT ![t].step = "save"]
  /\ UNCHANGED <<store, notices, cut, console, calls, events, excused>>

\* Mutant: every turn names its session.
TurnRenames(t) ==
  LET i == turn[t].to IN
  /\ turn[t].step = "get"
  /\ turn' = [turn EXCEPT ![t] =
       IF i = 0 THEN [@ EXCEPT !.step = "save"]
       ELSE IF i \notin Live THEN NoTurn
       ELSE [@ EXCEPT !.saw = title[i], !.step = "title"]]
  /\ UNCHANGED <<store, notices, cut, console, calls, events, excused>>

\* The session is looked up; the title is judged by what was read here.
TurnLooks(t) ==
  LET i == turn[t].to IN
  /\ turn[t].step = "get"
  /\ turn' = [turn EXCEPT ![t] =
       IF i = 0 THEN [@ EXCEPT !.step = "save"]
       ELSE IF i \notin Live THEN NoTurn
       ELSE [@ EXCEPT !.saw = title[i], !.step = IF title[i] = "new" THEN "title" ELSE "save"]]
  /\ UNCHANGED <<store, notices, cut, console, calls, events, excused>>

TurnNames(t) ==
  /\ turn[t].step = "title"
  /\ RenameWebSession(turn[t].to, "auto")
  /\ GoTurn(t, "save")
  /\ UNCHANGED <<nextId, history, notices, cut, console, calls, events, excused>>

TurnSaves(t) ==
  /\ turn[t].step = "save"
  /\ history' = history \cup {turn[t].to}
  /\ GoTurn(t, "reply")
  /\ UNCHANGED <<title, nextId, notices, cut, console, calls, events, excused>>

\* The reply is saved and sent; "done" makes the console ask for the list,
\* and a turn of a session is announced to every console.
TurnReplies(t) ==
  /\ turn[t].step = "reply"
  /\ history' = history \cup {turn[t].to}
  /\ notices' = [u \in Tab |-> notices[u] + (IF turn[t].to > 0 THEN 1 ELSE 0)
                                          + (IF u = t THEN 1 ELSE 0)]
  /\ turn' = [turn EXCEPT ![t] = NoTurn]
  /\ UNCHANGED <<title, nextId, cut, console, calls, events, excused>>

TurnFails(t) ==
  /\ turn[t].step \in {"save", "reply"}
  /\ Happens
  /\ turn' = [turn EXCEPT ![t] = NoTurn]
  /\ UNCHANGED <<store, notices, cut, console, calls, excused>>

-----------------------------------------------------------------------------
(* The console.                                                             *)

Without(t, k) == RemoveAt(calls[t], k)
Room(t) == Len(calls[t]) < MaxCalls
Ask(t, kind, id) == calls' = [calls EXCEPT ![t] = Append(@, Request(kind, id))]
\* refreshSessions sends its request: what the console missed is made up for.
refreshSessions(t, others) ==
  /\ calls' = [calls EXCEPT ![t] = Append(others, Request("list", 0))]
  /\ excused' = excused \ {t}

\* The list: a chosen session that is not in it is replaced by the first one.
ListAnswered(t, k) ==
  LET c == calls[t][k]
      crossed == \E j \in DOMAIN calls[t] \ {k} : calls[t][j].kind = "list"
  IN
  /\ At(t, k, "ok") /\ c.kind = "list"
  /\ rows' = [rows EXCEPT ![t] = c.out]
  /\ \E i \in IF at[t] \in c.out THEN {at[t]} ELSE IF c.out = {} THEN {0} ELSE c.out :
       at' = [at EXCEPT ![t] = i]
  /\ calls' = [calls EXCEPT ![t] = Without(t, k)]
  /\ excused' = IF crossed THEN excused \cup {t} ELSE excused
  /\ UNCHANGED <<server, events>>

\* A new conversation is chosen, and so is the next one when the console
\* deleted the chosen one; in any case the list is refreshed.
ChangeAnswered(t, k) ==
  LET c == calls[t][k] IN
  /\ At(t, k, "ok") /\ c.kind # "list"
  /\ at' = IF c.kind = "post" \/ (c.kind = "del" /\ c.id = at[t])
           THEN [at EXCEPT ![t] = Max(c.out)] ELSE at
  /\ refreshSessions(t, Without(t, k))
  /\ UNCHANGED <<server, rows, events>>

\* An error is shown and nothing else happens.
ErrorAnswered(t, k) ==
  /\ At(t, k, "error")
  /\ calls' = [calls EXCEPT ![t] = Without(t, k)]
  /\ UNCHANGED <<server, console, events, excused>>

\* A notice or the end of a turn: the list is asked for again ...
Notice(t) ==
  /\ notices[t] > 0 /\ Room(t)
  /\ notices' = [notices EXCEPT ![t] = @ - 1]
  /\ refreshSessions(t, calls[t])
  /\ UNCHANGED <<store, cut, turn, console, events>>

\* ... unless a title is being edited or the console shows another page, or
\* the frame never came: its socket was closed, or too slow once and the hub
\* dropped it, and a console that registers again is not refreshed.
NoticeMissed(t) ==
  /\ notices[t] > 0
  /\ notices' = [notices EXCEPT ![t] = @ - 1]
  /\ Happens
  /\ excused' = excused \cup {t}
  /\ UNCHANGED <<store, cut, turn, console, calls>>

\* The user clicks a row, its cross, its title, or "new chat".
switchSession(t, i) ==
  /\ i \in rows[t] /\ i # at[t] /\ Happens
  /\ at' = [at EXCEPT ![t] = i]
  /\ UNCHANGED <<server, rows, calls, excused>>

Click(t, kind, i) ==
  /\ kind \in {"post", "put", "del"} /\ i \in IF kind = "post" THEN {0} ELSE rows[t]
  /\ Len(calls[t]) <= MaxCalls /\ Happens
  /\ Ask(t, kind, i)
  /\ UNCHANGED <<server, console, excused>>

\* A typed message names the chosen session, a spoken one names none.
Submit(t, to) ==
  /\ to \in {at[t], 0}
  /\ turn[t].step = "idle" /\ Happens
  /\ turn' = [turn EXCEPT ![t] = [step |-> "get", to |-> to, saw |-> "new"]]
  /\ UNCHANGED <<store, notices, cut, console, calls, excused>>

Handlers(t, k) ==
  \/ EnsureLooks(t, k) \/ EnsureCounts(t, k) \/ EnsureMakes(t, k) \/ EnsureAdopts(t, k)
  \/ GetWebSession(t, k) \/ HandleList(t, k) \/ HandlePost(t, k) \/ HandlePut(t, k)
  \/ HandleDelete(t, k) \/ Tell(t, k) \/ RequestFails(t, k)

Answers(t, k) ==
  ListAnswered(t, k) \/ ChangeAnswered(t, k) \/ ErrorAnswered(t, k)

Turns(t) ==
  TurnLooks(t) \/ TurnNames(t) \/ TurnSaves(t) \/ TurnReplies(t) \/ TurnFails(t)

Next ==
  \E t \in Tab :
    \/ \E k \in DOMAIN calls[t] : Handlers(t, k) \/ Answers(t, k)
    \/ Turns(t)
    \/ Notice(t) \/ NoticeMissed(t)
    \/ \E i \in Id : switchSession(t, i)
    \/ \E kind \in Kinds, i \in Id \cup {0} : Click(t, kind, i)
    \/ \E to \in Id \cup {0} : Submit(t, to)

Spec == Init /\ [][Next]_vars

-----------------------------------------------------------------------------
(* Properties.                                                              *)

Quiet ==
  \A t \in Tab : calls[t] = <<>> /\ notices[t] = 0 /\ turn[t].step = "idle"

\* A new conversation starts empty and nobody is writing to its id: a turn
\* outlives the session it was sent to (up to two minutes), and its reply
\* must not turn up in a later one.
FreshIsEmpty ==
  [][\A i \in DOMAIN title' \ Live : i \notin history /\ ~Writing(i)]_vars

\* Messages outlive their conversation only when it was deleted under a turn
\* or an adoption at work: nothing else is ever written where no list shows it.
NoOrphans == history \subseteq Live \cup {0} \cup cut

\* Once everything is answered, a console that was told of every change and
\* did not have two list requests in flight is on a session that exists, whichever
\* console deleted what meanwhile.
OnALiveSession ==
  Quiet => \A t \in Tab \ excused : at[t] \in Live

\* A title the user gave is replaced by an automatic one only by a turn that
\* had read the untitled row before.
OnlyRacesRename ==
  [][\A i \in Live \cap DOMAIN title' :
       title[i] = "named" /\ title'[i] = "auto" =>
         \E t \in Tab : turn[t].to = i /\ turn[t].step = "title" /\ turn[t].saw = "new"]_vars

\* chat.go:172 "explicit renames are never overwritten".
RenamesKept ==
  [][\A i \in Live \cap DOMAIN title' : title[i] = "named" => title'[i] = "named"]_vars

=============================================================================
