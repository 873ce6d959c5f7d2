------------------------------- MODULE Circle -------------------------------
(***************************************************************************)
(* Who Clark serves and how: the global status, the scalar settings, the   *)
(* inner circle, the personal overrides and the granted tools. The tables  *)
(* are shared by the running service and by the one-shot `clark` command;  *)
(* each process keeps its own copy of status, settings, members and        *)
(* overrides. In the service the setters and the SIGHUP reload run in      *)
(* goroutines of their own, step by step, with no lock around a call.      *)
(* One scalar stands for thinking, context, alert mode and history limit:  *)
(* all four are stored and then cached, and thinking, the richest, is told *)
(* to the model client too. Texts, names and store errors are left out.    *)
(***************************************************************************)
EXTENDS Naturals, Sequences, FiniteSets, TLC

CONSTANTS
  Person,       \* phone numbers
  Admitted,     \* the members an earlier life has left in the table
  Tool,         \* tool names, as numbers in alphabetical order
  Defaults,     \* defaultVIPGrants, in source order
  Caller,       \* goroutines of the service that may call a setter
  StartStatus,  \* CLARK_START_STATUS
  None,         \* no override, no row
  MaxCalls,     \* bound on calls
  MaxStarts,    \* bound on starts of the service
  Kinds         \* the kinds of call that are made

Hup == "hup"    \* the goroutine that reloads on SIGHUP
Main == "main"  \* App.Run before the transports are up
Cli == "cli"    \* the one-shot command, a process of its own
Service == Caller \cup {Hup, Main}
Proc == Service \cup {Cli}
Home(p) == IF p = Cli THEN "cli" ELSE "service"

ASSUME CircleConstants ==
  /\ Caller \cap {Hup, Main, Cli} = {}
  /\ Admitted \subseteq Person
  /\ Tool \subseteq Nat /\ Defaults \in Seq(Tool)
  /\ StartStatus \in BOOLEAN
  /\ MaxCalls \in Nat /\ MaxStarts \in Nat
  /\ None \notin BOOLEAN

VARIABLES
  status,    \* the settings row, shared
  away,      \* is away_since set?
  setting,   \* a scalar setting, think say: its row, shared
  vip, over, access,  \* the tables: members, person -> override, person -> tools
  cache,     \* process -> its status, setting, members and overrides
  defaults,  \* the service's package variable defaultVIPGrants
  think,     \* the flag in the service's model client
  digests,   \* away digests the service is writing
  phase,     \* of the service: "down", "starting", "up"
  sig,       \* a SIGHUP waits in sigCh
  call,      \* where each goroutine is in its call
  calls, starts,
  raced,     \* history: calls of the service have overlapped since the last
             \* reload that ran alone
  muddled    \* history: status changes have overlapped, or one was cut short

tables == <<status, away, setting, vip, over, access>>
memory == <<defaults, think, digests>>
history == <<calls, starts>>
circle == <<tables, cache, memory, phase, sig, call, history, raced,
          muddled>>

Blank == [step |-> "idle", kind |-> "none", who |-> {}, on |-> FALSE,
          set |-> FALSE, tool |-> 0, was |-> FALSE, rows |-> {}, list |-> {}, alone |-> TRUE]
NoOverride == [j \in Person |-> None]
Elements(s) == {s[i] : i \in DOMAIN s}

At(p, step) == call[p].step = step
InCall(p) == ~At(p, "idle")
Mine(p) == cache[Home(p)]
Go(p, step) == call' = [call EXCEPT ![p].step = step]
Show(p, field, value) ==
  cache' = [cache EXCEPT ![Home(p)] = [@ EXCEPT ![field] = value]]

CircleInit ==
  /\ status \in BOOLEAN /\ away = status /\ setting = FALSE
  /\ vip = Admitted
  /\ over = NoOverride
  /\ access = [j \in Person |-> None]
  /\ cache = [h \in {"service", "cli"} |->
                [status |-> FALSE, setting |-> FALSE, entries |-> {},
                 over |-> NoOverride]]
  /\ defaults = Defaults /\ think = FALSE /\ digests = 0
  /\ phase = "down" /\ sig = FALSE
  /\ call = [p \in Proc |-> Blank]
  /\ calls = 0 /\ starts = 0
  /\ raced = FALSE /\ muddled = FALSE

---------------------------------------------------------------------------
(* Bookkeeping of overlapping calls.                                       *)

\* Calls of one process overlap; a command meets the service only while the
\* service starts, when no signal can reach it yet.
Rivals(p) ==
  {q \in Proc \ {p} : InCall(q) /\ (Home(p) = Home(q) \/ {p, q} = {Cli, Main})}

Muddle(p, kind) ==
  \/ kind = "status" /\ sig
  \/ \E q \in Proc \ {p} : {kind, call[q].kind} \in {{"status"}, {"status", "reload"}}

Begin(p, c) ==
  /\ LET others == {q \in Proc \ {p} : InCall(q)}
     IN  call' = [q \in Proc |->
                    CASE q = p -> [c EXCEPT !.alone = others = {}]
                      [] q \in others -> [call[q] EXCEPT !.alone = FALSE]
                      [] OTHER -> call[q]]
  /\ muddled' = (muddled \/ Muddle(p, c.kind))

\* What follows the last step of a call: the command signals the service,
\* App.Run writes its pidfile, a goroutine is done.
End(p) ==
  /\ CASE p = Cli -> Go(p, "signal")
       [] p = Main -> Go(p, "pidfile")
       [] OTHER -> call' = [call EXCEPT ![p] = Blank]
  /\ raced' = (raced /\ ~(p = Hup /\ call[p].alone))
  /\ UNCHANGED muddled

Onward(p, step) == Go(p, step) /\ UNCHANGED <<raced, muddled>>

---------------------------------------------------------------------------
(* SetStatus: the cached status is read, the row set, the overrides wiped  *)
(* in the table and in memory, the cache set, the away window kept. Closing*)
(* it starts a digest, a goroutine that runs one turn with the history     *)
(* tools and sends what comes of it, in the service once App.Run has wired *)
(* the sender: its own SetStatus and the command drop the digest. When the *)
(* row is empty a digest of a day is written.                              *)

ReadStatus(p) ==
  /\ At(p, "status")
  /\ call' = [call EXCEPT ![p] = [@ EXCEPT !.step = "set", !.was = Mine(p).status]]
  /\ UNCHANGED <<tables, cache, memory, phase, sig, history, raced, muddled>>

SetRow(p) ==
  /\ At(p, "set") /\ Onward(p, "wipe")
  /\ status' = call[p].on
  /\ UNCHANGED <<away, setting, vip, over, access, cache, memory, phase, sig, history>>

ClearAllEnabled(p) ==
  /\ At(p, "wipe") /\ Onward(p, "forget")
  /\ over' = NoOverride
  /\ UNCHANGED <<status, away, setting, vip, access, cache, memory, phase, sig, history>>

ForgetOverrides(p) ==
  /\ At(p, "forget") /\ Onward(p, "show")
  /\ Show(p, "over", NoOverride)
  /\ UNCHANGED <<tables, memory, phase, sig, history>>

ShowStatus(p) ==
  /\ At(p, "show") /\ Onward(p, "away")
  /\ Show(p, "status", call[p].on)
  /\ UNCHANGED <<tables, memory, phase, sig, history>>

\* The window that is never closed.
AwayWindowOpen(was, on, set) == on \/ set

AwayWindow(was, on, set) == IF was = on THEN set ELSE on

KeepAway(p) ==
  /\ At(p, "away") /\ End(p)
  /\ away' = AwayWindow(call[p].was, call[p].on, away)
  /\ digests' = IF call[p].was /\ ~call[p].on /\ p \in Caller THEN digests + 1 ELSE digests
  /\ UNCHANGED <<status, setting, vip, over, access, cache, defaults, think, phase,
                 sig, history>>

\* The turn answers, fails or runs into its four minutes: each sends.
DigestEnds ==
  /\ digests > 0
  /\ digests' = digests - 1
  /\ UNCHANGED <<tables, cache, defaults, think, phase, sig, call, history, raced,
                 muddled>>

SetStatus(p) ==
  \/ ReadStatus(p) \/ SetRow(p) \/ ClearAllEnabled(p)
  \/ ForgetOverrides(p) \/ ShowStatus(p) \/ KeepAway(p)

---------------------------------------------------------------------------
(* SetThinking, and with it SetContext, SetAlertMode and SetHistoryLimit,  *)
(* which have no model to tell: the row, the cache, the model client.      *)

StoreSetting(p) ==
  /\ At(p, "put") /\ Onward(p, "publish")
  /\ setting' = call[p].set
  /\ UNCHANGED <<status, away, vip, over, access, cache, memory, phase, sig, history>>

ShowSetting(p) ==
  /\ At(p, "publish") /\ Onward(p, "tell")
  /\ Show(p, "setting", call[p].set)
  /\ UNCHANGED <<tables, memory, phase, sig, history>>

\* The client has a flag of its own, set after the cache's lock is released.
TellModel(p) ==
  /\ At(p, "tell")
  /\ think' = IF p = Cli THEN think ELSE call[p].set
  /\ IF p = Hup THEN Onward(p, "all") ELSE End(p)
  /\ UNCHANGED <<tables, cache, defaults, digests, phase, sig, history>>

SetThinking(p) == StoreSetting(p) \/ ShowSetting(p) \/ TellModel(p)

---------------------------------------------------------------------------
(* SetVIPStatus: one member's override, in the table and then in memory.   *)

TheOne(p) == CHOOSE j \in call[p].who : TRUE

Fail(p) ==
  /\ call' = [call EXCEPT ![p] = Blank]
  /\ UNCHANGED <<tables, cache, raced, muddled>>

StoreOverride(p) ==
  /\ At(p, "person")
  /\ IF TheOne(p) \in Mine(p).entries
     THEN /\ over' = [over EXCEPT ![TheOne(p)] = call[p].on]
          /\ Onward(p, "apply")
          /\ UNCHANGED <<status, away, setting, vip, access, cache>>
     ELSE Fail(p)
  /\ UNCHANGED <<memory, phase, sig, history>>

ApplyOverride(p) ==
  /\ At(p, "apply") /\ End(p)
  /\ Show(p, "over", [Mine(p).over EXCEPT ![TheOne(p)] = call[p].on])
  /\ UNCHANGED <<tables, memory, phase, sig, history>>

SetVIPStatus(p) == StoreOverride(p) \/ ApplyOverride(p)

---------------------------------------------------------------------------
(* The inner circle. Several people are admitted one row at a time; people *)
(* are struck from three tables in turn; both end with a load.             *)

Admit(p) ==
  /\ At(p, "admit")
  /\ \E j \in call[p].who :
       /\ vip' = vip \cup {j}
       /\ call' = [call EXCEPT ![p] =
                     [@ EXCEPT !.step = IF call[p].who = {j} THEN "all" ELSE "admit",
                               !.who = call[p].who \ {j}]]
  /\ UNCHANGED <<status, away, setting, over, access, cache, memory, phase, sig,
                 history, raced, muddled>>

StrikeMember(p) ==
  /\ At(p, "strike") /\ Onward(p, "strike access")
  /\ vip' = vip \ call[p].who
  /\ UNCHANGED <<status, away, setting, over, access, cache, memory, phase, sig,
                 history>>

StrikeAccess(p) ==
  /\ At(p, "strike access") /\ Onward(p, "strike status")
  /\ access' = [j \in Person |-> IF j \in call[p].who THEN None ELSE access[j]]
  /\ UNCHANGED <<status, away, setting, vip, over, cache, memory, phase, sig, history>>

StrikeStatus(p) ==
  /\ At(p, "strike status") /\ Onward(p, "all")
  /\ over' = [j \in Person |-> IF j \in call[p].who THEN None ELSE over[j]]
  /\ UNCHANGED <<status, away, setting, vip, access, cache, memory, phase, sig, history>>

\* VIP.Load: the rows are read, the maps replaced by empty ones and filled.
ReadAll(p) ==
  /\ At(p, "all")
  /\ call' = [call EXCEPT ![p] = [@ EXCEPT !.step = "empty", !.rows = vip]]
  /\ UNCHANGED <<tables, cache, memory, phase, sig, history, raced, muddled>>

EmptyMaps(p) ==
  /\ At(p, "empty") /\ Onward(p, "fill")
  /\ cache' = [cache EXCEPT ![Home(p)] =
                 [@ EXCEPT !.entries = {}, !.over = NoOverride]]
  /\ UNCHANGED <<tables, memory, phase, sig, history>>

FillMaps(p) ==
  /\ At(p, "fill") /\ call[p].rows # {}
  /\ \E j \in call[p].rows :
       /\ cache' = [cache EXCEPT ![Home(p)] =
                      [@ EXCEPT !.entries = Mine(p).entries \cup {j},
                                !.over = [Mine(p).over EXCEPT ![j] = over[j]]]]
       /\ call' = [call EXCEPT ![p] = [@ EXCEPT !.rows = call[p].rows \ {j}]]
  /\ UNCHANGED <<tables, memory, phase, sig, history, raced, muddled>>

Loaded(p) ==
  /\ At(p, "fill") /\ call[p].rows = {} /\ End(p)
  /\ UNCHANGED <<tables, cache, memory, phase, sig, history>>

Load(p) == ReadAll(p) \/ EmptyMaps(p) \/ FillMaps(p) \/ Loaded(p)
AddVIP(p) == Admit(p)
DeleteVIP(p) == StrikeMember(p) \/ StrikeAccess(p) \/ StrikeStatus(p)

---------------------------------------------------------------------------
(* A member's tools: read, changed and stored. The tool and the command    *)
(* resolve a member first, the web handler does not. Without a row the     *)
(* list IS defaultVIPGrants, and only the web handler copies it: the       *)
(* others drop a tool in place and, in the tool, sort in place.            *)

Granted(j) == IF access[j] = None THEN Elements(defaults) ELSE access[j]

Changed(tools, p) ==
  IF call[p].on THEN tools \cup {call[p].tool} ELSE tools \ {call[p].tool}

\* A list that is cut to what is kept.
RecycledShort(list, t, on) ==
  SortSeq(IF on THEN list ELSE SelectSeq(list, LAMBDA g : g # t),
          LAMBDA x, y : x < y)

\* defaultVIPGrants after mutateAccess has worked on it. An append leaves it
\* alone: the literal has no spare capacity.
Recycled(list, t, on) ==
  LET kept == IF on THEN list ELSE SelectSeq(list, LAMBDA g : g # t)
  IN  IF on /\ t \notin Elements(list) THEN list
      ELSE SortSeq(kept, LAMBDA x, y : x < y)
             \o SubSeq(list, Len(kept) + 1, Len(list))

ReadGrants(p) ==
  /\ At(p, "grants")
  /\ LET j == TheOne(p)
         own == IF Home(p) = "cli" THEN Elements(Defaults) ELSE Elements(defaults)
     IN  IF call[p].kind = "grant" /\ j \notin Mine(p).entries
         THEN Fail(p) /\ UNCHANGED defaults
         ELSE /\ call' = [call EXCEPT ![p] =
                   [@ EXCEPT !.step = "store",
                             !.list = Changed(IF access[j] = None THEN own ELSE access[j], p)]]
              /\ defaults' = IF access[j] = None /\ call[p].kind = "grant" /\ p # Cli
                             THEN Recycled(defaults, call[p].tool, call[p].on)
                             ELSE defaults
              /\ UNCHANGED <<tables, cache, raced, muddled>>
  /\ UNCHANGED <<think, digests, phase, sig, history>>

StoreGrants(p) ==
  /\ At(p, "store") /\ End(p)
  /\ access' = [access EXCEPT ![TheOne(p)] = call[p].list]
  /\ UNCHANGED <<status, away, setting, vip, over, cache, memory, phase, sig, history>>

SetAccess(p) == ReadGrants(p) \/ StoreGrants(p)

---------------------------------------------------------------------------
(* Reload, in the goroutine that waits for SIGHUP: the scalars are read,   *)
(* then shown under the lock, the model told, the maps loaded.             *)

\* A signal nobody takes back.
WakeAgain ==
  /\ sig /\ phase = "up" /\ ~InCall(Hup)
  /\ Begin(Hup, [Blank EXCEPT !.step = "reread", !.kind = "reload"])
  /\ raced' = (raced \/ Rivals(Hup) # {})
  /\ UNCHANGED <<tables, cache, memory, phase, sig, history>>

Wake ==
  /\ sig /\ phase = "up" /\ ~InCall(Hup)
  /\ sig' = FALSE
  /\ Begin(Hup, [Blank EXCEPT !.step = "reread", !.kind = "reload"])
  /\ raced' = (raced \/ Rivals(Hup) # {})
  /\ UNCHANGED <<tables, cache, memory, phase, history>>

Reread ==
  /\ At(Hup, "reread")
  /\ call' = [call EXCEPT ![Hup] = [@ EXCEPT !.step = "reshow", !.on = status,
                                                     !.set = setting]]
  /\ UNCHANGED <<tables, cache, memory, phase, sig, history, raced, muddled>>

Reshow ==
  /\ At(Hup, "reshow") /\ Onward(Hup, "tell")
  /\ cache' = [cache EXCEPT !.service = [@ EXCEPT !.status = call[Hup].on,
                                                 !.setting = call[Hup].set]]
  /\ UNCHANGED <<tables, memory, phase, sig, history>>

Reload == Reread \/ Reshow

---------------------------------------------------------------------------
(* Calls begin; the service starts and dies; the command signals it.       *)

Stored == [status |-> status, setting |-> setting, entries |-> vip,
           over |-> [j \in Person |-> IF j \in vip THEN over[j] ELSE None]]

FirstStep == [status |-> "status", setting |-> "put", person |-> "person",
              add |-> "admit", delete |-> "strike", grant |-> "grants",
              rest |-> "grants"]

Call(k) == [Blank EXCEPT !.step = FirstStep[k], !.kind = k]

\* A toggle is a call with the row's opposite, the kill endpoint one with
\* FALSE.
StatusCalls ==
  {[Call("status") EXCEPT !.who = Person, !.on = on] : on \in BOOLEAN}

\* What is out of range or no word the setting knows is refused before it
\* is stored.
SettingCalls ==
  {[Call("setting") EXCEPT !.set = value] : value \in BOOLEAN}

PersonCalls ==
  {[Call("person") EXCEPT !.who = {j}, !.on = on] : j \in Person, on \in BOOLEAN}

\* Clearing the circle deletes everybody.
MemberCalls ==
  {[Call(k) EXCEPT !.who = w] : k \in {"add", "delete"}, w \in (SUBSET Person) \ {{}}}

GrantCalls(k) ==
  {[Call(k) EXCEPT !.who = {j}, !.on = on, !.tool = t] :
     j \in Person, on \in BOOLEAN, t \in Tool}

\* The subcommands toggle, vip, context, think, history and access.
CommandCalls ==
  StatusCalls \cup PersonCalls \cup MemberCalls \cup SettingCalls
    \cup GrantCalls("grant")

\* The console's handlers and the model's tools differ in the grants only.
ServiceCalls == CommandCalls \cup GrantCalls("rest")

Request(p) ==
  /\ ~InCall(p) /\ calls < MaxCalls
  /\ p \in Caller => phase = "up"
  /\ calls' = calls + 1
  /\ \E c \in IF p = Cli THEN CommandCalls ELSE ServiceCalls :
       c.kind \in Kinds /\ Begin(p, c)
  /\ raced' = (raced \/ Rivals(p) # {})
  \* The command is a new process and loads before it acts.
  /\ cache' = IF p = Cli THEN [cache EXCEPT !.cli = Stored] ELSE cache
  /\ UNCHANGED <<tables, memory, phase, sig, starts>>

\* New loads the tables, and Run begins with a SetStatus of its own.
Start ==
  /\ phase = "down" /\ starts < MaxStarts
  /\ phase' = "starting" /\ starts' = starts + 1
  /\ cache' = [cache EXCEPT !.service = Stored]
  /\ defaults' = Defaults /\ think' = setting
  /\ Begin(Main, [Blank EXCEPT !.step = "status", !.kind = "status",
                               !.who = Person, !.on = StartStatus])
  /\ raced' = (Rivals(Main) # {})
  /\ UNCHANGED <<tables, digests, sig, calls>>

WritePidFile ==
  /\ At(Main, "pidfile") /\ Onward(Main, "listen")
  /\ UNCHANGED <<tables, cache, memory, phase, sig, history>>

Listen ==
  /\ At(Main, "listen")
  /\ phase' = "up"
  /\ call' = [call EXCEPT ![Main] = Blank]
  /\ UNCHANGED <<tables, cache, memory, sig, history, raced, muddled>>

Die(alive) ==
  /\ phase' = "down" /\ sig' = FALSE /\ digests' = 0
  /\ call' = [p \in Proc |-> IF p \in alive THEN call[p] ELSE Blank]
  /\ muddled' = (muddled \/ \E p \in Service : /\ call[p].kind = "status"
                                                /\ call[p].step \notin {"pidfile", "listen"})

Crash ==
  /\ phase # "down" /\ Die({Cli})
  /\ UNCHANGED <<tables, cache, defaults, think, history, raced>>

\* A channel without room: a signal that finds the goroutine busy is lost.
QueueUnbuffered == sig' = (sig \/ ~InCall(Hup))

\* sigCh holds one signal; a second one adds nothing.
Queue == sig' = TRUE

\* The command sends SIGHUP. Between the pidfile and signal.Notify it
\* kills the process; before that nobody knows the process.
NotifyRunning ==
  /\ At(Cli, "signal")
  /\ \/ /\ phase = "up"
        /\ Queue
        /\ call' = [call EXCEPT ![Cli] = Blank]
        /\ UNCHANGED <<phase, digests, muddled>>
     \/ /\ At(Main, "listen")
        /\ Die({})
     \/ /\ phase # "up" /\ ~At(Main, "listen")
        /\ call' = [call EXCEPT ![Cli] = Blank]
        /\ UNCHANGED <<phase, sig, digests, muddled>>
  /\ UNCHANGED <<tables, cache, defaults, think, history, raced>>

Progress(p) ==
  SetStatus(p) \/ SetThinking(p) \/ SetVIPStatus(p) \/ AddVIP(p) \/ DeleteVIP(p) \/ Load(p)
    \/ SetAccess(p)

CircleNext ==
  \/ \E p \in Caller \cup {Cli} : Request(p)
  \/ \E p \in Proc : Progress(p)
  \/ Wake \/ Reload \/ DigestEnds
  \/ Start \/ WritePidFile \/ Listen \/ Crash \/ NotifyRunning

CircleSafeSpec == CircleInit /\ [][CircleNext]_circle

\* Goroutines are scheduled and the command runs to its end; nobody has to
\* call, start or crash.
CircleFairness ==
  /\ \A p \in Proc : WF_circle(Progress(p))
  /\ WF_circle(Wake) /\ WF_circle(Reload)
  /\ WF_circle(WritePidFile) /\ WF_circle(Listen) /\ WF_circle(NotifyRunning)
  /\ WF_circle(DigestEnds)

CircleSpec == CircleSafeSpec /\ CircleFairness

---------------------------------------------------------------------------
CircleTypeOK ==
  /\ status \in BOOLEAN /\ away \in BOOLEAN /\ setting \in BOOLEAN
  /\ vip \subseteq Person
  /\ over \in [Person -> BOOLEAN \cup {None}]
  /\ \A j \in Person : access[j] = None \/ access[j] \subseteq Tool
  /\ \A h \in {"service", "cli"} :
       /\ {cache[h].status, cache[h].setting} \subseteq BOOLEAN
       /\ cache[h].entries \subseteq Person
       /\ cache[h].over \in [Person -> BOOLEAN \cup {None}]
  /\ defaults \in Seq(Tool) /\ Len(defaults) = Len(Defaults)
  /\ think \in BOOLEAN /\ digests \in 0..MaxCalls
  /\ phase \in {"down", "starting", "up"} /\ sig \in BOOLEAN
  /\ \A p \in Proc : call[p].list \subseteq Tool /\ call[p].who \subseteq Person
  /\ phase = "up" => ~InCall(Main)
  /\ phase = "down" => \A p \in Service : ~InCall(p)
  /\ raced \in BOOLEAN /\ muddled \in BOOLEAN

Quiet == phase = "up" /\ ~sig /\ digests = 0 /\ \A p \in Proc : ~InCall(p)

\* The service's memory and its model client are what the tables say.
InTune == cache.service = Stored /\ think = setting

\* Changes take effect live: when the service is up, no signal waits and no
\* call is under way, the service's memory and the model client's flag are
\* what the tables say, whoever made the changes and in whatever order. Calls
\* of the service that overlap are set apart, until a reload has run alone.
ChangesGoLive == Quiet /\ ~raced => InTune

\* The away window is open exactly while Clark is on, in spite of the status
\* changes of two processes and a restart; overlapping and cut-off status
\* changes are set apart.
AwayPaired == Quiet /\ ~muddled => away = status

\* A signal sent is a reload done, and a digest begun is one sent: in the end
\* a service that is up waits for nothing and agrees with the tables.
ChangesArrive == <>[](phase = "up" => Quiet /\ (raced \/ InTune))

\* "The tools every VIP may invoke without an explicit grant": what the
\* members without a row of their own may use is the same for ever.
GrantsIsolated ==
  \A j \in Person : access[j] = None => Granted(j) = Elements(Defaults)
=============================================================================
