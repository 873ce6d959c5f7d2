------------------------------- MODULE Alerts -------------------------------
(* The running process around the transports: App.Run starts WhatsApp and   *)
(* the consoles, each on its own goroutine, and stops when the first        *)
(* console does (app/app.go, whatsapp/run.go, web/server.go,                *)
(* imessage/adapter.go); meanwhile alerts and relays fan out over whatever  *)
(* channels are wired by then (alert/alert.go).                             *)
(*                                                                          *)
(* A channel is "wa", "im" or "web"; the desktop banner, which is always    *)
(* wired, comes first and is not told apart.  Bound: Job, the alerts and    *)
(* relays in all.                                                           *)
CONSTANTS Job, Console

ASSUME ConsoleAssumption == Console \subseteq {"web", "im"} /\ Console # {}

VARIABLES
  main,     \* App.Run: pre-warming the voices, waiting for a console, returned, exited
  ctx,      \* the process's context is done: a signal, or stop()
  wa,       \* whatsapp.Run
  con,      \* per enabled console, web.Run or imessage.Run
  wired,    \* the channels whose hook is set in the alert service
  mode,     \* the alert mode, "voice" or "silent"
  job       \* the alerts and relays, under way or done

life == <<main, ctx, wa, con>>
vars == <<main, ctx, wa, con, wired, mode, job>>

Channel == {"wa", "im", "web"}
Stages == {"none", "render", "wa", "im", "web", "ring", "done"}
NoJob == [stage |-> "none", relay |-> TRUE, via |-> {}, owed |-> {}, silent |-> FALSE, loud |-> {}]

TypeOK ==
  /\ main \in {"boot", "serve", "returned", "exited"} /\ ctx \in BOOLEAN
  /\ wa \in {"start", "hooked", "online", "drain", "ended", "dead"}
  /\ con \in [Console -> {"off", "new", "up", "closing", "ended"}]
  /\ wired \subseteq Channel /\ mode \in {"voice", "silent"}
  /\ job \in [Job -> [stage : Stages, relay : BOOLEAN, via : SUBSET Channel, owed : SUBSET Channel,
                     silent : BOOLEAN, loud : SUBSET {"spoken", "rung"}]]

Init ==
  /\ main = "boot" /\ ctx = FALSE
  /\ wa = "start" /\ con = [c \in Console |-> "off"]
  /\ wired = {} /\ mode \in {"voice", "silent"}
  /\ job = [j \in Job |-> NoJob]

Running == main # "exited"

-----------------------------------------------------------------------------
(* The process.                                                             *)

Signal ==
  /\ Running /\ ~ctx /\ ctx' = TRUE
  /\ UNCHANGED <<main, wa, con, wired, mode, job>>

\* The voices are warm: runConsoles wires iMessage and starts the consoles.
RunConsoles ==
  /\ main = "boot" /\ main' = "serve"
  /\ con' = [c \in Console |-> IF c = "web" THEN "new" ELSE "up"]
  /\ wired' = wired \cup (Console \cap {"im"})
  /\ UNCHANGED <<ctx, wa, mode, job>>

\* web.New wires the broadcast before the listener is up.
WebNew ==
  /\ Running /\ "web" \in Console /\ con["web"] = "new"
  /\ con' = [con EXCEPT !["web"] = "up"]
  /\ wired' = wired \cup {"web"}
  /\ UNCHANGED <<main, ctx, wa, mode, job>>

\* The listener fails, its port being taken: iMessage closes its handler first.
ListenFails(c) ==
  /\ Running /\ con[c] = "up"
  /\ con' = [con EXCEPT ![c] = IF c = "im" THEN "closing" ELSE "ended"]
  /\ UNCHANGED <<main, ctx, wa, wired, mode, job>>

ConsoleCloses(c) ==
  /\ Running /\ con[c] = "up" /\ ctx
  /\ con' = [con EXCEPT ![c] = "closing"]
  /\ UNCHANGED <<main, ctx, wa, wired, mode, job>>

\* iMessage's handler has drained; Shutdown waits for requests at work, but at
\* most five seconds.
ConsoleStops(c) ==
  /\ Running /\ con[c] = "closing"
  /\ con' = [con EXCEPT ![c] = "ended"]
  /\ UNCHANGED <<main, ctx, wa, wired, mode, job>>

\* Mutant: runConsoles waits for all of them.
AllConsolesEnded ==
  /\ main = "serve" /\ \A c \in Console : con[c] = "ended"
  /\ main' = "returned" /\ ctx' = TRUE
  /\ UNCHANGED <<wa, con, wired, mode, job>>

\* The first result ends Run: stop() cancels the context.
FirstConsoleEnded ==
  /\ main = "serve" /\ \E c \in Console : con[c] = "ended"
  /\ main' = "returned" /\ ctx' = TRUE
  /\ UNCHANGED <<wa, con, wired, mode, job>>

\* main closes the store and exits, whatever else is still at work.
Exit ==
  /\ main = "returned" /\ main' = "exited"
  /\ UNCHANGED <<ctx, wa, con, wired, mode, job>>

\* whatsapp.Run: the device store, the hook, the connection, the end.
WaHook ==
  /\ Running /\ wa = "start"
  /\ wa' = "hooked" /\ wired' = wired \cup {"wa"}
  /\ UNCHANGED <<main, ctx, con, mode, job>>

WaSteps ==
  /\ Running
  /\ \/ wa \in {"start", "hooked"} /\ wa' = "dead"
     \/ wa = "hooked" /\ wa' = "online"
     \/ wa = "online" /\ ctx /\ wa' = "drain"
     \/ wa = "drain" /\ wa' = "ended"
  /\ UNCHANGED <<main, ctx, con, wired, mode, job>>

-----------------------------------------------------------------------------
(* Deliver and RelayVia.                                                    *)

\* An alert starts at the rendering, a relay at the first messenger; owed are
\* the channels it was meant for that are wired now and not asked yet.
Begin(j, relay, via) ==
  job' = [job EXCEPT ![j] = [NoJob EXCEPT
            !.relay = relay, !.via = via, !.owed = wired \cap via,
            !.stage = IF relay THEN "wa" ELSE "render"]]

\* A webhook to the console, or the bypass phrase on a transport that is up.
Alert(j) ==
  /\ Running /\ job[j].stage = "none"
  /\ wa = "online" \/ \E c \in Console : con[c] = "up"
  /\ Begin(j, FALSE, Channel)
  /\ UNCHANGED <<life, wired, mode>>

\* The relay tool names its transports; the health monitor and the away
\* digest use both.  The web console is always told.
Relay(j, via) ==
  /\ Running /\ job[j].stage = "none"
  /\ via \in {{"wa", "im", "web"}, {"wa", "web"}, {"im", "web"}}
  /\ Begin(j, TRUE, via)
  /\ UNCHANGED <<life, wired, mode>>

\* The text is there, a model may have been asked for it: the mode is read.
Rendered(j) ==
  /\ Running /\ job[j].stage = "render"
  /\ job' = [job EXCEPT ![j].stage = "wa", ![j].silent = (mode = "silent")]
  /\ UNCHANGED <<life, wired, mode>>

\* A channel is asked if its hook is set by now.
Asked(j, c) == job[j].owed \ (wired \cap job[j].via \cap {c})
After(c) == IF c = "wa" THEN "im" ELSE "web"

\* Mutant: the first channel that fails ends the delivery.
MessageOrGiveUp(j) ==
  LET c == job[j].stage IN
  /\ Running /\ c \in {"wa", "im"}
  /\ \E next \in {After(c), "done"} :
       job' = [job EXCEPT ![j].stage = next, ![j].owed = Asked(j, c)]
  /\ UNCHANGED <<life, wired, mode>>

\* A messenger: that it fails is logged or joined to the others' errors, and
\* the next one is asked all the same.
Message(j) ==
  LET c == job[j].stage IN
  /\ Running /\ c \in {"wa", "im"}
  /\ job' = [job EXCEPT ![j].stage = After(c), ![j].owed = Asked(j, c)]
  /\ UNCHANGED <<life, wired, mode>>

Tell(j, aloud) ==
  /\ Running /\ job[j].stage = "web"
  /\ job' = [job EXCEPT ![j].stage = IF job[j].silent THEN "ring" ELSE "done",
                        ![j].owed = Asked(j, "web"), ![j].via = {},
                        ![j].loud = IF aloud /\ "web" \in wired THEN {"spoken"} ELSE {}]
  /\ UNCHANGED <<life, wired, mode>>

\* Mutant: the console speaks by the mode of this moment.
BroadcastAnew(j) == Tell(j, ~job[j].relay /\ mode = "voice")

\* The consoles are told, aloud unless the mode was silent or it is a relay.
Broadcast(j) == Tell(j, ~job[j].relay /\ ~job[j].silent)

\* The FaceTime call and the Mac's banner.
Ring(j) ==
  /\ Running /\ job[j].stage = "ring"
  /\ job' = [job EXCEPT ![j].stage = "done", ![j].loud = @ \cup {"rung"}]
  /\ UNCHANGED <<life, wired, mode>>

SetAlertMode ==
  /\ Running /\ mode' = IF mode = "voice" THEN "silent" ELSE "voice"
  /\ UNCHANGED <<life, wired, job>>

Deliver(j) == Rendered(j) \/ Message(j) \/ Broadcast(j) \/ Ring(j)

Lifecycle ==
  \/ Signal \/ RunConsoles \/ WebNew \/ FirstConsoleEnded \/ Exit \/ WaHook \/ WaSteps
  \/ \E c \in Console : ListenFails(c) \/ ConsoleCloses(c) \/ ConsoleStops(c)

Next ==
  \/ Lifecycle \/ SetAlertMode
  \/ \E j \in Job :
       \/ Alert(j) \/ Deliver(j)
       \/ \E via \in SUBSET Channel : Relay(j, via)

\* The goroutines run, the voices' Start and the shutdowns have time limits.
Fairness ==
  /\ WF_vars(RunConsoles) /\ WF_vars(WebNew)
  /\ WF_vars(FirstConsoleEnded) /\ WF_vars(Exit)
  /\ \A c \in Console : WF_vars(ConsoleCloses(c)) /\ WF_vars(ConsoleStops(c))
  /\ \A j \in Job : WF_vars(Deliver(j))

Spec == Init /\ [][Next]_vars /\ Fairness

-----------------------------------------------------------------------------
(* Properties.                                                              *)

\* "redundancy": a delivery that came to its end has asked every channel it
\* was meant for that was wired when it began, whatever the others answered
\* and whatever came up or died meanwhile.
EveryWiredChannel ==
  \A j \in Job : job[j].stage = "done" => job[j].owed = {}

\* The mode may be changed while an alert goes round: it rings the Master if
\* the mode was silent when its text was ready, and then no console speaks.
OneMode ==
  \A j \in Job :
    /\ job[j].loud # {"spoken", "rung"}
    /\ job[j].stage = "done" => ("rung" \in job[j].loud <=> job[j].silent)

\* A signal, or the end of either console, ends the process: neither the
\* other console nor WhatsApp nor an alert on its way can keep it.
ProcessEnds ==
  (ctx \/ \E c \in Console : con[c] = "ended") ~> main = "exited"

\* app.go:695 "a transport error stops the others".
TransportErrorStops == wa = "dead" ~> main = "exited"

=============================================================================
