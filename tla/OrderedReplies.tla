--------------------------- MODULE OrderedReplies ---------------------------
(***************************************************************************)
(* What the reply dispatcher promises, without goroutines, channels or     *)
(* idle timers: one mailbox per sender, served one message at a time in    *)
(* the order of acceptance, and a shutdown that finishes everything that   *)
(* was accepted before it lets go of the shared context.  Dispatcher.tla   *)
(* is shown to implement this module.                                      *)
(***************************************************************************)
EXTENDS Naturals, Sequences

CONSTANTS
  Sender,    \* sender identities
  Msg,       \* inbound messages
  From,      \* From[m]: the sender of message m, for m in Msg
  Capacity,  \* messages a mailbox holds before the next one is refused
  NoMsg      \* "nothing is being served"

VARIABLES
  mailbox,   \* mailbox[s]: accepted messages of s that wait
  serving,   \* serving[s]: the message of s a reply is being made for
  finished,  \* finished[s]: messages of s that were dealt with, in order
  phase      \* "open", "closing" (no new work) or "closed"

vars == <<mailbox, serving, finished, phase>>

Init ==
  /\ mailbox = [s \in Sender |-> <<>>]
  /\ serving = [s \in Sender |-> NoMsg]
  /\ finished = [s \in Sender |-> <<>>]
  /\ phase = "open"

Accept(m) ==
  /\ phase = "open"
  /\ Len(mailbox[From[m]]) < Capacity
  /\ mailbox' = [mailbox EXCEPT ![From[m]] = Append(@, m)]
  /\ UNCHANGED <<serving, finished, phase>>

Begin(s) ==
  /\ serving[s] = NoMsg
  /\ mailbox[s] # <<>>
  /\ serving' = [serving EXCEPT ![s] = Head(mailbox[s])]
  /\ mailbox' = [mailbox EXCEPT ![s] = Tail(@)]
  /\ phase # "closed"
  /\ UNCHANGED <<finished, phase>>

Finish(s) ==
  /\ serving[s] # NoMsg
  /\ finished' = [finished EXCEPT ![s] = Append(@, serving[s])]
  /\ serving' = [serving EXCEPT ![s] = NoMsg]
  /\ phase # "closed"
  /\ UNCHANGED <<mailbox, phase>>

StopAccepting ==
  /\ phase = "open"
  /\ phase' = "closing"
  /\ UNCHANGED <<mailbox, serving, finished>>

Closed ==
  /\ phase = "closing"
  /\ \A s \in Sender : mailbox[s] = <<>> /\ serving[s] = NoMsg
  /\ phase' = "closed"
  /\ UNCHANGED <<mailbox, serving, finished>>

Next ==
  \/ \E m \in Msg : Accept(m)
  \/ \E s \in Sender : Begin(s) \/ Finish(s)
  \/ StopAccepting
  \/ Closed

Fairness ==
  /\ \A s \in Sender : WF_vars(Begin(s)) /\ WF_vars(Finish(s))
  /\ WF_vars(Closed)

SafeSpec == Init /\ [][Next]_vars
Spec == SafeSpec /\ Fairness

=============================================================================
