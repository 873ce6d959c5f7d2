-------------------------- MODULE IMessageOutbound --------------------------
(***************************************************************************)
(* The outbound iMessage path: clark's messenger puts rows into the        *)
(* imessage_outbound table, the bridge's poller claims one at a time over  *)
(* HTTP, hands it to Messages.app with osascript and acknowledges it.      *)
(* A claim is a SQLite transaction that reads and then upgrades to a       *)
(* write; both processes crash, and requests time out at the bridge while  *)
(* clark still works on them.                                              *)
(***************************************************************************)
EXTENDS Naturals, Sequences

CONSTANTS
  N,          \* messages ever queued; ids are given out in order (AUTOINCREMENT)
  Req,        \* identities of claim requests clark may be working on at once
  MaxFaults,  \* bound on crashes, timeouts and store errors together
  NoMsg       \* "nothing"

Msg == 1..N

ASSUME NType == N \in Nat /\ MaxFaults \in Nat
ASSUME NoMsgIsNew == NoMsg \notin Msg

VARIABLES
  table,      \* status of each row: "absent", "pending", "picked" or "deleted"
  clark,      \* "up" or "down"
  claim,      \* what each claim request has come to: "free", "begun" or "read"
  found,      \* the row a claim's transaction has read
  stale,      \* claims whose snapshot another commit has outdated
  awaited,    \* the claim the bridge waits for, if any (a request identity)
  acks,       \* acknowledgements clark is working on
  bridge,     \* "down", "idle", "claiming", "sending", "acking", "ackwait"
  hand,       \* the message the poller holds
  delivered,  \* history: what Messages.app was made to send, in order
  faults

queueVars == <<claim, found, stale, awaited>>
bridgeVars == <<bridge, hand>>
vars == <<table, clark, queueVars, acks, bridgeVars, delivered, faults>>

Init ==
  /\ table = [m \in Msg |-> "absent"]
  /\ clark = "up"
  /\ claim = [q \in Req |-> "free"]
  /\ found = [q \in Req |-> NoMsg]
  /\ stale = {}
  /\ awaited = {}
  /\ acks = {}
  /\ bridge = "idle"
  /\ hand = NoMsg
  /\ delivered = <<>>
  /\ faults = 0

Fault == faults < MaxFaults /\ faults' = faults + 1

With(status) == {m \in Msg : table[m] = status}

\* Rows are served and numbered in the order of their ids.
Oldest(m, S) == m \in S /\ \A k \in S : m <= k

\* A commit outdates every snapshot taken before it.
Outdate == stale' = {q \in Req : claim[q] = "read"}

-----------------------------------------------------------------------------
(* clark: the messenger and the bridge server *)

\* Messenger.Send, SendSelf and the send_imessage tool insert one row; an
\* insert that fails leaves no trace but the error.
Enqueue ==
  /\ clark = "up"
  /\ \E m \in Msg : /\ Oldest(m, With("absent"))
                   /\ table' = [table EXCEPT ![m] = "pending"]
  /\ Outdate
  /\ UNCHANGED <<clark, claim, found, awaited, acks, bridgeVars, delivered, faults>>

\* The request leaves clark; the bridge is told m, or nothing, if it waits.
Answer(q, m) ==
  /\ claim' = [claim EXCEPT ![q] = "free"]
  /\ found' = [found EXCEPT ![q] = NoMsg]
  /\ awaited' = awaited \ {q}
  /\ IF q \notin awaited THEN UNCHANGED bridgeVars
     ELSE IF m = NoMsg THEN bridge' = "idle" /\ UNCHANGED hand
     ELSE bridge' = "sending" /\ hand' = m

\* Mutant. The SELECT has no ORDER BY.
ClaimReadAny(q) ==
  /\ claim[q] = "begun"
  /\ IF With("pending") = {}
     THEN Answer(q, NoMsg)
     ELSE /\ claim' = [claim EXCEPT ![q] = "read"]
          /\ \E m \in With("pending") : found' = [found EXCEPT ![q] = m]
          /\ UNCHANGED <<awaited, bridgeVars>>
  /\ stale' = stale \ {q}
  /\ UNCHANGED <<table, clark, acks, delivered, faults>>

\* The count and the SELECT: no pending row is a 204.
ClaimRead(q) ==
  /\ claim[q] = "begun"
  /\ IF With("pending") = {}
     THEN Answer(q, NoMsg)
     ELSE /\ claim' = [claim EXCEPT ![q] = "read"]
          /\ \E m \in Msg : /\ Oldest(m, With("pending"))
                           /\ found' = [found EXCEPT ![q] = m]
          /\ UNCHANGED <<awaited, bridgeVars>>
  /\ stale' = stale \ {q}
  /\ UNCHANGED <<table, clark, acks, delivered, faults>>

\* Mutant. The transaction is never committed.
ClaimCommitUnsaved(q) ==
  /\ claim[q] = "read"
  /\ q \notin stale
  /\ stale' = stale \ {q}
  /\ Answer(q, NoMsg)
  /\ UNCHANGED <<table, clark, acks, delivered, faults>>

\* The UPDATE upgrades the transaction, which SQLite allows only on a
\* snapshot that is still current, and commits.
ClaimCommit(q) ==
  /\ claim[q] = "read"
  /\ q \notin stale
  /\ table' = [table EXCEPT ![found[q]] = "picked"]
  /\ stale' = {p \in Req : claim[p] = "read"} \ {q}
  /\ Answer(q, found[q])
  /\ UNCHANGED <<clark, acks, delivered, faults>>

\* The upgrade is refused, or the store fails otherwise: rolled back, 500.
ClaimFails(q) ==
  /\ claim[q] # "free"
  /\ \/ q \in stale /\ UNCHANGED faults
     \/ Fault
  /\ stale' = stale \ {q}
  /\ Answer(q, NoMsg)
  /\ UNCHANGED <<table, clark, acks, delivered>>

\* handleAck deletes the row, or fails and leaves it picked for ever.
ServeAck(m) ==
  /\ m \in acks
  /\ acks' = acks \ {m}
  /\ \/ table' = [table EXCEPT ![m] = "deleted"] /\ Outdate /\ UNCHANGED faults
     \/ Fault /\ UNCHANGED <<table, stale>>
  /\ IF bridge = "ackwait" /\ hand = m
     THEN bridge' = "idle" /\ hand' = NoMsg
     ELSE UNCHANGED bridgeVars
  /\ UNCHANGED <<clark, claim, found, awaited, delivered>>

\* A crash rolls back open transactions; the rows stay as they were.
ClarkCrash ==
  /\ Fault
  /\ clark = "up"
  /\ clark' = "down"
  /\ claim' = [q \in Req |-> "free"]
  /\ found' = [q \in Req |-> NoMsg]
  /\ stale' = {}
  /\ awaited' = {}
  /\ acks' = {}
  /\ IF bridge \in {"claiming", "ackwait"}
     THEN bridge' = "idle" /\ hand' = NoMsg
     ELSE UNCHANGED bridgeVars
  /\ UNCHANGED <<table, delivered>>

\* Mutant. On start clark puts picked rows back into the queue.
ClarkStartRequeueing ==
  /\ clark = "down"
  /\ clark' = "up"
  /\ table' = [m \in Msg |-> IF table[m] = "picked" THEN "pending" ELSE table[m]]
  /\ UNCHANGED <<queueVars, acks, bridgeVars, delivered, faults>>

ClarkStart ==
  /\ clark = "down"
  /\ clark' = "up"
  /\ UNCHANGED <<table, queueVars, acks, bridgeVars, delivered, faults>>

-----------------------------------------------------------------------------
(* the bridge's poller *)

\* pollOnce asks for the next message; with clark down the request fails and
\* the next tick asks again.
Poll ==
  /\ bridge = "idle"
  /\ clark = "up"
  /\ \E q \in Req :
       /\ claim[q] = "free"
       /\ claim' = [claim EXCEPT ![q] = "begun"]
       /\ awaited' = {q}
  /\ bridge' = "claiming"
  /\ UNCHANGED <<table, clark, found, stale, acks, hand, delivered, faults>>

\* Mutant. The poller acknowledges what it claimed, delivered or not.
DeliverOrNot ==
  /\ bridge = "sending"
  /\ delivered' \in {delivered, Append(delivered, hand)}
  /\ bridge' = "acking"
  /\ UNCHANGED <<table, clark, queueVars, acks, hand, faults>>

\* osascript sends the message and reports success, sends it and reports an
\* error, or sends nothing; an error ends the poll with the row picked.
Deliver ==
  /\ bridge = "sending"
  /\ \/ delivered' = Append(delivered, hand) /\ bridge' = "acking" /\ UNCHANGED hand
     \/ /\ delivered' \in {delivered, Append(delivered, hand)}
        /\ bridge' = "idle"
        /\ hand' = NoMsg
  /\ UNCHANGED <<table, clark, queueVars, acks, faults>>

Ack ==
  /\ bridge = "acking"
  /\ IF clark = "up"
     THEN acks' = acks \cup {hand} /\ bridge' = "ackwait" /\ UNCHANGED hand
     ELSE bridge' = "idle" /\ hand' = NoMsg /\ UNCHANGED acks
  /\ UNCHANGED <<table, clark, queueVars, delivered, faults>>

\* The client gives up on a claim or an acknowledgement; clark does not.
Timeout ==
  /\ Fault
  /\ bridge \in {"claiming", "ackwait"}
  /\ awaited' = {}
  /\ bridge' = "idle"
  /\ hand' = NoMsg
  /\ UNCHANGED <<table, clark, claim, found, stale, acks, delivered>>

\* Mutant. Every crash leaves one more poller behind, asking at once.
BridgeCrashOnTop ==
  /\ Fault
  /\ bridge # "down"
  /\ bridge' = "both"
  /\ UNCHANGED <<table, clark, queueVars, acks, hand, delivered>>

BridgeCrash ==
  /\ Fault
  /\ bridge # "down"
  /\ awaited' = {}
  /\ bridge' = "down"
  /\ hand' = NoMsg
  /\ UNCHANGED <<table, clark, claim, found, stale, acks, delivered>>

BridgeStart ==
  /\ bridge = "down"
  /\ bridge' = "idle"
  /\ UNCHANGED <<table, clark, queueVars, acks, hand, delivered, faults>>

-----------------------------------------------------------------------------
Serve == \/ \E q \in Req : ClaimRead(q) \/ ClaimCommit(q) \/ ClaimFails(q)
         \/ \E m \in Msg : ServeAck(m)

Next ==
  \/ Enqueue \/ Serve \/ ClarkCrash \/ ClarkStart
  \/ Poll \/ Deliver \/ Ack \/ Timeout \/ BridgeCrash \/ BridgeStart

\* Requests are served, the poller's ticker fires, osascript returns, and
\* both processes are restarted by their supervisors.
Fairness ==
  /\ \A q \in Req : WF_vars(ClaimRead(q) \/ ClaimCommit(q) \/ ClaimFails(q))
  /\ \A m \in Msg : WF_vars(ServeAck(m))
  /\ WF_vars(Poll) /\ WF_vars(Deliver) /\ WF_vars(Ack)
  /\ WF_vars(ClarkStart) /\ WF_vars(BridgeStart)

SafeSpec == Init /\ [][Next]_vars
Spec == SafeSpec /\ Fairness

-----------------------------------------------------------------------------
(* properties *)

TypeOK ==
  /\ table \in [Msg -> {"absent", "pending", "picked", "deleted"}]
  /\ clark \in {"up", "down"}
  /\ claim \in [Req -> {"free", "begun", "read"}]
  /\ found \in [Req -> Msg \cup {NoMsg}]
  /\ stale \subseteq Req
  /\ awaited \subseteq Req
  /\ acks \subseteq Msg
  /\ bridge \in {"down", "idle", "claiming", "sending", "acking", "ackwait"}
  /\ hand \in Msg \cup {NoMsg}
  /\ delivered \in Seq(Msg)
  /\ faults \in 0..MaxFaults

\* No message is sent twice, whatever is claimed concurrently, times out,
\* crashes and restarts (poller.go: "the queue guarantees at-most-once").
AtMostOnce ==
  \A i, j \in DOMAIN delivered : delivered[i] = delivered[j] => i = j

\* Recipients see messages in the order in which clark queued them.
DeliveredInOrder ==
  \A i, j \in DOMAIN delivered : i < j => delivered[i] < delivered[j]

\* A row disappears only after its message was sent: what was not sent stays
\* in the table for the operator.
DeletedWasDelivered ==
  \A m \in With("deleted") : \E i \in DOMAIN delivered : delivered[i] = m

\* Every queued message is taken from the queue in the end.
QueueDrains == \A m \in Msg : table[m] = "pending" ~> table[m] # "pending"

=============================================================================
