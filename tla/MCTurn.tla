------------------------------- MODULE MCTurn -------------------------------
(* Instances of Turn for TLC: the chat of a VIP, with one turn at a time,   *)
(* and a chat of the web console, which bypasses the fast path.             *)
EXTENDS Turn

CONSTANTS vip, web, w1, w2

MCChatOf == [w \in Worker |-> IF w = w1 THEN vip ELSE web]
=============================================================================
