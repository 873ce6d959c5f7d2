------------------------- MODULE MCIMessageInbound --------------------------
(* Instances of IMessageInbound for TLC; row 1 is history where History = 1. *)
EXTENDS IMessageInbound

\* Two texts, a row the query leaves out, a self-chat copy, a text.
MCKindsLive == <<"text", "text", "filtered", "self", "text">>

\* A row without a handle between two ordinary ones.
MCKindsBroken == <<"text", "nohandle", "text">>

=============================================================================
