------------------------------ MODULE MCOutbox ------------------------------
(* Instances of Outbox for TLC. *)
EXTENDS Outbox, TLC
\* The first message of each chat.
MCEditable == Chats \X {1}
MCUnedited == {}
=============================================================================
