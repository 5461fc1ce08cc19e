------------------------------- MODULE Channel -------------------------------
(***************************************************************************)
(* What the connector's outbox promises (connector/queue.js: "Durable      *)
(* outbox of ingest packets.  Web ingestion is idempotent, so a packet     *)
(* that was stored but not acknowledged before a crash is simply delivered *)
(* again"): while the link is wanted, packets reach the application in the *)
(* order they were pushed, each at least once, and none leaves the outbox  *)
(* before it has been stored.                                              *)
(***************************************************************************)
EXTENDS Sequences

CONSTANTS Packets,
          Store(_, _)   \* what the application holds once it stored a packet

VARIABLES pending,   \* the packets pushed and not acknowledged
          held,      \* what the application holds
          taken,     \* the first of pending is known to be stored
          open       \* the link is wanted: nobody asked to disconnect

vars == <<pending, held, taken, open>>

Init == pending = <<>> /\ held = {} /\ taken = FALSE /\ open = TRUE

Send(p) == pending' = Append(pending, p) /\ UNCHANGED <<held, taken>>

Deliver ==
  /\ pending # <<>>
  /\ held' = Store(held, Head(pending))
  /\ taken'
  /\ UNCHANGED pending

Acknowledge ==
  /\ taken /\ pending # <<>>
  /\ pending' = Tail(pending)
  /\ ~taken'
  /\ UNCHANGED held

\* A crash or a lost answer: the packet will be delivered again.
Forget == ~taken' /\ UNCHANGED <<pending, held>>

Close == ~open' /\ UNCHANGED <<pending, held>>

\* Between a disconnection and the next connection nothing is promised, except
\* that what is then taken for stored is stored.
Unlinked ==
  /\ ~open
  /\ (open' /\ taken') => /\ pending' # <<>>
                          /\ held' = Store(held', Head(pending'))

Next ==
  \/ open /\ open' /\ \/ \E p \in Packets : Send(p)
                      \/ Deliver
                      \/ Acknowledge
                      \/ Forget
  \/ open /\ Close
  \/ Unlinked

Spec == Init /\ [][Next]_vars
=============================================================================
