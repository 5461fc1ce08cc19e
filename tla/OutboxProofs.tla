---------------------------- MODULE OutboxProofs ----------------------------
(***************************************************************************)
(* The outbox implements Channel, whatever the bounds and whenever the     *)
(* user reconnects; no watermark passes a message that is neither stored   *)
(* nor waiting, provided a connection that was ended is removed with its   *)
(* session before the next one; and the application is left with the last  *)
(* version of what it stored, provided the edits of a message are pushed   *)
(* one after the other.                                                    *)
(***************************************************************************)
EXTENDS Outbox, TLAPS

USE OutboxAssumption DEF OutboxAssumption

-----------------------------------------------------------------------------
(* Types, and a container that is down remembers nothing *)

Dead ==
  /\ ~up => /\ posting = <<>> /\ ~reply /\ ~mine /\ handling = {}
            /\ sync = "idle" /\ state = "starting"
  /\ reply => posting # <<>>
  /\ sync \in {"read", "wait"} => at \in Chats

TInv == TypeOK /\ Dead

LEMMA NoPost == <<>> \in Seq(Packets) /\ Len(<<>>) = 0
  OBVIOUS

LEMMA InitTypes == Init => TInv
<1> SUFFICES ASSUME Init PROVE TInv
  OBVIOUS
<1>1. newest \in [Chats -> 0..MaxMessages] /\ version \in [Chats \X (1..MaxMessages) -> 1..2]
  BY DEF Init
<1>2. mark \in [Chats -> 0..MaxMessages] /\ saved \in [Chats -> 0..MaxMessages]
  BY DEF Init
<1>3. TypeOK
  <2>1. /\ queue \in Seq(Packets) /\ posting \in Seq(Packets)
        /\ Len(posting) <= 1
    BY NoPost DEF Init
  <2>2. /\ handling \subseteq Messages /\ stored \subseteq Messages /\ read \subseteq Messages
        /\ todo \subseteq Chats /\ at \in Chats \cup {NoChat}
    BY DEF Init
  <2>3. faults \in 0..MaxFaults /\ stops \in 0..MaxStops
    BY DEF Init
  <2> QED  BY <1>1, <1>2, <2>1, <2>2, <2>3 DEF Init, TypeOK
<1>4. Dead
  BY DEF Init, Dead
<1> QED  BY <1>3, <1>4 DEF TInv

LEMMA FirstType ==
  ASSUME NEW T, NEW q \in Seq(T)
  PROVE  First(q) \in Seq(T) /\ Len(First(q)) <= 1 /\ (q # <<>> => First(q) # <<>>)
  BY DEF First

LEMMA PushTypes ==
  ASSUME TInv, NEW p \in Packets, Push(p)
  PROVE  /\ queue' \in Seq(Packets)
         /\ posting' \in Seq(Packets) /\ Len(posting') <= 1 /\ posting' # <<>>
         /\ reply' = reply
<1>1. queue' \in Seq(Packets) /\ queue' # <<>>
  <2>1. queue \in Seq(Packets)
    BY DEF TInv, TypeOK
  <2>2. queue' = Append(queue, p)
    BY DEF Push
  <2> QED  BY <2>1, <2>2
<1>2. First(queue') \in Seq(Packets) /\ Len(First(queue')) <= 1 /\ First(queue') # <<>>
  BY <1>1, FirstType
<1> QED  BY <1>1, <1>2 DEF TInv, TypeOK, Push

LEMMA StepTypes == TInv /\ [Next]_vars => TInv'
<1> SUFFICES ASSUME TInv, [Next]_vars PROVE TInv'
  OBVIOUS
<1> USE DEF TInv
<1>1. ASSUME NEW c \in Chats, Arrive(c) PROVE TInv'
  <2>1. Message(c, newest'[c]) \in Messages
    BY <1>1 DEF TypeOK, Arrive, Message, Messages
  <2>2. newest' \in [Chats -> 0..MaxMessages]
    BY <1>1 DEF TypeOK, Arrive
  <2> QED  BY <1>1, <2>1, <2>2 DEF TypeOK, Dead, Arrive, outbox, history, syncing, link, bounds
<1>2. ASSUME NEW c \in Chats, NEW n \in 1..MaxMessages, Edit(c, n) PROVE TInv'
  <2>1. [chat |-> c, n |-> n, v |-> 2] \in Messages
    BY DEF TypeOK, Message, Messages
  <2>2. version' \in [Chats \X (1..MaxMessages) -> 1..2]
    BY <1>2 DEF TypeOK, Edit
  <2> QED  BY <1>2, <2>1, <2>2 DEF TypeOK, Dead, Edit, outbox, history, syncing, link, bounds
<1>3. CASE Drop
  BY <1>3 DEF TypeOK, Dead, Drop, Fault, page, outbox, history, syncing
<1>4. ASSUME NEW m \in Messages, PushEvent(m) PROVE TInv'
  <2>1. {m} \in Packets
    BY DEF Packets
  <2>2. Push({m})
    BY <1>4 DEF PushEvent
  <2>3. up
    BY <1>4 DEF PushEvent, Dead
  <2> QED  BY <1>4, <2>1, <2>2, <2>3, PushTypes DEF TypeOK, Dead, PushEvent, page, history, syncing, link, bounds
<1>5. CASE Flush
  BY <1>5, FirstType DEF TypeOK, Dead, Flush, page, history, syncing, link, bounds
<1>6. CASE Acked
  <2>1. queue' \in Seq(Packets)
    BY <1>6 DEF TypeOK, Acked
  <2>2. posting' \in Seq(Packets) /\ Len(posting') <= 1
    BY <1>6, <2>1, FirstType DEF Acked
  <2>3. mine' \in BOOLEAN /\ reply' = FALSE
    BY <1>6 DEF Acked
  <2>4. up
    BY <1>6 DEF Acked, Dead
  <2> QED  BY <1>6, <2>1, <2>2, <2>3, <2>4 DEF TypeOK, Dead, Acked, page, history, link, bounds
<1>7. CASE PostFailed
  <2>1. up /\ faults' \in 0..MaxFaults /\ stops' = stops
    BY <1>7 DEF PostFailed, Dead, TypeOK, Fault, bounds
  <2>2. TypeOK'
    <3>1. posting' \in Seq(Packets) /\ Len(posting') <= 1
      BY <1>7, NoPost DEF PostFailed
    <3> QED  BY <1>7, <2>1, <3>1 DEF TypeOK, PostFailed, page, history, link
  <2>3. Dead'
    BY <1>7, <2>1 DEF Dead, PostFailed, link
  <2> QED  BY <2>2, <2>3
<1>8. CASE SyncStart
  BY <1>8 DEF TypeOK, Dead, SyncStart, page, outbox, history, link, bounds
<1>9. ASSUME NEW c \in Chats, SyncRead(c) PROVE TInv'
  <2>1. Since(c) \subseteq Messages
    <3> SUFFICES ASSUME NEW n \in 1..newest[c] PROVE Message(c, n) \in Messages
      BY DEF Since
    <3>1. n \in 1..MaxMessages
      BY DEF TypeOK
    <3>2. version[<<c, n>>] \in 1..2
      BY <3>1 DEF TypeOK
    <3> QED  BY <3>1, <3>2 DEF Message, Messages
  <2> QED  BY <1>9, <2>1 DEF TypeOK, Dead, SyncRead, page, outbox, history, link, bounds
<1>10. CASE SyncPush
  <2>1. read \in Packets /\ Push(read) /\ up
    BY <1>10 DEF TypeOK, Packets, SyncPush, Dead
  <2>2. mine' \in BOOLEAN
    BY <1>10 DEF SyncPush
  <2> QED  BY <1>10, <2>1, <2>2, PushTypes DEF TypeOK, Dead, SyncPush, page, history, link, bounds
<1>11. CASE SyncMark
  <2>1. PICK n \in {m.n : m \in read} \cup {0} : mark' = [mark EXCEPT ![at] = Later(n, @)]
    BY <1>11 DEF SyncMark
  <2>2. n \in 0..MaxMessages
    BY <2>1 DEF TypeOK, Messages
  <2>3. mark' \in [Chats -> 0..MaxMessages]
    BY <2>1, <2>2 DEF TypeOK, Later
  <2> QED  BY <1>11, <2>3 DEF TypeOK, Dead, SyncMark, page, outbox, link, bounds
<1>12. CASE SyncEnd
  BY <1>12 DEF TypeOK, Dead, SyncEnd, page, outbox, link, bounds
<1>13. ASSUME NEW c \in Chats, SyncSkip(c) PROVE TInv'
  BY <1>13 DEF TypeOK, Dead, SyncSkip, Fault, page, outbox, history, link
<1>14. CASE Ready
  BY <1>14 DEF TypeOK, Dead, Ready, page, outbox, history, bounds
<1>15. CASE LoggedOut
  BY <1>15 DEF TypeOK, Dead, LoggedOut, page, history, syncing, bounds
<1>16. CASE Crash
  <2>1. TypeOK'
    <3>1. posting' \in Seq(Packets) /\ Len(posting') <= 1
      BY <1>16, NoPost DEF Crash, Down
    <3>2. faults' \in 0..MaxFaults /\ stops' = stops
      BY <1>16 DEF TypeOK, Crash, Fault
    <3> QED  BY <1>16, <3>1, <3>2 DEF TypeOK, Crash, Down, page
  <2>2. Dead'
    BY <1>16 DEF Dead, Crash, Down, Fault, page
  <2> QED  BY <2>1, <2>2
<1>17. CASE Ingest
  <2>1. posting[1] \in Packets
    BY <1>17 DEF TypeOK, Ingest
  <2>2. stored' \subseteq Messages
    BY <1>17, <2>1 DEF TypeOK, Ingest, Upsert, Packets
  <2>3. up /\ reply' = TRUE
    BY <1>17 DEF Ingest, Dead
  <2> QED  BY <1>17, <2>2, <2>3 DEF TypeOK, Dead, Ingest, page, history, syncing, link, bounds
<1>18. CASE Start
  BY <1>18 DEF TypeOK, Dead, Start, page, outbox, history, syncing, bounds
<1>19. CASE Remove
  <2>1. TypeOK'
    <3>1. posting' \in Seq(Packets) /\ Len(posting') <= 1
      BY <1>19, NoPost DEF Remove, Down
    <3> QED  BY <1>19, <3>1 DEF TypeOK, Remove, Down, page, bounds
  <2>2. Dead'
    BY <1>19 DEF Dead, Remove, Down, page, bounds
  <2> QED  BY <2>1, <2>2
<1>20. CASE RemoveSession
  BY <1>20 DEF TypeOK, Dead, RemoveSession, page, syncing, bounds
<1>21. CASE BeginStop
  <2>1. TypeOK'
    <3>1. stops' \in 0..MaxStops
      BY <1>21 DEF TypeOK, BeginStop
    <3>2. desired' \in BOOLEAN
      <4>1. CASE desired' = desired
        BY <4>1 DEF TypeOK
      <4>2. CASE desired' = FALSE
        BY <4>2
      <4> QED  BY <1>21, <4>1, <4>2 DEF BeginStop
    <3> QED  BY <1>21, <3>1, <3>2 DEF TypeOK, BeginStop, page, outbox, history, syncing
  <2>2. Dead'
    BY <1>21 DEF Dead, BeginStop, outbox, syncing
  <2> QED  BY <2>1, <2>2
<1>22. CASE CommitStop
  BY <1>22 DEF TypeOK, Dead, CommitStop, page, outbox, history, syncing, bounds
<1>23. CASE Forget
  BY <1>23 DEF TypeOK, Dead, Forget, page, outbox, history, syncing, bounds
<1>24. CASE Connect
  BY <1>24 DEF TypeOK, Dead, Connect, page, outbox, history, syncing, bounds
<1>25. CASE UNCHANGED vars
  BY <1>25 DEF TypeOK, Dead, vars, page, outbox, history, syncing, link, bounds
<1> QED
  BY <1>1, <1>2, <1>3, <1>4, <1>5, <1>6, <1>7, <1>8, <1>9, <1>10, <1>11, <1>12, <1>13,
     <1>14, <1>15, <1>16, <1>17, <1>18, <1>19, <1>20, <1>21, <1>22, <1>23, <1>24, <1>25
  DEF Next, WhatsApp, Connector, Sync, Host, User

\* Every variable of the connector keeps its type.
THEOREM Types == Spec => []TypeOK
<1>1. Init => TInv  BY InitTypes
<1>2. TInv /\ [Next]_vars => TInv'  BY StepTypes
<1>3. TInv => TypeOK  BY DEF TInv
<1> QED  BY <1>1, <1>2, <1>3, PTL DEF Spec

-----------------------------------------------------------------------------
(* The packet on its way is the first of the outbox, and what was answered *)
(* has been stored                                                         *)

Flight == desired /\ posting # <<>> => queue # <<>> /\ Head(queue) = posting[1]
Kept   == reply => Upsert(stored, posting[1]) = stored
FInv   == TInv /\ Flight /\ Kept

\* The steps that leave the outbox and the application alone.
Aside ==
  \/ \E c \in Chats : Arrive(c) \/ SyncRead(c) \/ SyncSkip(c)
  \/ \E c \in Chats, n \in 1..MaxMessages : Edit(c, n)
  \/ Drop \/ SyncStart \/ SyncMark \/ SyncEnd \/ Ready
  \/ BeginStop \/ CommitStop \/ Forget \/ Connect
  \/ UNCHANGED vars

LEMMA AsideFrame ==
  Aside => UNCHANGED <<queue, posting, reply, stored>> /\ (desired' => desired)
<1>1. ASSUME NEW c \in Chats, Arrive(c) \/ SyncRead(c) \/ SyncSkip(c)
      PROVE  UNCHANGED <<queue, posting, reply, stored, desired>>
  BY <1>1 DEF Arrive, SyncRead, SyncSkip, outbox, link
<1>2. ASSUME NEW c \in Chats, NEW n \in 1..MaxMessages, Edit(c, n)
      PROVE  UNCHANGED <<queue, posting, reply, stored, desired>>
  BY <1>2 DEF Edit, outbox, link
<1>3. Drop \/ SyncStart \/ SyncMark \/ SyncEnd \/ Ready \/ CommitStop \/ Forget \/ Connect
        => UNCHANGED <<queue, posting, reply, stored, desired>>
  BY DEF Drop, SyncStart, SyncMark, SyncEnd, Ready, CommitStop, Forget, Connect, outbox, link
<1>4. BeginStop => UNCHANGED <<queue, posting, reply, stored>> /\ (desired' => desired)
  BY DEF BeginStop, outbox
<1>5. UNCHANGED vars => UNCHANGED <<queue, posting, reply, stored, desired>>
  BY DEF vars, outbox, link
<1> QED  BY <1>1, <1>2, <1>3, <1>4, <1>5 DEF Aside

LEMMA Steps ==
  [Next]_vars =>
    \/ Aside
    \/ \E m \in Messages : PushEvent(m)
    \/ Flush \/ Acked \/ PostFailed \/ SyncPush \/ LoggedOut \/ Crash \/ Ingest
    \/ Start \/ Remove \/ RemoveSession
  BY DEF Next, WhatsApp, Connector, Sync, Host, User, Aside

LEMMA StoredTwice ==
  ASSUME NEW h, NEW p PROVE Upsert(Upsert(h, p), p) = Upsert(h, p)
  BY DEF Upsert, Covers

LEMMA FirstIsHead ==
  ASSUME NEW q \in Seq(Packets), q # <<>> PROVE First(q)[1] = Head(q)
  BY DEF First

LEMMA PushFlight ==
  ASSUME FInv, NEW p \in Packets, Push(p), up
  PROVE  desired => queue' # <<>> /\ Head(queue') = posting'[1]
<1>1. queue' \in Seq(Packets) /\ queue' # <<>>
  <2>1. queue \in Seq(Packets)
    BY DEF FInv, TInv, TypeOK
  <2> QED  BY <2>1 DEF Push
<1>2. CASE posting = <<>>
  BY <1>1, <1>2, FirstIsHead DEF Push
<1>3. CASE posting # <<>>
  <2>1. posting' = posting
    BY <1>3 DEF Push
  <2>2. ASSUME desired PROVE Head(queue') = Head(queue)
    BY <1>3, <2>2 DEF FInv, Flight, TInv, TypeOK, Push
  <2> QED  BY <1>1, <1>3, <2>1, <2>2 DEF FInv, Flight
<1> QED  BY <1>2, <1>3

LEMMA StepFlight == FInv /\ [Next]_vars => FInv'
<1> SUFFICES ASSUME FInv, [Next]_vars PROVE Flight' /\ Kept'
  BY StepTypes DEF FInv
<1> USE DEF FInv
<1>1. CASE Aside
  BY <1>1, AsideFrame DEF Flight, Kept
<1>2. ASSUME NEW m \in Messages, PushEvent(m) PROVE Flight' /\ Kept'
  <2>1. {m} \in Packets /\ Push({m}) /\ up
    BY <1>2 DEF PushEvent, Packets, TInv, Dead
  <2>2. UNCHANGED <<desired, stored, reply>>
    BY <1>2 DEF PushEvent, Push, link
  <2>3. reply => posting' = posting
    BY <2>1 DEF Push, TInv, Dead
  <2> QED  BY <2>1, <2>2, <2>3, PushFlight DEF Flight, Kept
<1>3. CASE SyncPush
  <2>1. read \in Packets /\ Push(read) /\ up
    BY <1>3 DEF SyncPush, Packets, TInv, TypeOK, Dead
  <2>2. UNCHANGED <<desired, stored, reply>>
    BY <1>3 DEF SyncPush, Push, link
  <2>3. reply => posting' = posting
    BY <2>1 DEF Push, TInv, Dead
  <2> QED  BY <2>1, <2>2, <2>3, PushFlight DEF Flight, Kept
<1>4. CASE Flush
  <2>1. posting' = First(queue) /\ queue' = queue /\ queue # <<>> /\ reply' = reply /\ ~reply
    BY <1>4 DEF Flush, TInv, Dead
  <2> QED  BY <2>1, FirstIsHead DEF Flight, Kept, TInv, TypeOK
<1>5. CASE Acked
  <2>1. queue' \in Seq(Packets)
    BY <1>5 DEF TInv, TypeOK, Acked
  <2>2. posting' = First(queue') /\ ~reply'
    BY <1>5 DEF Acked
  <2>3. posting' # <<>> => queue' # <<>>
    BY <2>2 DEF First
  <2> QED  BY <2>1, <2>2, <2>3, FirstIsHead DEF Flight, Kept
<1>6. CASE PostFailed \/ Crash \/ Remove
  BY <1>6 DEF PostFailed, Crash, Remove, Down, Flight, Kept
<1>7. CASE LoggedOut
  BY <1>7 DEF LoggedOut, Flight, Kept
<1>8. CASE Ingest
  <2>1. stored' = Upsert(stored, posting[1]) /\ UNCHANGED <<queue, posting, desired>>
    BY <1>8 DEF Ingest, link
  <2> QED  BY <2>1, StoredTwice DEF Flight, Kept
<1>9. CASE Start
  BY <1>9 DEF Start, outbox, Flight, Kept, TInv, Dead
<1>10. CASE RemoveSession
  BY <1>10 DEF RemoveSession, Flight, Kept, TInv, Dead
<1> QED  BY <1>1, <1>2, <1>3, <1>4, <1>5, <1>6, <1>7, <1>8, <1>9, <1>10, Steps

-----------------------------------------------------------------------------
(* Every step is one of Channel *)

LEMMA InitChannel == Init => C!Init
  BY DEF Init, C!Init, Open

LEMMA StepChannel == FInv /\ FInv' /\ [Next]_vars => [C!Next]_(C!vars)
<1> SUFFICES ASSUME FInv, FInv', [Next]_vars PROVE C!Next \/ UNCHANGED C!vars
  OBVIOUS
<1>u. ASSUME ~Open, Open' => ~reply' PROVE C!Next
  BY <1>u DEF C!Next, C!Unlinked
<1>s. ASSUME NEW p \in Packets, queue' = Append(queue, p), UNCHANGED <<stored, reply, desired, row>>
      PROVE  C!Next
  <2>1. CASE Open
    BY <1>s, <2>1 DEF C!Next, C!Send, Open
  <2>2. CASE ~Open
    BY <1>s, <2>2 DEF C!Next, C!Unlinked, Open
  <2> QED  BY <2>1, <2>2
<1>1. CASE Aside
  <2>1. UNCHANGED <<queue, stored, reply>>
    BY <1>1, AsideFrame
  <2>2. CASE Open /\ Open'
    BY <2>1, <2>2 DEF C!vars
  <2>3. CASE Open /\ ~Open'
    BY <2>1, <2>3 DEF C!Next, C!Close
  <2>4. CASE ~Open
    <3>1. Open' /\ reply' => queue' # <<>> /\ stored' = Upsert(stored', Head(queue'))
      BY DEF FInv, Flight, Kept, Open, TInv, Dead
    <3> QED  BY <2>4, <3>1 DEF C!Next, C!Unlinked
  <2> QED  BY <2>2, <2>3, <2>4
<1>2. ASSUME NEW m \in Messages, PushEvent(m) PROVE C!Next
  BY <1>2, <1>s DEF PushEvent, Push, Packets, link
<1>3. CASE SyncPush
  BY <1>3, <1>s DEF SyncPush, Push, Packets, link, FInv, TInv, TypeOK
<1>4. CASE Flush
  BY <1>4 DEF Flush, link, Open, C!vars
<1>5. CASE Acked
  <2>1. UNCHANGED <<stored, row, desired>> /\ reply /\ ~reply'
    BY <1>5 DEF Acked, link
  <2>2. CASE Open
    <3>1. queue # <<>> /\ queue' = Tail(queue)
      BY <1>5, <2>1, <2>2 DEF Acked, Open, FInv, Flight, TInv, Dead
    <3> QED  BY <2>1, <2>2, <3>1 DEF C!Next, C!Acknowledge, Open
  <2>3. CASE ~Open
    BY <1>u, <2>1, <2>3
  <2> QED  BY <2>2, <2>3
<1>6. CASE PostFailed \/ Crash
  <2>1. UNCHANGED <<queue, stored, row, desired>> /\ ~reply'
    BY <1>6 DEF PostFailed, Crash, Down, link
  <2>2. CASE Open
    BY <2>1, <2>2 DEF C!Next, C!Forget, Open
  <2>3. CASE ~Open
    BY <1>u, <2>1, <2>3
  <2> QED  BY <2>2, <2>3
<1>7. CASE Remove \/ RemoveSession \/ LoggedOut
  <2>1. ~Open /\ ~Open'
    BY <1>7 DEF Remove, Down, RemoveSession, LoggedOut, Open
  <2> QED  BY <1>u, <2>1
<1>8. CASE Ingest
  <2>1. /\ stored' = Upsert(stored, posting[1]) /\ reply' /\ posting # <<>>
        /\ UNCHANGED <<queue, posting, desired, row>>
    BY <1>8 DEF Ingest, link
  <2>2. CASE Open
    <3>1. queue # <<>> /\ Head(queue) = posting[1]
      BY <2>1, <2>2 DEF FInv, Flight, Open
    <3> QED  BY <2>1, <2>2, <3>1 DEF C!Next, C!Deliver, Open
  <2>3. CASE ~Open
    BY <2>1, <2>3 DEF C!Next, C!Unlinked, Open
  <2> QED  BY <2>2, <2>3
<1>9. CASE Start
  <2>1. UNCHANGED <<queue, stored, reply, row>> /\ ~reply /\ desired'
    BY <1>9 DEF Start, outbox, FInv, TInv, Dead
  <2>2. CASE Open
    BY <2>1, <2>2 DEF Open, C!vars
  <2>3. CASE ~Open
    BY <1>u, <2>1, <2>3
  <2> QED  BY <2>2, <2>3
<1> QED  BY <1>1, <1>2, <1>3, <1>4, <1>5, <1>6, <1>7, <1>8, <1>9, Steps

\* The connector and the application together are a channel that loses,
\* invents and reorders nothing while the link is wanted, whatever crashes
\* and whenever the user disconnects and connects again.
THEOREM Refinement == Spec => IsChannel
<1>1. Init => FInv
  BY InitTypes DEF FInv, Flight, Kept, Init
<1>2. FInv /\ [Next]_vars => FInv'
  BY StepFlight
<1>3. Init => C!Init
  BY InitChannel
<1>4. FInv /\ FInv' /\ [Next]_vars => [C!Next]_(C!vars)
  BY StepChannel
<1> QED  BY <1>1, <1>2, <1>3, <1>4, PTL DEF Spec, IsChannel, C!Spec

-----------------------------------------------------------------------------
(* No watermark passes a message that is neither stored nor waiting        *)

Held(c, n) == Covers(stored, c, n) \/ \E i \in 1..Len(queue) : Covers(queue[i], c, n)

Linking ==
  /\ row = "running" /\ up => desired
  /\ row = "none" => ~up /\ \A c \in Chats : mark[c] = 0
Marks   == \A c \in Chats : saved[c] <= mark[c]
Behind  == row = "running" => \A c \in Chats : \A n \in 1..mark[c] : Held(c, n)
Reading == sync \in {"read", "wait"} =>
             \A m \in read : /\ m.chat = at
                             /\ \A k \in 1..m.n : mark[at] <= k => Covers(read, at, k)
Pushed  == sync = "wait" /\ row = "running" => \A m \in read : Held(m.chat, m.n)

MInv == FInv /\ Linking /\ Marks /\ Behind /\ Reading /\ Pushed

LEMMA PushHolds ==
  ASSUME TInv, NEW p \in Packets, Push(p), stored' = stored
  PROVE  /\ \A c, n : Held(c, n) => Held(c, n)'
         /\ \A c, n : Covers(p, c, n) => Held(c, n)'
<1>1. queue \in Seq(Packets) /\ queue' = Append(queue, p)
  BY DEF TInv, TypeOK, Push
<1>2. Len(queue') = Len(queue) + 1 /\ queue'[Len(queue) + 1] = p
  BY <1>1
<1>3. \A i \in 1..Len(queue) : queue'[i] = queue[i]
  BY <1>1
<1>4. Len(queue) \in Nat
  BY <1>1
<1> QED  BY <1>2, <1>3, <1>4 DEF Held

LEMMA AckHolds ==
  ASSUME MInv, Acked, row = "running", NEW c, NEW n, Held(c, n)
  PROVE  Held(c, n)'
<1>1. /\ queue \in Seq(Packets) /\ queue # <<>> /\ Head(queue) = posting[1]
      /\ posting[1] \subseteq stored
  <2>1. up /\ desired /\ reply
    BY DEF Acked, MInv, FInv, TInv, Dead, Linking
  <2> QED  BY <2>1 DEF Acked, MInv, FInv, TInv, TypeOK, Dead, Flight, Kept, Upsert
<1>2. queue' = Tail(queue) /\ stored' = stored
  BY <1>1 DEF Acked
<1>3. CASE Covers(stored, c, n)
  BY <1>2, <1>3 DEF Held
<1>4. ASSUME NEW i \in 1..Len(queue), Covers(queue[i], c, n) PROVE Held(c, n)'
  <2>1. CASE i = 1
    <3>1. queue[1] = posting[1]
      BY <1>1
    <3> QED  BY <1>1, <1>2, <1>4, <2>1, <3>1 DEF Held, Covers
  <2>2. CASE i # 1
    <3>1. i - 1 \in 1..Len(queue') /\ queue'[i - 1] = queue[i]
      BY <1>1, <1>2, <2>2
    <3> QED  BY <1>4, <3>1 DEF Held
  <2> QED  BY <2>1, <2>2
<1> QED  BY <1>3, <1>4 DEF Held

LEMMA StepHolds ==
  ASSUME MInv, [Next]_vars, row = "running"
  PROVE  \A c, n : Held(c, n) => Held(c, n)'
<1> USE DEF MInv
<1>1. CASE Aside
  BY <1>1, AsideFrame DEF Held
<1>2. ASSUME NEW m \in Messages, PushEvent(m) PROVE \A c, n : Held(c, n) => Held(c, n)'
  BY <1>2, PushHolds DEF PushEvent, Packets, FInv
<1>3. CASE SyncPush
  BY <1>3, PushHolds DEF SyncPush, Packets, FInv, TInv, TypeOK
<1>4. CASE Acked
  BY <1>4, AckHolds
<1>5. CASE Ingest
  <2>1. queue' = queue /\ \A c, n : Covers(stored, c, n) => Covers(stored', c, n)
    BY <1>5 DEF Ingest, Upsert, Covers
  <2> QED  BY <2>1 DEF Held
<1>6. CASE LoggedOut \/ Remove \/ RemoveSession
  BY <1>6 DEF LoggedOut, Remove, RemoveSession, Linking
<1>7. CASE Flush \/ PostFailed \/ Crash \/ Start
  <2>1. UNCHANGED <<queue, stored>>
    BY <1>7 DEF Flush, PostFailed, Crash, Down, Start, outbox
  <2> QED  BY <2>1 DEF Held
<1> QED  BY <1>1, <1>2, <1>3, <1>4, <1>5, <1>6, <1>7, Steps

\* The steps that neither move a watermark nor read the page.
LEMMA Unmarked ==
  [Next]_vars =>
    \/ mark' = mark /\ saved' = saved /\ sync' = sync /\ at' = at /\ read' = read
    \/ mark' = mark /\ saved' = saved /\ \/ sync' \in {"idle", "next"}
                                         \/ \E c \in Chats : SyncRead(c)
                                         \/ SyncPush
    \/ SyncMark \/ SyncEnd \/ (up /\ Down) \/ RemoveSession
<1> DEFINE Same == mark' = mark /\ saved' = saved /\ sync' = sync /\ at' = at /\ read' = read
<1>1. ASSUME NEW c \in Chats, Arrive(c) \/ SyncSkip(c) PROVE Same
  BY <1>1 DEF Arrive, SyncSkip, history, syncing
<1>2. ASSUME NEW c \in Chats, NEW n \in 1..MaxMessages, Edit(c, n)
      PROVE  Same
  BY <1>2 DEF Edit, history, syncing
<1>3. ASSUME NEW m \in Messages, PushEvent(m) PROVE Same
  BY <1>3 DEF PushEvent, history, syncing
<1>4. Drop \/ BeginStop \/ CommitStop \/ Forget \/ Connect \/ Flush \/ Acked \/ PostFailed
        \/ LoggedOut \/ Ingest \/ Start
      => Same
  BY DEF Drop, BeginStop, CommitStop, Forget, Connect, Flush, Acked, PostFailed, LoggedOut,
         Ingest, Start, history, syncing
<1>5. UNCHANGED vars => Same
  BY DEF vars, history, syncing
<1>6. SyncStart => mark' = mark /\ saved' = saved /\ sync' = "next"
  BY DEF SyncStart, history
<1>7. Ready => \/ Same
               \/ mark' = mark /\ saved' = saved /\ sync' = "next"
  BY DEF Ready, history
<1>8. ASSUME NEW c \in Chats, SyncRead(c) PROVE mark' = mark /\ saved' = saved
  BY <1>8 DEF SyncRead, history
<1>9. SyncPush => mark' = mark /\ saved' = saved
  BY DEF SyncPush, history
<1>10. Crash \/ Remove => up /\ Down
  BY DEF Crash, Remove
<1>11. CASE Aside
  <2>1. CASE \E c \in Chats : Arrive(c) \/ SyncRead(c) \/ SyncSkip(c)
    BY <1>1, <1>8, <2>1
  <2>2. CASE \E c \in Chats, n \in 1..MaxMessages : Edit(c, n)
    BY <1>2, <2>2
  <2>3. CASE Ready
    <3>1. CASE Same
      BY <3>1
    <3>2. CASE mark' = mark /\ saved' = saved /\ sync' = "next"
      BY <3>2
    <3> QED  BY <1>7, <2>3, <3>1, <3>2
  <2> QED  BY <1>4, <1>5, <1>6, <1>11, <2>1, <2>2, <2>3 DEF Aside
<1>12. CASE \E m \in Messages : PushEvent(m)
  BY <1>3, <1>12
<1>13. CASE SyncPush
  BY <1>9, <1>13
<1> QED  BY <1>4, <1>10, <1>11, <1>12, <1>13, Steps

LEMMA LinkSteps ==
  [Next]_vars =>
    \/ UNCHANGED <<row, up, desired>>
    \/ BeginStop \/ CommitStop \/ Forget \/ RemoveSession \/ Start \/ Connect
    \/ (up /\ Down)
<1>1. ASSUME NEW c \in Chats, Arrive(c) \/ SyncRead(c) \/ SyncSkip(c)
      PROVE  UNCHANGED <<row, up, desired>>
  BY <1>1 DEF Arrive, SyncRead, SyncSkip, link
<1>2. ASSUME NEW c \in Chats, NEW n \in 1..MaxMessages, Edit(c, n)
      PROVE  UNCHANGED <<row, up, desired>>
  BY <1>2 DEF Edit, link
<1>3. ASSUME NEW m \in Messages, PushEvent(m) PROVE UNCHANGED <<row, up, desired>>
  BY <1>3 DEF PushEvent, link
<1>4. Drop \/ SyncStart \/ SyncMark \/ SyncEnd \/ Ready \/ Flush \/ Acked \/ PostFailed
        \/ SyncPush \/ LoggedOut \/ Ingest
      => UNCHANGED <<row, up, desired>>
  BY DEF Drop, SyncStart, SyncMark, SyncEnd, Ready, Flush, Acked, PostFailed, SyncPush,
         LoggedOut, Ingest, link
<1>5. UNCHANGED vars => UNCHANGED <<row, up, desired>>
  BY DEF vars, link
<1>6. Crash \/ Remove => up /\ Down
  BY DEF Crash, Remove
<1> QED  BY <1>1, <1>2, <1>3, <1>4, <1>5, <1>6, Steps DEF Aside

LEMMA StepLinking ==
  ASSUME MInv, [Next]_vars, Reconnects \subseteq {"none"}
  PROVE  Linking'
<1> USE DEF MInv
<1>1. CASE UNCHANGED <<row, up, desired>>
  <2>1. row' = "none" => \A c \in Chats : mark'[c] = 0
    <3> SUFFICES ASSUME row = "none" PROVE \A c \in Chats : mark'[c] = 0
      BY <1>1
    <3>1. ~up /\ sync = "idle" /\ \A c \in Chats : mark[c] = 0
      BY DEF Linking, FInv, TInv, Dead
    <3>2. ~RemoveSession
      BY DEF RemoveSession
    <3>3. UNCHANGED mark
      BY <3>1, <3>2, Unmarked DEF SyncMark, SyncEnd
    <3> QED  BY <3>1, <3>3
  <2> QED  BY <1>1, <2>1 DEF Linking
<1>2. CASE BeginStop \/ CommitStop \/ Forget
  BY <1>2 DEF BeginStop, CommitStop, Forget, Linking
<1>3. CASE RemoveSession
  BY <1>3 DEF RemoveSession, Linking
<1>4. CASE Start
  BY <1>4 DEF Start, Linking
<1>5. CASE Connect
  BY <1>5 DEF Connect, Linking
<1>6. CASE up /\ Down
  BY <1>6 DEF Down, Linking
<1> QED  BY <1>1, <1>2, <1>3, <1>4, <1>5, <1>6, LinkSteps

LEMMA StepMarks == ASSUME MInv, [Next]_vars PROVE Marks'
<1> USE DEF MInv
<1>1. CASE SyncMark
  <2>1. PICK n \in {m.n : m \in read} \cup {0} : mark' = [mark EXCEPT ![at] = Later(n, @)]
    BY <1>1 DEF SyncMark
  <2>2. n \in Nat
    BY <2>1 DEF FInv, TInv, TypeOK, Messages
  <2>3. mark \in [Chats -> Nat] /\ saved \in [Chats -> Nat] /\ saved' = saved
    BY <1>1 DEF FInv, TInv, TypeOK, SyncMark
  <2>4. \A c \in Chats : mark[c] <= mark'[c]
    BY <2>1, <2>2, <2>3 DEF Later
  <2>5. mark' \in [Chats -> Nat]
    BY <2>1, <2>2, <2>3 DEF Later
  <2> QED  BY <2>3, <2>4, <2>5 DEF Marks
<1>2. CASE SyncEnd
  BY <1>2 DEF SyncEnd, Marks, FInv, TInv, TypeOK
<1>3. CASE Down
  BY <1>3 DEF Down, Marks, FInv, TInv, TypeOK
<1>4. CASE RemoveSession
  BY <1>4 DEF RemoveSession, Marks
<1>5. CASE mark' = mark /\ saved' = saved
  BY <1>5 DEF Marks
<1> QED  BY <1>1, <1>2, <1>3, <1>4, <1>5, Unmarked

LEMMA StepReading == ASSUME MInv, [Next]_vars PROVE Reading'
<1> USE DEF MInv
<1>1. ASSUME NEW c \in Chats, SyncRead(c) PROVE Reading'
  <2>1. /\ at' = c /\ read' = Since(c) /\ mark' = mark
    BY <1>1 DEF SyncRead, history
  <2>2. ASSUME NEW m \in Since(c)
        PROVE  m.chat = c /\ \A k \in 1..m.n : mark[c] <= k => Covers(Since(c), c, k)
    <3>1. PICK n \in {k \in 1..newest[c] : k >= mark[c]} : m = Message(c, n)
      BY DEF Since
    <3>2. m.chat = c /\ m.n = n /\ newest[c] \in Nat
      BY <3>1 DEF Message, FInv, TInv, TypeOK
    <3>3. ASSUME NEW k \in 1..n, mark[c] <= k PROVE Covers(Since(c), c, k)
      <4>1. k \in {j \in 1..newest[c] : j >= mark[c]}
        BY <3>1, <3>2, <3>3 DEF FInv, TInv, TypeOK
      <4>2. Message(c, k) \in Since(c) /\ Message(c, k).chat = c /\ Message(c, k).n = k
        BY <4>1 DEF Since, Message
      <4> QED  BY <4>2 DEF Covers
    <3> QED  BY <3>2, <3>3
  <2> QED  BY <2>1, <2>2 DEF Reading
<1>2. CASE SyncPush
  BY <1>2 DEF SyncPush, Reading, history
<1>3. CASE SyncMark \/ SyncEnd \/ Down
  BY <1>3 DEF SyncMark, SyncEnd, Down, Reading
<1>4. CASE RemoveSession
  BY <1>4 DEF RemoveSession, syncing, Reading, FInv, TInv, Dead
<1>5. CASE sync' \in {"idle", "next"}
  BY <1>5 DEF Reading
<1>6. CASE mark' = mark /\ saved' = saved /\ sync' = sync /\ at' = at /\ read' = read
  BY <1>6 DEF Reading
<1> QED  BY <1>1, <1>2, <1>3, <1>4, <1>5, <1>6, Unmarked

LEMMA StepPushed ==
  ASSUME MInv, [Next]_vars, Reconnects \subseteq {"none"} PROVE Pushed'
<1> SUFFICES ASSUME sync' = "wait", row' = "running", NEW m \in read' PROVE Held(m.chat, m.n)'
  BY DEF Pushed
<1> USE DEF MInv
<1>1. row = "running"
  <2>1. ~Connect
    BY DEF Connect, Linking, FInv, TInv, Dead, syncing
  <2> QED  BY <2>1, LinkSteps DEF BeginStop, CommitStop, Forget, RemoveSession, Start, Down
<1>2. CASE SyncPush
  <2>1. read \in Packets /\ Push(read) /\ stored' = stored /\ read' = read
    BY <1>2 DEF SyncPush, Packets, FInv, TInv, TypeOK
  <2>2. Covers(read, m.chat, m.n)
    BY <2>1 DEF Covers
  <2> QED  BY <2>1, <2>2, PushHolds DEF FInv
<1>3. CASE mark' = mark /\ saved' = saved /\ sync' = sync /\ at' = at /\ read' = read
  BY <1>1, <1>3, StepHolds DEF Pushed
<1>4. ~SyncMark /\ ~SyncEnd /\ ~Down /\ ~RemoveSession /\ sync' \notin {"idle", "next"}
  BY <1>1 DEF SyncMark, SyncEnd, Down, RemoveSession
<1>5. \A c \in Chats : ~SyncRead(c)
  BY DEF SyncRead
<1> QED  BY <1>2, <1>3, <1>4, <1>5, Unmarked

LEMMA StepBehind ==
  ASSUME MInv, [Next]_vars, Reconnects \subseteq {"none"} PROVE Behind'
<1> SUFFICES ASSUME row' = "running", NEW c \in Chats, NEW n \in 1..mark'[c] PROVE Held(c, n)'
  BY DEF Behind
<1> USE DEF MInv
<1>t. mark \in [Chats -> Nat] /\ saved \in [Chats -> Nat]
  BY DEF FInv, TInv, TypeOK
<1>1. CASE Connect
  <2>1. mark' = mark /\ mark[c] = 0
    BY <1>1 DEF Connect, history, Linking
  <2> QED  BY <2>1
<1>2. CASE row = "running"
  <2>1. CASE SyncMark
    <3>1. PICK k \in {m.n : m \in read} \cup {0} : mark' = [mark EXCEPT ![at] = Later(k, @)]
      BY <2>1 DEF SyncMark
    <3>2. k \in Nat /\ at \in Chats /\ sync = "wait"
      BY <2>1, <3>1 DEF FInv, TInv, TypeOK, Dead, Messages, SyncMark
    <3>3. CASE n <= mark[c]
      <4>1. n \in 1..mark[c]
        BY <1>t, <3>3
      <4> QED  BY <1>2, <4>1, StepHolds DEF Behind
    <3>4. CASE ~(n <= mark[c])
      <4>1. c = at /\ n <= k /\ k # 0
        BY <1>t, <3>1, <3>2, <3>4 DEF Later
      <4>2. PICK m \in read : m.n = k
        BY <3>1, <4>1
      <4>3. Covers(read, c, n)
        <5>1. n \in 1..m.n /\ mark[at] <= n
          BY <1>t, <3>2, <3>4, <4>1, <4>2
        <5> QED  BY <3>2, <4>1, <5>1 DEF Reading
      <4>4. Held(c, n)
        BY <1>2, <3>2, <4>3 DEF Pushed, Covers
      <4> QED  BY <1>2, <4>4, StepHolds
    <3> QED  BY <3>3, <3>4
  <2>2. CASE ~SyncMark
    <3>1. ~RemoveSession
      BY <1>2 DEF RemoveSession
    <3>2. mark' = mark \/ mark' = saved
      BY <2>2, <3>1, Unmarked DEF SyncEnd, Down
    <3>3. n \in 1..mark[c]
      BY <1>t, <3>2 DEF Marks
    <3> QED  BY <1>2, <3>3, StepHolds DEF Behind
  <2> QED  BY <2>1, <2>2
<1> QED
  BY <1>1, <1>2, LinkSteps DEF BeginStop, CommitStop, Forget, RemoveSession, Start, Down

\* No message is lost: below a watermark, which no synchronisation reads
\* again, every message is stored or waits in the outbox.  The assumption
\* is that the user connects again only once the removal was carried out.
THEOREM NothingLost ==
  ASSUME Reconnects \subseteq {"none"} PROVE Spec => []MarkCovered
<1>1. Init => MInv
  <2>1. Init => FInv
    BY InitTypes DEF FInv, Flight, Kept, Init
  <2> QED  BY <2>1 DEF MInv, Linking, Marks, Behind, Reading, Pushed, Init
<1>2. MInv /\ [Next]_vars => MInv'
  BY StepFlight, StepLinking, StepMarks, StepBehind, StepReading, StepPushed DEF MInv
<1>3. MInv => MarkCovered
  BY DEF MInv, MarkCovered, Behind, Held, Open
<1> QED  BY <1>1, <1>2, <1>3, PTL DEF Spec

-----------------------------------------------------------------------------
(* The application ends with the last version of a message                   *)

Version(msgs, c, n) == {m \in msgs : m.chat = c /\ m.n = n}

\* Of a message: some version of it is stored or waits.
Told(c, n) == Covers(stored, c, n) \/ \E i \in 1..Len(queue) : Covers(queue[i], c, n)

\* An edit finds no handler of its message at work and no synchronisation that
\* has read the message but not pushed it, and its event is seen unless no
\* version was pushed before; no handler of an edit is lost with its process;
\* and the outbox is not thrown away with something in it.
Orderly ==
  /\ \A c \in Chats, n \in 1..MaxMessages : Edit(c, n) =>
       /\ Version(handling, c, n) = {}
       /\ sync = "read" => Version(read, c, n) = {}
       /\ state = "ready" \/ ~Told(c, n)
  /\ Crash \/ Remove => \A m \in handling : m.v = 1
  /\ LoggedOut \/ RemoveSession => queue = <<>>

\* The present version of a message.
Now(m) == Message(m.chat, m.n)

\* Wherever another version is, the present one is pushed after it.
Overtaken(m) ==
  \/ m.v = 1 /\ Now(m) \in handling
  \/ /\ \A i \in 1..Len(queue) : m \in queue[i] => \E k \in (i + 1)..Len(queue) : Now(m) \in queue[k]
     /\ m \in stored => \E k \in 1..Len(queue) : Now(m) \in queue[k]

InFront   == posting # <<>> => queue # <<>> /\ Head(queue) = posting[1]
Present   == /\ \A m \in handling : m = Now(m)
             /\ sync = "read" => \A m \in read : m = Now(m)
Following == \A m \in Messages : m # Now(m) => Overtaken(m)

VInv == FInv /\ InFront /\ Present /\ Following

LEMMA VersionsInit == Init => VInv
<1> SUFFICES ASSUME Init PROVE VInv
  OBVIOUS
<1>1. FInv
  BY InitTypes DEF Init, FInv, Flight, Kept
<1>2. InFront /\ Present /\ Following
  BY DEF Init, InFront, Present, Following, Overtaken
<1> QED  BY <1>1, <1>2 DEF VInv

LEMMA MessageFields ==
  TypeOK => \A m \in Messages : /\ m.chat \in Chats /\ m.n \in 1..MaxMessages /\ m.v \in 1..2
                                /\ Now(m) \in Messages /\ Now(m).v = version[<<m.chat, m.n>>]
                                /\ Now(m).chat = m.chat /\ Now(m).n = m.n
                                /\ m.v = Now(m).v => m = Now(m)
<1> SUFFICES ASSUME TypeOK, NEW m \in Messages
             PROVE  /\ m.chat \in Chats /\ m.n \in 1..MaxMessages /\ m.v \in 1..2
                    /\ Now(m) \in Messages /\ Now(m).v = version[<<m.chat, m.n>>]
                    /\ Now(m).chat = m.chat /\ Now(m).n = m.n
                    /\ m.v = Now(m).v => m = Now(m)
  OBVIOUS
<1>1. /\ m.chat \in Chats /\ m.n \in 1..MaxMessages /\ m.v \in 1..2
      /\ m = [chat |-> m.chat, n |-> m.n, v |-> m.v]
  BY DEF Messages
<1>2. version[<<m.chat, m.n>>] \in 1..2
  BY <1>1 DEF TypeOK
<1> QED  BY <1>1, <1>2 DEF Now, Message, Messages

\* Steps that leave the versions, the outbox and the application alone.
LEMMA Unread ==
  ASSUME VInv, FInv', InFront', UNCHANGED <<version, queue, stored>>, handling \subseteq handling',
         \A m \in handling' \ handling : m = Now(m),
         sync' = "read" => \A m \in read' : m = Now(m)
  PROVE  VInv'
<1>1. \A m : Now(m)' = Now(m)
  BY DEF Now, Message
<1>2. Present'
  BY <1>1 DEF VInv, Present
<1>3. Following'
  <2>1. \A m : Overtaken(m) => Overtaken(m)'
    BY <1>1 DEF Overtaken
  <2> QED  BY <1>1, <2>1 DEF VInv, Following
<1> QED  BY <1>2, <1>3 DEF VInv

LEMMA Appended == ASSUME NEW S, NEW q \in Seq(S), NEW p \in S PROVE Append(q, p) \in Seq(S) /\ Append(q, p) # <<>>
  OBVIOUS

LEMMA PushFront == ASSUME FInv, InFront, NEW p \in Packets, Push(p) PROVE InFront'
<1>1. queue \in Seq(Packets) /\ queue' = Append(queue, p) /\ queue' \in Seq(Packets) /\ queue' # <<>>
  <2>1. queue \in Seq(Packets)
    BY DEF FInv, TInv, TypeOK
  <2>2. queue' = Append(queue, p)
    BY DEF Push
  <2> QED  BY <2>1, <2>2, Appended
<1>2. CASE posting = <<>>
  BY <1>1, <1>2, FirstIsHead DEF Push, InFront
<1>3. CASE posting # <<>>
  <2>1. posting' = posting /\ Head(queue') = Head(queue)
    BY <1>1, <1>3 DEF Push, InFront
  <2> QED  BY <1>1, <1>3, <2>1 DEF InFront
<1> QED  BY <1>2, <1>3

\* A packet of present versions is pushed, of a handler that ends or of a
\* synchronisation.
LEMMA PushVersions ==
  ASSUME VInv, NEW p \in Packets, Push(p), \A m \in p : m = Now(m),
         UNCHANGED <<version, stored>>, handling' \subseteq handling, handling \ handling' \subseteq p,
         sync' = "read" => sync = "read" /\ read' = read,
         FInv'
  PROVE  VInv'
<1>1. \A m : Now(m)' = Now(m)
  BY DEF Now, Message
<1>2. /\ queue \in Seq(Packets) /\ Len(queue) \in Nat /\ queue' = Append(queue, p)
      /\ Len(queue') = Len(queue) + 1 /\ queue'[Len(queue) + 1] = p
      /\ \A i \in 1..Len(queue) : queue'[i] = queue[i]
  <2>1. queue \in Seq(Packets) /\ queue' = Append(queue, p)
    BY DEF VInv, FInv, TInv, TypeOK, Push
  <2> QED  BY <2>1
<1>3. InFront'
  BY PushFront DEF VInv
<1>4. Present'
  BY <1>1 DEF VInv, Present
<1>5. ASSUME NEW m \in Messages, m # Now(m) PROVE Overtaken(m)'
  <2>1. Overtaken(m) /\ m \notin p
    BY <1>5 DEF VInv, Following
  <2>2. CASE m.v = 1 /\ Now(m) \in handling'
    BY <1>1, <2>2 DEF Overtaken
  <2>3. CASE m.v = 1 /\ Now(m) \in handling \ handling'
    <3>1. Now(m) \in queue'[Len(queue) + 1]
      BY <1>2, <2>3
    <3>2. \A i \in 1..Len(queue') : m \in queue'[i] => i \in 1..Len(queue)
      BY <1>2, <2>1
    <3>3. \A i \in 1..Len(queue) : Len(queue) + 1 \in (i + 1)..Len(queue')
      BY <1>2
    <3>4. Len(queue) + 1 \in 1..Len(queue')
      BY <1>2
    <3> QED  BY <1>1, <3>1, <3>2, <3>3, <3>4 DEF Overtaken
  <2>4. CASE /\ \A i \in 1..Len(queue) : m \in queue[i] => \E k \in (i + 1)..Len(queue) : Now(m) \in queue[k]
             /\ m \in stored => \E k \in 1..Len(queue) : Now(m) \in queue[k]
    <3>1. ASSUME NEW i \in 1..Len(queue'), m \in queue'[i]
          PROVE  \E k \in (i + 1)..Len(queue') : Now(m) \in queue'[k]
      <4>1. i \in 1..Len(queue) /\ m \in queue[i]
        BY <1>2, <2>1, <3>1
      <4>2. PICK k \in (i + 1)..Len(queue) : Now(m) \in queue[k]
        BY <2>4, <4>1
      <4>3. k \in (i + 1)..Len(queue') /\ queue'[k] = queue[k]
        BY <1>2, <4>1, <4>2
      <4> QED  BY <4>2, <4>3
    <3>2. ASSUME m \in stored PROVE \E k \in 1..Len(queue') : Now(m) \in queue'[k]
      <4>1. PICK k \in 1..Len(queue) : Now(m) \in queue[k]
        BY <2>4, <3>2
      <4>2. k \in 1..Len(queue') /\ queue'[k] = queue[k]
        BY <1>2, <4>1
      <4> QED  BY <4>1, <4>2
    <3> QED  BY <1>1, <3>1, <3>2 DEF Overtaken
  <2> QED  BY <2>1, <2>2, <2>3, <2>4 DEF Overtaken
<1> QED  BY <1>1, <1>3, <1>4, <1>5 DEF VInv, Following

LEMMA EditVersions ==
  ASSUME VInv, FInv', Orderly, NEW c \in Chats, NEW n \in 1..MaxMessages, Edit(c, n)
  PROVE  VInv'
<1>0. TypeOK
  BY DEF VInv, FInv, TInv
<1> DEFINE old == [chat |-> c, n |-> n, v |-> 1]
           new == [chat |-> c, n |-> n, v |-> 2]
<1>1. /\ version[<<c, n>>] = 1 /\ version' = [version EXCEPT ![<<c, n>>] = 2]
      /\ handling' = (IF state = "ready" THEN handling \cup {new} ELSE handling)
      /\ UNCHANGED <<queue, posting, stored, sync, read>>
  BY DEF Edit, outbox, syncing
<1>2. /\ \A m \in handling : ~(m.chat = c /\ m.n = n)
      /\ sync = "read" => \A m \in read : ~(m.chat = c /\ m.n = n)
      /\ state = "ready" \/ ~Told(c, n)
  BY DEF Orderly, Version
<1>3. handling \subseteq Messages /\ read \subseteq Messages
  BY <1>0 DEF TypeOK
<1>4. ASSUME NEW m \in Messages, ~(m.chat = c /\ m.n = n) PROVE Now(m)' = Now(m)
  <2>1. version'[<<m.chat, m.n>>] = version[<<m.chat, m.n>>]
    BY <1>0, <1>1, <1>4, MessageFields DEF TypeOK
  <2> QED  BY <2>1 DEF Now, Message
<1>5. ASSUME NEW m, m.chat = c, m.n = n PROVE Now(m)' = new
  BY <1>0, <1>1, <1>5 DEF Now, Message, TypeOK
<1>6. InFront'
  BY <1>1 DEF VInv, InFront
<1>7. Present'
  <2>1. new.chat = c /\ new.n = n
    OBVIOUS
  <2> HIDE DEF new
  <2> QED  BY <1>1, <1>2, <1>3, <1>4, <1>5, <2>1 DEF VInv, Present
<1>8. ASSUME NEW m \in Messages, (m # Now(m))' PROVE Overtaken(m)'
  <2>1. CASE m.chat = c /\ m.n = n
    <3>1. m # new /\ m.v \in 1..2 /\ m = [chat |-> c, n |-> n, v |-> m.v]
      BY <1>5, <1>8, <2>1 DEF Messages
    <3>2. m.v = 1 /\ Now(m)' = new
      BY <1>5, <2>1, <3>1
    <3>3. CASE state = "ready"
      BY <1>1, <3>2, <3>3 DEF Overtaken
    <3>4. CASE ~Told(c, n)
      <4>1. m \notin stored /\ \A i \in 1..Len(queue) : m \notin queue[i]
        BY <2>1, <3>4 DEF Told, Covers
      <4> QED  BY <1>1, <4>1 DEF Overtaken
    <3> QED  BY <1>2, <3>3, <3>4
  <2>2. CASE ~(m.chat = c /\ m.n = n)
    <3>1. Now(m)' = Now(m) /\ m # Now(m)
      BY <1>4, <1>8, <2>2
    <3>2. Overtaken(m)
      BY <3>1 DEF VInv, Following
    <3> QED  BY <1>1, <3>1, <3>2 DEF Overtaken
  <2> QED  BY <2>1, <2>2
<1> QED  BY <1>6, <1>7, <1>8 DEF VInv, Following

\* The first packet is stored.  What it has of older versions is followed.
LEMMA IngestVersions == ASSUME VInv, FInv', Ingest PROVE VInv'
<1>1. /\ posting # <<>> /\ stored' = Upsert(stored, posting[1])
      /\ UNCHANGED <<version, handling, queue, posting, sync, read>>
  BY DEF Ingest, page, syncing
<1>2. queue # <<>> /\ Head(queue) = posting[1] /\ queue \in Seq(Packets)
  BY <1>1 DEF VInv, InFront, FInv, TInv, TypeOK
<1>3. Len(queue) \in Nat /\ 1 \in 1..Len(queue) /\ queue[1] = posting[1]
  BY <1>2
<1>4. \A m : Now(m)' = Now(m)
  BY <1>1 DEF Now, Message
<1>5. ASSUME NEW m \in Messages, m # Now(m) PROVE Overtaken(m)'
  <2>1. Overtaken(m)
    BY <1>5 DEF VInv, Following
  <2>2. m \in stored' => m \in stored \/ m \in queue[1]
    BY <1>1, <1>3 DEF Upsert
  <2>3. \A k \in (1 + 1)..Len(queue) : k \in 1..Len(queue)
    OBVIOUS
  <2> QED  BY <1>1, <1>3, <1>4, <2>1, <2>2, <2>3 DEF Overtaken
<1> QED  BY <1>1, <1>4, <1>5 DEF VInv, InFront, Present, Following

\* A version older than one of the packet was replaced when that was stored.
LEMMA AckedVersions == ASSUME VInv, FInv', Acked PROVE VInv'
<1>1. /\ reply /\ queue' = (IF queue = <<>> THEN queue ELSE Tail(queue)) /\ posting' = First(queue')
      /\ UNCHANGED <<version, handling, stored, sync, read>>
  BY DEF Acked, page
<1>2. /\ posting # <<>> /\ queue # <<>> /\ Head(queue) = posting[1] /\ queue \in Seq(Packets)
      /\ Upsert(stored, posting[1]) = stored
  BY <1>1 DEF VInv, InFront, FInv, Kept, TInv, Dead, TypeOK
<1>3. /\ Len(queue) \in Nat /\ queue[1] = posting[1] /\ queue' = Tail(queue)
      /\ queue' \in Seq(Packets) /\ Len(queue') = Len(queue) - 1
      /\ \A i \in 1..Len(queue') : queue'[i] = queue[i + 1]
  BY <1>1, <1>2
<1>4. \A m : Now(m)' = Now(m)
  BY <1>1 DEF Now, Message
<1>5. InFront'
  <2>1. posting' # <<>> => queue' # <<>>
    BY <1>1 DEF First
  <2> QED  BY <1>1, <1>3, <2>1, FirstIsHead DEF InFront
<1>6. ASSUME NEW m \in Messages, m # Now(m) PROVE Overtaken(m)'
  <2>1. Overtaken(m)
    BY <1>6 DEF VInv, Following
  <2>2. CASE m.v = 1 /\ Now(m) \in handling
    BY <1>1, <1>4, <2>2 DEF Overtaken
  <2>3. CASE /\ \A i \in 1..Len(queue) : m \in queue[i] => \E k \in (i + 1)..Len(queue) : Now(m) \in queue[k]
             /\ m \in stored => \E k \in 1..Len(queue) : Now(m) \in queue[k]
    <3>1. ASSUME NEW k \in 2..Len(queue), Now(m) \in queue[k]
          PROVE  k - 1 \in 1..Len(queue') /\ Now(m) \in queue'[k - 1]
      <4>1. k - 1 \in 1..Len(queue') /\ (k - 1) + 1 = k
        BY <1>3
      <4> QED  BY <1>3, <3>1, <4>1
    <3>2. ASSUME NEW i \in 1..Len(queue'), m \in queue'[i]
          PROVE  \E k \in (i + 1)..Len(queue') : Now(m) \in queue'[k]
      <4>1. i + 1 \in 1..Len(queue) /\ m \in queue[i + 1]
        BY <1>3, <3>2
      <4>2. PICK k \in (i + 1 + 1)..Len(queue) : Now(m) \in queue[k]
        BY <2>3, <4>1
      <4>3. k \in 2..Len(queue) /\ k - 1 \in (i + 1)..Len(queue')
        BY <1>3, <4>2
      <4> QED  BY <3>1, <4>2, <4>3
    <3>3. ASSUME m \in stored PROVE \E k \in 1..Len(queue') : Now(m) \in queue'[k]
      <4>1. PICK k \in 1..Len(queue) : Now(m) \in queue[k]
        BY <2>3, <3>3
      <4>2. CASE k = 1
        <5>1. Covers(posting[1], m.chat, m.n)
          <6>1. Now(m) \in posting[1] /\ Now(m).chat = m.chat /\ Now(m).n = m.n
            BY <1>3, <4>1, <4>2 DEF Now, Message
          <6> QED  BY <6>1 DEF Covers
        <5>2. m \in posting[1]
          BY <1>2, <3>3, <5>1 DEF Upsert
        <5>3. PICK j \in (1 + 1)..Len(queue) : Now(m) \in queue[j]
          BY <1>3, <2>3, <4>1, <4>2, <5>2
        <5> QED  BY <3>1, <5>3
      <4>3. CASE k # 1
        <5>1. k \in 2..Len(queue)
          BY <4>1, <4>3
        <5> QED  BY <3>1, <4>1, <5>1
      <4> QED  BY <4>2, <4>3
    <3> QED  BY <1>1, <1>4, <3>2, <3>3 DEF Overtaken
  <2> QED  BY <2>1, <2>2, <2>3 DEF Overtaken
<1> QED  BY <1>1, <1>4, <1>5, <1>6 DEF VInv, Present, Following

\* The handlers that are lost with the process are of messages no one edited.
LEMMA DownVersions ==
  ASSUME VInv, FInv', Down, \A m \in handling : m.v = 1
  PROVE  VInv'
<1>1. /\ posting' = <<>> /\ handling' = {} /\ sync' = "idle"
      /\ UNCHANGED <<version, queue, stored>>
  BY DEF Down, page
<1>2. \A m : Now(m)' = Now(m)
  BY <1>1 DEF Now, Message
<1>3. ASSUME NEW m \in Messages, m # Now(m) PROVE Overtaken(m)'
  <2>1. Overtaken(m)
    BY <1>3 DEF VInv, Following
  <2>2. ~(m.v = 1 /\ Now(m) \in handling)
    BY <1>3, MessageFields DEF VInv, FInv, TInv
  <2> QED  BY <1>1, <1>2, <2>1, <2>2 DEF Overtaken
<1> QED  BY <1>1, <1>2, <1>3 DEF VInv, InFront, Present, Following

LEMMA VersionsNext == VInv /\ [Next]_vars /\ [Orderly]_vars => VInv'
<1> SUFFICES ASSUME VInv, [Next]_vars, [Orderly]_vars PROVE VInv'
  OBVIOUS
<1>0. FInv' /\ FInv /\ TypeOK
  BY StepFlight DEF VInv, FInv, TInv
<1>1. CASE UNCHANGED vars
  <2>1. UNCHANGED <<version, queue, stored, handling, posting, sync, read>>
    BY <1>1 DEF vars, page, outbox, syncing
  <2> QED  BY <1>0, <2>1, Unread DEF VInv, InFront, Present
<1> SUFFICES ASSUME Next, Orderly PROVE VInv'
  BY <1>1
<1>2. ASSUME NEW c \in Chats, Arrive(c) PROVE VInv'
  <2>1. /\ UNCHANGED <<version, queue, stored, posting, sync, read>>
        /\ handling' = handling \/ handling' = handling \cup {Message(c, newest'[c])}
    BY <1>2 DEF Arrive, outbox, syncing
  <2>2. Message(c, newest'[c])  = Now(Message(c, newest'[c]))
    <3>1. newest'[c] = newest[c] + 1 /\ newest[c] \in 0..MaxMessages
      BY <1>0, <1>2 DEF Arrive, TypeOK
    <3> QED  BY <3>1 DEF Now, Message
  <2> QED  BY <1>0, <2>1, <2>2, Unread DEF VInv, InFront, Present
<1>3. ASSUME NEW c \in Chats, NEW n \in 1..MaxMessages, Edit(c, n) PROVE VInv'
  BY <1>0, <1>3, EditVersions
<1>4. ASSUME NEW m \in Messages, PushEvent(m) PROVE VInv'
  <2>1. /\ {m} \in Packets /\ Push({m}) /\ m \in handling /\ handling' = handling \ {m}
        /\ UNCHANGED <<version, stored, sync, read>>
    BY <1>4 DEF PushEvent, Packets, page, syncing
  <2>2. m = Now(m)
    BY <2>1 DEF VInv, Present
  <2> QED  BY <1>0, <2>1, <2>2, PushVersions
<1>5. CASE SyncPush
  <2>1. /\ read \in Packets /\ Push(read) /\ handling' = handling /\ sync = "read" /\ sync' = "wait"
        /\ UNCHANGED <<version, stored>>
    BY <1>0, <1>5 DEF SyncPush, Packets, TypeOK, page
  <2>2. \A m \in read : m = Now(m)
    BY <2>1 DEF VInv, Present
  <2> QED  BY <1>0, <2>1, <2>2, PushVersions
<1>6. ASSUME NEW c \in Chats, SyncRead(c) PROVE VInv'
  <2>1. /\ UNCHANGED <<version, queue, stored, posting, handling>> /\ read' = Since(c)
    BY <1>6 DEF SyncRead, page, outbox
  <2>2. \A m \in Since(c) : m = Now(m)
    <3> SUFFICES ASSUME NEW m \in Since(c) PROVE m = Now(m)
      OBVIOUS
    <3>1. PICK n \in 1..newest[c] : m = Message(c, n)
      BY DEF Since
    <3>2. m.chat = c /\ m.n = n
      BY <3>1 DEF Message
    <3> QED  BY <3>1, <3>2 DEF Now
  <2> QED  BY <1>0, <2>1, <2>2, Unread DEF VInv, InFront
<1>7. CASE \/ SyncStart \/ SyncMark \/ SyncEnd \/ Ready \/ Drop \/ Start
           \/ BeginStop \/ CommitStop \/ Forget \/ Connect
           \/ \E c \in Chats : SyncSkip(c)
  <2>1. UNCHANGED <<version, queue, stored, posting, handling>>
    BY <1>7 DEF SyncStart, SyncMark, SyncEnd, Ready, Drop, Start, BeginStop, CommitStop, Forget, Connect,
                SyncSkip, page, outbox
  <2>2. sync' = "read" => sync = "read" /\ read' = read
    BY <1>7 DEF SyncStart, SyncMark, SyncEnd, Ready, Drop, Start, BeginStop, CommitStop, Forget, Connect,
                SyncSkip, syncing
  <2> QED  BY <1>0, <2>1, <2>2, Unread DEF VInv, InFront, Present
<1>8. CASE Flush \/ PostFailed
  <2>1. UNCHANGED <<version, queue, stored, handling, sync, read>>
    BY <1>8 DEF Flush, PostFailed, page, syncing
  <2>2. InFront'
    <3>1. CASE Flush
      BY <1>0, <3>1, FirstIsHead DEF Flush, InFront, TypeOK
    <3>2. CASE PostFailed
      BY <3>2 DEF PostFailed, InFront
    <3> QED  BY <1>8, <3>1, <3>2
  <2> QED  BY <1>0, <2>1, <2>2, Unread DEF VInv, Present
<1>9. CASE LoggedOut \/ RemoveSession
  <2>1. queue = <<>> /\ queue' = <<>> /\ UNCHANGED <<version, stored, handling, posting, sync, read>>
    BY <1>9 DEF Orderly, LoggedOut, RemoveSession, page, syncing
  <2> QED  BY <1>0, <2>1, Unread DEF VInv, InFront, Present
<1>10. CASE Acked
  BY <1>0, <1>10, AckedVersions
<1>11. CASE Ingest
  BY <1>0, <1>11, IngestVersions
<1>12. CASE Crash \/ Remove
  BY <1>0, <1>12, DownVersions DEF Orderly, Crash, Remove
<1> QED
  BY <1>2, <1>3, <1>4, <1>5, <1>6, <1>7, <1>8, <1>9, <1>10, <1>11, <1>12
  DEF Next, WhatsApp, Connector, Sync, Host, User

\* The application ends with the last version of every message it holds, across
\* crashes, failed posts, lost answers and disconnections, if the handlers and
\* synchronisations that hold a version have pushed it before the next edit
\* (event and sync, connector/index.js): packets are delivered in the order they
\* were pushed, and again only before the next one.
THEOREM LastVersionArrives == Spec /\ [][Orderly]_vars => []LastVersion
<1>1. VInv => LastVersion
  <2> SUFFICES ASSUME VInv, queue = <<>>, handling = {}, NEW m \in stored
               PROVE  m.v = version[<<m.chat, m.n>>]
    BY DEF LastVersion
  <2>1. m \in Messages /\ TypeOK
    BY DEF VInv, FInv, TInv, TypeOK
  <2>2. ~ \E k \in 1..Len(queue) : Now(m) \in queue[k]
    OBVIOUS
  <2>3. m = Now(m)
    BY <2>1, <2>2 DEF VInv, Following, Overtaken
  <2> QED  BY <2>1, <2>3, MessageFields
<1> QED  BY <1>1, VersionsInit, VersionsNext, PTL DEF Spec
=============================================================================
