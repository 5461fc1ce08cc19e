------------------------------- MODULE Outbox -------------------------------
(***************************************************************************)
(* The WhatsApp connector of one workspace (connector/index.js, queue.js)  *)
(* and the two ends it lives between: the messages WhatsApp Web has loaded *)
(* into its page, and the ingestion of the web application, which accepts  *)
(* the connector's key while the workspace wants it running                *)
(* (app/internal.py, app/whatsapp.py).                                     *)
(*                                                                         *)
(* JavaScript runs to the next await: one action is what runs between two  *)
(* awaits.  The outbox is written to pending.json in the same turn as it   *)
(* changes, so `queue` is the file as well as the array.  The watermarks   *)
(* of history.json are written at the end of a synchronisation only.       *)
(*                                                                         *)
(* Messages of a chat are numbered in the order of their timestamps; a     *)
(* message has a new version when it is edited or revoked.  A message that *)
(* appears with a timestamp below one already loaded is not modelled, nor  *)
(* are the limits of 50 chats, 200 messages and 90 days, nor a request the *)
(* connector gave up that the application still carries out later.         *)
(***************************************************************************)
EXTENDS Integers, Sequences, FiniteSets

CONSTANTS Chats,
          Refused,      \* chats whose identifier the application does not accept
          MaxMessages,  \* bound: messages of a chat
          Editable,     \* bound: <<chat, number>> of the messages that are edited, once
          MaxPending,   \* bound: packets in the outbox
          MaxFaults,    \* bound: crashes, failed posts, pages that cannot be read
          MaxStops,     \* bound: disconnections
          Reconnects,   \* the states of the row in which the user connects again
          NoChat

ASSUME OutboxAssumption ==
  /\ Refused \subseteq Chats
  /\ MaxMessages \in Nat /\ MaxPending \in Nat
  /\ MaxFaults \in Nat /\ MaxStops \in Nat
  /\ Reconnects \subseteq {"none", "stopped", "deleted"}
  /\ NoChat \notin Chats

Messages == [chat : Chats, n : 1..MaxMessages, v : 1..2]
Packets  == SUBSET Messages

VARIABLES
  newest,   \* per chat, the last message loaded into the page
  version,  \* per message, its present version
  handling, \* message events whose handler has not pushed yet
  queue,    \* pending.json: the packets to deliver, oldest first
  posting,  \* the packet flush is posting, <<>> when no flush goes on
  reply,    \* the application answered ok to that post
  mine,     \* sync started that flush and waits for it
  mark,     \* history[chat].sent_ts, in memory
  saved,    \* history.json
  sync,     \* idle, or where sync is
  todo,     \* the chats it has not come to
  at,       \* the chat it is at
  read,     \* the messages it read from the page
  up,       \* the container runs
  desired,  \* the connector's own `desired`
  state,    \* status.state: ready, stopped (logged out), or starting
  row,      \* whatsapp_connectors.desired; stopping: the handler of stop runs
  stored,   \* the messages the application holds, each at one version
  faults, stops

page    == <<newest, version>>
outbox  == <<queue, posting, reply>>
history == <<mark, saved>>
syncing == <<sync, todo, at, read, mine>>
link    == <<up, desired, state, row>>
bounds  == <<faults, stops>>
vars    == <<page, handling, outbox, history, syncing, link, stored, bounds>>

Covers(msgs, c, n) == \E m \in msgs : m.chat = c /\ m.n = n
Message(c, n) == [chat |-> c, n |-> n, v |-> version[<<c, n>>]]

TypeOK ==
  /\ newest \in [Chats -> 0..MaxMessages]
  /\ version \in [Chats \X (1..MaxMessages) -> 1..2]
  /\ handling \subseteq Messages
  /\ queue \in Seq(Packets)
  /\ posting \in Seq(Packets) /\ Len(posting) <= 1
  /\ reply \in BOOLEAN /\ mine \in BOOLEAN
  /\ mark \in [Chats -> 0..MaxMessages] /\ saved \in [Chats -> 0..MaxMessages]
  /\ sync \in {"idle", "next", "read", "wait"}
  /\ todo \subseteq Chats /\ at \in Chats \cup {NoChat} /\ read \subseteq Messages
  /\ up \in BOOLEAN /\ desired \in BOOLEAN 
  /\ state \in {"starting", "ready", "stopped"}
  /\ row \in {"running", "stopping", "stopped", "deleted", "none"}
  /\ stored \subseteq Messages
  /\ faults \in 0..MaxFaults /\ stops \in 0..MaxStops

Init ==
  /\ newest = [c \in Chats |-> 0]
  /\ version = [m \in Chats \X (1..MaxMessages) |-> 1]
  /\ handling = {} /\ stored = {}
  /\ queue = <<>> /\ posting = <<>> /\ reply = FALSE /\ mine = FALSE
  /\ mark = [c \in Chats |-> 0] /\ saved = mark
  /\ sync = "idle" /\ todo = {} /\ at = NoChat /\ read = {}
  /\ up = TRUE /\ desired = TRUE /\ state = "starting" /\ row = "running"
  /\ faults = 0 /\ stops = 0

Fault == faults < MaxFaults /\ faults' = faults + 1 /\ UNCHANGED stops

-----------------------------------------------------------------------------
(* The page of WhatsApp Web and its events *)

\* message_create: its handler runs if there is a client.
Arrive(c) ==
  /\ newest[c] < MaxMessages
  /\ newest' = [newest EXCEPT ![c] = @ + 1]
  /\ handling' = IF state = "ready" THEN handling \cup {Message(c, newest'[c])} ELSE handling
  /\ UNCHANGED <<version, outbox, history, syncing, link, stored, bounds>>

\* message_edit and message_revoke_everyone.
Edit(c, n) ==
  /\ <<c, n>> \in Editable /\ n <= newest[c] /\ version[<<c, n>>] = 1
  /\ version' = [version EXCEPT ![<<c, n>>] = 2]
  /\ handling' = IF state = "ready" THEN handling \cup {[chat |-> c, n |-> n, v |-> 2]}
                 ELSE handling
  /\ UNCHANGED <<newest, outbox, history, syncing, link, stored, bounds>>

-----------------------------------------------------------------------------
(* The outbox *)

\* Mutant of First: everything that waits goes out at once.
FirstAll(q) == q

\* The packet a flush posts next.
First(q) == IF q = <<>> THEN <<>> ELSE <<Head(q)>>

\* push, then flush, which returns at once when a flush is going on.
Push(packet) ==
  /\ Len(queue) < MaxPending
  /\ queue' = Append(queue, packet)
  /\ posting' = IF posting = <<>> THEN First(queue') ELSE posting
  /\ UNCHANGED reply

\* event: after the last await of the handler (the chat, the contacts).
PushEvent(m) ==
  /\ m \in handling
  /\ Push({m})
  /\ handling' = handling \ {m}
  /\ UNCHANGED <<page, history, syncing, link, stored, bounds>>

\* The timer of ten seconds.
Flush ==
  /\ up /\ posting = <<>> /\ queue # <<>>
  /\ posting' = First(queue)
  /\ UNCHANGED <<page, handling, queue, reply, history, syncing, link, stored, bounds>>

\* upsert: the body that arrives replaces the one that is held.
Upsert(held, packet) ==
  {s \in held : ~Covers(packet, s.chat, s.n)} \cup packet

Accepted(packet) ==
  /\ row \in {"running", "stopping"}
  /\ \A m \in packet : m.chat \notin Refused

\* POST /internal/connector/ingest is stored and answered.
Ingest ==
  /\ posting # <<>> /\ ~reply
  /\ Accepted(posting[1])
  /\ stored' = Upsert(stored, posting[1])
  /\ reply' = TRUE
  /\ UNCHANGED <<page, handling, queue, posting, history, syncing, link, bounds>>

\* The post returned: shift takes whatever is first by now, and flush goes on.
Acked ==
  /\ reply
  /\ queue' = IF queue = <<>> THEN queue ELSE Tail(queue)
  /\ posting' = First(queue')
  /\ reply' = FALSE
  /\ mine' = (mine /\ queue' # <<>>)
  /\ UNCHANGED <<page, handling, history, sync, todo, at, read, link, stored, bounds>>

\* Mutant of PostFailed: shift in a `finally`.
PostFailedShifts ==
  /\ posting # <<>>
  /\ IF ~reply /\ ~Accepted(posting[1]) THEN UNCHANGED bounds ELSE Fault
  /\ queue' = IF queue = <<>> THEN queue ELSE Tail(queue)
  /\ posting' = <<>> /\ reply' = FALSE /\ mine' = FALSE
  /\ UNCHANGED <<page, handling, history, sync, todo, at, read, link, stored>>

\* The post threw: not authorised, refused, unreachable, or the answer lost.
PostFailed ==
  /\ posting # <<>>
  /\ IF ~reply /\ ~Accepted(posting[1]) THEN UNCHANGED bounds ELSE Fault
  /\ posting' = <<>> /\ reply' = FALSE /\ mine' = FALSE
  /\ UNCHANGED <<page, handling, queue, history, sync, todo, at, read, link, stored>>

-----------------------------------------------------------------------------
(* sync: every fifteen minutes, and when the client becomes ready *)

SyncStart ==
  /\ state = "ready" /\ sync = "idle"
  /\ sync' = "next" /\ todo' = Chats
  /\ UNCHANGED <<page, handling, outbox, history, at, read, mine, link, stored, bounds>>

\* Mutant of Since: the message after the watermark is taken for known.
SinceNext(c) == {Message(c, n) : n \in {k \in 1..newest[c] : k > mark[c] + 1}}

\* The messages of the page since the watermark, the last one of it included.
Since(c) == {Message(c, n) : n \in {k \in 1..newest[c] : k >= mark[c]}}

SyncRead(c) ==
  /\ sync = "next" /\ c \in todo
  /\ desired /\ state = "ready"
  /\ sync' = "read" /\ at' = c /\ todo' = todo \ {c}
  /\ read' = Since(c)
  /\ UNCHANGED <<page, handling, outbox, history, mine, link, stored, bounds>>

\* After the contacts.
SyncPush ==
  /\ sync = "read"
  /\ Push(read)
  /\ sync' = "wait" /\ mine' = (posting = <<>>)
  /\ UNCHANGED <<page, handling, history, todo, at, read, link, stored, bounds>>

Later(a, b) == IF a >= b THEN a ELSE b

\* Mutant of SyncMark: the watermark is what the page holds by now.
SyncMarkNow ==
  /\ sync = "wait" /\ ~mine
  /\ mark' = [mark EXCEPT ![at] = newest[at]]
  /\ sync' = "next" /\ at' = NoChat /\ read' = {}
  /\ UNCHANGED <<page, handling, outbox, saved, todo, mine, link, stored, bounds>>

\* The watermark moves once flush has returned, whatever became of the packet.
SyncMark ==
  /\ sync = "wait" /\ ~mine
  /\ \E n \in {m.n : m \in read} \cup {0} :
       /\ \A m \in read : m.n <= n
       /\ mark' = [mark EXCEPT ![at] = Later(n, @)]
  /\ sync' = "next" /\ at' = NoChat /\ read' = {}
  /\ UNCHANGED <<page, handling, outbox, saved, todo, mine, link, stored, bounds>>

\* The page of a chat could not be read: it is left to the next time.
SyncSkip(c) ==
  /\ sync = "next" /\ c \in todo /\ desired /\ state = "ready"
  /\ Fault
  /\ todo' = todo \ {c}
  /\ UNCHANGED <<page, handling, outbox, history, sync, at, read, mine, link, stored>>

SyncEnd ==
  /\ sync = "next" /\ (todo = {} \/ ~desired \/ state # "ready")
  /\ saved' = mark
  /\ sync' = "idle" /\ todo' = {}
  /\ UNCHANGED <<page, handling, outbox, mark, at, read, mine, link, stored, bounds>>

-----------------------------------------------------------------------------
(* The process, the client and the user *)

\* What is left of a process is what it had written.
Down ==
  /\ up' = FALSE /\ state' = "starting"
  /\ handling' = {} /\ posting' = <<>> /\ reply' = FALSE /\ mine' = FALSE
  /\ mark' = saved /\ sync' = "idle" /\ todo' = {} /\ at' = NoChat /\ read' = {}
  /\ UNCHANGED <<page, queue, saved, desired, row, stored>>

Crash == up /\ Fault /\ Down

\* The provisioner removes the container of a workspace that does not want it.
Remove == up /\ row \in {"stopped", "deleted"} /\ Down /\ UNCHANGED bounds

\* ... and the session with its outbox and history when the row says deleted.
RemoveSession ==
  /\ ~up /\ row = "deleted"
  /\ queue' = <<>> /\ mark' = [c \in Chats |-> 0] /\ saved' = mark'
  /\ row' = "none"
  /\ UNCHANGED <<page, handling, posting, reply, syncing, up, desired, state, stored, bounds>>

Start ==
  /\ ~up /\ row \in {"running", "stopping"}
  /\ up' = TRUE /\ desired' = TRUE
  /\ UNCHANGED <<page, handling, outbox, history, syncing, state, row, stored, bounds>>

\* The client is ready (again): `void sync()`, nothing if a sync is going on.
Ready ==
  /\ up /\ desired /\ state # "ready"
  /\ state' = "ready"
  /\ IF sync = "idle" THEN sync' = "next" /\ todo' = Chats ELSE UNCHANGED <<sync, todo>>
  /\ UNCHANGED <<page, handling, outbox, history, at, read, mine, up, desired, row, stored, bounds>>

\* WhatsApp drops the client; a timer connects it again.
Drop ==
  /\ state = "ready" /\ Fault
  /\ state' = "starting"
  /\ UNCHANGED <<page, handling, outbox, history, syncing, up, desired, row, stored>>

\* stop: the web application asks the connector to disconnect; a connector
\* that cannot be reached is not asked.
BeginStop ==
  /\ row = "running" /\ stops < MaxStops
  /\ row' = "stopping" /\ stops' = stops + 1
  /\ UNCHANGED desired \/ (up /\ desired' = FALSE)
  /\ UNCHANGED <<page, handling, outbox, history, syncing, up, state, stored, faults>>

\* disconnect, after the log-out.
LoggedOut ==
  /\ up /\ ~desired /\ state # "stopped"
  /\ state' = "stopped" /\ queue' = <<>>
  /\ UNCHANGED <<page, handling, posting, reply, history, syncing, up, desired, row, stored, bounds>>

\* stop commits, at the latest after the twenty seconds it waits.
CommitStop ==
  /\ row = "stopping"
  /\ row' \in {"stopped", "deleted"}
  /\ UNCHANGED <<page, handling, outbox, history, syncing, up, desired, state, stored, bounds>>

\* A connection that was stopped is to be removed with its session after all.
Forget ==
  /\ row = "stopped" /\ row' = "deleted"
  /\ UNCHANGED <<page, handling, outbox, history, syncing, up, desired, state, stored, bounds>>

Connect ==
  /\ row \in Reconnects
  /\ row' = "running"
  /\ UNCHANGED <<page, handling, outbox, history, syncing, up, desired, state, stored, bounds>>

-----------------------------------------------------------------------------
WhatsApp ==
  \/ \E c \in Chats : Arrive(c)
  \/ \E c \in Chats, n \in 1..MaxMessages : Edit(c, n)
  \/ Drop

Sync ==
  \/ SyncStart
  \/ \E c \in Chats : SyncRead(c)
  \/ SyncPush
  \/ SyncMark
  \/ SyncEnd

Connector ==
  \/ \E m \in Messages : PushEvent(m)
  \/ Flush
  \/ Acked
  \/ PostFailed
  \/ Sync
  \/ \E c \in Chats : SyncSkip(c)
  \/ Ready
  \/ LoggedOut
  \/ Crash

Host == Start \/ Remove \/ RemoveSession
User == BeginStop \/ CommitStop \/ Forget \/ Connect

Next == WhatsApp \/ Connector \/ Ingest \/ Host \/ User

Spec == Init /\ [][Next]_vars

(***************************************************************************)
(* Fairness.  Containers are restarted, the client reconnects, timers fire *)
(* and calls end (fetch gives up after twenty seconds).  Nothing is        *)
(* assumed of events, faults and the user.                                 *)
(***************************************************************************)
Fairness ==
  /\ WF_vars(Start) /\ WF_vars(Remove) /\ WF_vars(Ready) /\ WF_vars(Flush) /\ WF_vars(Acked)
  /\ WF_vars(Ingest) /\ WF_vars(SyncStart) /\ WF_vars(SyncPush) /\ WF_vars(SyncMark)
  /\ WF_vars(SyncEnd) /\ \A c \in Chats : SF_vars(SyncRead(c))

FairSpec == Spec /\ Fairness

-----------------------------------------------------------------------------
(* Properties *)

Open == row = "running" /\ desired

\* Seen from outside the outbox is a channel that loses, invents and reorders
\* nothing while the link is wanted (queue.js:4).
C == INSTANCE Channel WITH Store <- Upsert, pending <- queue, held <- stored,
                           taken <- reply, open <- Open
IsChannel == C!Spec

\* No message is lost: every message up to a watermark, which no later
\* synchronisation reads again, is held by the application or waits in the
\* outbox.
MarkCovered ==
  Open => \A c \in Chats : \A n \in 1..mark[c] :
            Covers(stored, c, n) \/ \E i \in 1..Len(queue) : Covers(queue[i], c, n)

\* A message loaded into the page reaches the application, through crashes,
\* failed posts and lost answers, unless the user disconnects.
Arrives ==
  \A c \in Chats, n \in 1..MaxMessages :
    (n <= newest[c] /\ Open) ~> (Covers(stored, c, n) \/ ~Open)

\* A workspace that wants its connector running gets a client that is ready.
Linked == (row = "running") ~> (state = "ready" \/ row # "running")

\* The application ends with the last version of a message.
LastVersion ==
  (queue = <<>> /\ handling = {} /\ sync = "idle" /\ state = "ready" /\ Open) =>
    \A m \in stored : m.v = version[<<m.chat, m.n>>]
=============================================================================
