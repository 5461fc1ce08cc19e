----------------------------- MODULE GoogleSync -----------------------------
(***************************************************************************)
(* The synchronisation of one Gmail stream (app/google_sync.py), with the  *)
(* Google grant it lives by (app/accounts.py), the scheduler that enqueues *)
(* it and the one worker that runs it (worker/main.py), and what the user  *)
(* can do meanwhile (app/pages.py).                                        *)
(*                                                                         *)
(* The mailbox is external: a set of messages that never change, which     *)
(* come and go (arrive, return from the trash; are deleted or trashed),    *)
(* and its history, whose length is the historyId.  The application holds  *)
(* a cursor, a position of that history, and the messages in `local`.      *)
(*                                                                         *)
(* A request to Google and the transaction that applies its answer are two *)
(* steps, and everything else may happen between them; only the renewal of *)
(* an access token is one.  Time is abstracted to what it makes true:      *)
(* next_run_at comes, access_expires_at passes, the access token a run     *)
(* holds is refused.                                                       *)
(***************************************************************************)
EXTENDS Integers, Sequences, FiniteSets

CONSTANTS Messages,        \* message ids; the newest is the greatest
          PageSize,        \* messages or history records in a page
          MaxMessages,     \* gmail_max_messages of an initial import
          Consents,        \* whether Google may grant the Gmail scope: TRUE, FALSE
          HistoryExpires,  \* Google may refuse a cursor as too old
          Requests,        \* what the user does: "grant", "disconnect",
                           \*   "revoke", "sync", "delete"
          MaxAttempts,     \* max_attempts of a sync job
          MaxRequests,     \* bound: requests of the user
          MaxHistory,      \* bound: changes of the mailbox
          MaxFaults        \* bound: crashes of the worker

None == -1

ASSUME GoogleSyncAssumption ==
  /\ Messages \subseteq Nat \ {0} /\ IsFiniteSet(Messages)
  /\ PageSize \in Nat \ {0} /\ MaxMessages \in Nat \ {0}
  /\ Consents \subseteq BOOLEAN
  /\ HistoryExpires \in BOOLEAN
  /\ Requests \subseteq {"grant", "disconnect", "revoke", "sync", "delete"}
  /\ MaxAttempts \in Nat \ {0}
  /\ MaxRequests \in Nat /\ MaxHistory \in Nat /\ MaxFaults \in Nat

VARIABLES
  mailbox,    \* what Gmail shows now
  history,    \* its history: which message came (in) or went
  local,      \* live Gmail sources
  cursor,     \* sync_streams.cursor
  progress,   \* sync_streams.progress
  truncated,  \* sync_streams.truncated
  disabled,   \* sync_streams.status = 'disabled'
  next,       \* sync_streams.next_run_at: "none", "later", "due"
  keyed,      \* a job row has the key of this next_run_at
  conn,       \* connections.state
  scoped,     \* connections.scopes has the Gmail scope
  refresh,    \* stored refresh token: "none", "valid", "dead"
  access,     \* stored access token: "none", "fresh", "old", "void" (fresh but refused)
  job,        \* the live sync job: "none", "queued", "running"
  attempts,   \* its attempts
  pc,         \* where the worker is
  run,        \* what it holds in memory
  requests, faults  \* bounds

remote == <<mailbox, history>>
stream == <<cursor, progress, truncated>>
poll   == <<disabled, next, keyed>>
grant  == <<conn, scoped, refresh, access>>
queue  == <<job, attempts>>
worker == <<pc, run>>
bounds == <<requests, faults>>
vars   == <<remote, local, stream, poll, grant, queue, worker, bounds>>

Positions  == Nat \cup {None}
NoProgress == [phase |-> "none", start |-> None, page |-> None, fetched |-> 0]
NoPage     == [touched |-> {}, fetch |-> {}, next |-> None, seen |-> 0]
Idle       == [tok |-> FALSE, err |-> "none", prog |-> NoProgress, page |-> NoPage]

ProgressType == [phase   : {"none", "initial", "history"},
                 start   : Positions,
                 page    : Positions,
                 fetched : Nat]

TypeOK ==
  /\ mailbox \subseteq Messages /\ local \subseteq Messages
  /\ history \in Seq([id : Messages, in : BOOLEAN])
  /\ cursor \in Positions
  /\ progress \in ProgressType
  /\ truncated \in BOOLEAN /\ disabled \in BOOLEAN
  /\ next \in {"none", "later", "due"} /\ keyed \in BOOLEAN
  /\ conn \in {"active", "reconnect_required", "disconnected"}
  /\ scoped \in BOOLEAN
  /\ refresh \in {"none", "valid", "dead"}
  /\ access \in {"none", "fresh", "old", "void"}
  /\ job \in {"none", "queued", "running"} /\ attempts \in Nat
  /\ pc \in {"idle", "start", "token", "read", "profile", "begin", "list", "import",
             "imported", "done", "history", "apply", "applied", "finish", "failing", "close"}
  /\ run \in [tok  : BOOLEAN,
              err  : {"none", "auth", "forbidden", "outage"},
              prog : ProgressType,
              page : [touched : SUBSET Messages, fetch : SUBSET Messages,
                      next : Positions, seen : Nat]]
  /\ requests \in Nat /\ faults \in Nat

\* A first consent has been stored: store_grant created the stream.
Init ==
  /\ mailbox \in SUBSET Messages /\ history = <<>>
  /\ local = {} /\ cursor = None /\ progress = NoProgress /\ truncated = FALSE
  /\ disabled = FALSE /\ next = "due" /\ keyed = FALSE
  /\ conn = "active" /\ scoped = TRUE /\ refresh = "valid" /\ access = "fresh"
  /\ job = "none" /\ attempts = 0
  /\ pc = "idle" /\ run = Idle
  /\ requests = 0 /\ faults = 0

-----------------------------------------------------------------------------
(* The mailbox, and the clock *)

Change(m) ==
  /\ Len(history) < MaxHistory
  /\ mailbox' = IF m \in mailbox THEN mailbox \ {m} ELSE mailbox \cup {m}
  /\ history' = Append(history, [id |-> m, in |-> m \notin mailbox])
  /\ UNCHANGED <<local, stream, poll, grant, queue, worker, bounds>>

BecomeDue ==
  /\ next = "later"
  /\ next' = "due"
  /\ UNCHANGED <<remote, local, stream, disabled, keyed, grant, queue, worker, bounds>>

TokenAges ==
  /\ access \in {"fresh", "void"}
  /\ access' = "old"
  /\ UNCHANGED <<remote, local, stream, poll, conn, scoped, refresh, queue, worker, bounds>>

\* A run reads its token once; Google refuses it when its hour is over.
TokenExpires ==
  /\ run.tok
  /\ run' = [run EXCEPT !.tok = FALSE]
  /\ UNCHANGED <<remote, local, stream, poll, grant, queue, pc, bounds>>

-----------------------------------------------------------------------------
(* The user *)

Request(r) ==
  /\ r \in Requests
  /\ requests < MaxRequests
  /\ requests' = requests + 1
  /\ UNCHANGED faults

\* store_grant: Google may omit the refresh token, and may omit the scope.
StoreGrant(scope, offline) ==
  /\ Request("grant")
  /\ refresh' = IF offline THEN "valid" ELSE refresh
  /\ conn' = IF scope /\ refresh' = "none" THEN "reconnect_required" ELSE "active"
  /\ access' = "fresh"
  /\ scoped' = scope
  /\ CASE scope /\ conn' = "active" -> disabled' = FALSE /\ next' = "due" /\ keyed' = FALSE
       [] ~scope                    -> disabled' = TRUE /\ next' = "none" /\ UNCHANGED keyed
       [] OTHER                     -> UNCHANGED poll
  /\ UNCHANGED <<remote, local, stream, queue, worker>>

\* disconnect_google: the tokens are forgotten, and revoked (best effort).
Disconnect ==
  /\ Request("disconnect")
  /\ conn' = "disconnected" /\ refresh' = "none" /\ access' = "none"
  /\ disabled' = FALSE /\ next' = "none"
  /\ job' = "none"
  /\ \E revoked \in BOOLEAN : run' = [run EXCEPT !.tok = run.tok /\ ~revoked]
  /\ UNCHANGED <<remote, local, stream, keyed, scoped, attempts, pc, faults>>

\* External: the user withdraws the consent at Google.
RevokeAtGoogle ==
  /\ Request("revoke")
  /\ refresh = "valid"
  /\ refresh' = "dead"
  /\ access' = IF access = "fresh" THEN "void" ELSE access
  /\ run' = [run EXCEPT !.tok = FALSE]
  /\ UNCHANGED <<remote, local, stream, poll, conn, scoped, queue, pc>>

\* google_sync_now
SyncNow ==
  /\ Request("sync")
  /\ ~disabled /\ next \in {"none", "later"}
  /\ next' = "due" /\ keyed' = FALSE
  /\ UNCHANGED <<remote, local, stream, disabled, grant, queue, worker>>

\* google_delete: the data and the position, not the jobs.
DeleteData ==
  /\ Request("delete")
  /\ local' = {} /\ cursor' = None /\ progress' = NoProgress /\ truncated' = FALSE
  /\ disabled' = FALSE /\ next' = "none"
  /\ UNCHANGED <<remote, keyed, grant, queue, worker>>

-----------------------------------------------------------------------------
(* schedule and run_one *)

\* The guards of `_load`.
Loadable == conn = "active" /\ scoped

Schedule ==
  /\ pc = "idle"
  /\ Loadable /\ ~disabled /\ next = "due"
  /\ job = "none" /\ ~keyed
  /\ job' = "queued" /\ attempts' = 0 /\ keyed' = TRUE
  /\ UNCHANGED <<remote, local, stream, disabled, next, grant, worker, bounds>>

Claim ==
  /\ pc = "idle" /\ job = "queued"
  /\ job' = "running" /\ attempts' = attempts + 1
  /\ pc' = "start"
  /\ UNCHANGED <<remote, local, stream, poll, grant, run, bounds>>

\* An exception no one expected, or a lease that expires: the job is tried
\* again while it has attempts left.
Retried ==
  job' = IF job = "running" THEN IF attempts < MaxAttempts THEN "queued" ELSE "none"
         ELSE job

Fault ==
  /\ pc # "idle"
  /\ faults < MaxFaults /\ faults' = faults + 1
  /\ Retried
  /\ pc' = "idle" /\ run' = Idle
  /\ UNCHANGED <<remote, local, stream, poll, grant, attempts, requests>>

\* complete, or fail without a retry: nothing happens to a cancelled job.
Close ==
  /\ pc = "close"
  /\ job' = IF job = "running" THEN "none" ELSE job
  /\ pc' = "idle" /\ run' = Idle
  /\ UNCHANGED <<remote, local, stream, poll, grant, attempts, bounds>>

\* The heartbeat after each page.
Beat ==
  /\ pc \in {"imported", "applied"} /\ job = "running"
  /\ pc' = IF run.page.next # None THEN IF pc = "imported" THEN "list" ELSE "history"
           ELSE IF pc = "imported" THEN "done" ELSE "finish"
  /\ UNCHANGED <<remote, local, stream, poll, grant, queue, run, bounds>>

\* The job was cancelled: seen by that heartbeat, or by the one after each
\* message of a page of history.
LeaseLost ==
  /\ job # "running"
  /\ \/ pc \in {"imported", "applied"}
     \/ pc = "apply" /\ run.page.touched # {}
  /\ pc' = "idle" /\ run' = Idle
  /\ UNCHANGED <<remote, local, stream, poll, grant, queue, bounds>>

-----------------------------------------------------------------------------
(* run: from the job to the first request *)

\* The first transaction.  Its StreamStopped is not caught by `run`.
Start ==
  /\ pc = "start"
  /\ IF Loadable
     THEN /\ disabled' = FALSE
          /\ pc' = "token"
          /\ UNCHANGED <<queue, run>>
     ELSE /\ Retried
          /\ pc' = "idle" /\ run' = Idle
          /\ UNCHANGED <<disabled, attempts>>
  /\ UNCHANGED <<remote, local, stream, next, keyed, grant, bounds>>

\* StreamStopped: the stream was stopped meanwhile, and the run ends.
Stop ==
  /\ ~Loadable
  /\ pc \in {"token", "read", "begin", "import", "done", "apply"}
  /\ pc' = "close"
  /\ UNCHANGED <<remote, local, stream, poll, grant, queue, run, bounds>>

StoredToken ==
  /\ pc = "token" /\ Loadable
  /\ access \in {"fresh", "void"}
  /\ run' = [run EXCEPT !.tok = (access = "fresh")]
  /\ pc' = "read"
  /\ UNCHANGED <<remote, local, stream, poll, grant, queue, bounds>>

\* access_token: a scope the user withdrew disables its stream.
RefreshToken(scope) ==
  /\ pc = "token" /\ Loadable
  /\ access \in {"none", "old"} /\ refresh = "valid"
  /\ access' = "fresh" /\ scoped' = scope
  /\ IF scope THEN UNCHANGED poll
     ELSE disabled' = TRUE /\ next' = "none" /\ UNCHANGED keyed
  /\ run' = [run EXCEPT !.tok = TRUE]
  /\ pc' = "read"
  /\ UNCHANGED <<remote, local, stream, conn, refresh, queue, bounds>>

RefreshFails(err) ==
  /\ pc = "token" /\ Loadable
  /\ access \in {"none", "old"}
  /\ err = "auth" => refresh # "valid"
  /\ err = "outage" => refresh # "none"
  /\ run' = [run EXCEPT !.err = err]
  /\ pc' = "failing"
  /\ UNCHANGED <<remote, local, stream, poll, grant, queue, bounds>>

\* A page of history is only resumed under the cursor it was read from.
HistoryProgress ==
  [phase   |-> "history",
   start   |-> cursor,
   page    |-> IF progress.phase = "history" /\ progress.start = cursor THEN progress.page ELSE None,
   fetched |-> 0]

\* _gmail: an import that has begun is resumed, else the history read on.
Read ==
  /\ pc = "read" /\ Loadable
  /\ CASE progress.phase = "initial" -> pc' = "list" /\ run' = [run EXCEPT !.prog = progress]
       [] progress.phase # "initial" /\ cursor # None ->
            pc' = "history" /\ run' = [run EXCEPT !.prog = HistoryProgress]
       [] OTHER -> pc' = "profile" /\ UNCHANGED run
  /\ UNCHANGED <<remote, local, stream, poll, grant, queue, bounds>>

-----------------------------------------------------------------------------
(* Requests to Google *)

Asking == pc \in {"profile", "list", "history"}

AskFails(err) ==
  /\ Asking
  /\ err = "auth" => ~run.tok
  /\ err = "forbidden" => run.tok
  /\ run' = [run EXCEPT !.err = err]
  /\ pc' = "failing"
  /\ UNCHANGED <<remote, local, stream, poll, grant, queue, bounds>>

\* gmail_profile: where the history stands before anything is listed.
AskProfile ==
  /\ pc = "profile" /\ run.tok
  /\ run' = [run EXCEPT !.prog = [phase |-> "initial", start |-> Len(history),
                                  page |-> None, fetched |-> 0]]
  /\ pc' = "begin"
  /\ UNCHANGED <<remote, local, stream, poll, grant, queue, bounds>>

Older(anchor)  == {m \in mailbox : anchor = None \/ m < anchor}
Newest(S, n)   == {m \in S : Cardinality({k \in S : k > m}) < n}
Remaining      == MaxMessages - run.prog.fetched
ListSize       == IF Remaining < PageSize THEN Remaining ELSE PageSize
Oldest(S)      == CHOOSE m \in S : \A k \in S : m <= k

\* gmail_list: the newest messages older than the last page.
AskList ==
  /\ pc = "list" /\ run.tok /\ Remaining > 0
  /\ LET older  == Older(run.prog.page)
         listed == Newest(older, ListSize)
     IN  run' = [run EXCEPT !.page = [touched |-> {}, fetch |-> listed,
                                      next |-> IF listed = older THEN None ELSE Oldest(listed),
                                      seen |-> Len(history)]]
  /\ pc' = "import"
  /\ UNCHANGED <<remote, local, stream, poll, grant, queue, bounds>>

\* The import is as long as it may get: truncated if there was a next page.
ListFull ==
  /\ pc = "list" /\ Remaining <= 0
  /\ run' = [run EXCEPT !.page.next = run.prog.page]
  /\ pc' = "done"
  /\ UNCHANGED <<remote, local, stream, poll, grant, queue, bounds>>

Upto(from) == IF from + PageSize < Len(history) THEN from + PageSize ELSE Len(history)
Touched(from, upto) == {history[i].id : i \in (from + 1)..upto}
\* The last record of a message on the page says that it came.
Came(from, upto) ==
  {m \in Touched(from, upto) :
     \E i \in (from + 1)..upto :
        /\ history[i].id = m /\ history[i].in
        /\ \A k \in (i + 1)..upto : history[k].id # m}

AskHistory ==
  /\ pc = "history" /\ run.tok
  /\ LET from == IF run.prog.page = None THEN run.prog.start ELSE run.prog.page
         upto == Upto(from)
     IN  run' = [run EXCEPT !.page = [touched |-> Touched(from, upto), fetch |-> Came(from, upto),
                                      next |-> IF upto < Len(history) THEN upto ELSE None,
                                      seen |-> Len(history)]]
  /\ pc' = "apply"
  /\ UNCHANGED <<remote, local, stream, poll, grant, queue, bounds>>

\* A 404 of the cursor: a new bounded import.
CursorRefused ==
  /\ HistoryExpires
  /\ pc = "history" /\ run.tok
  /\ pc' = "profile"
  /\ UNCHANGED <<remote, local, stream, poll, grant, queue, run, bounds>>

-----------------------------------------------------------------------------
(* _apply: one page and its progress in one transaction *)

\* Mutant of Found: a message that could not be fetched is passed over.
FoundSome(fetch, seen) == {F \in SUBSET fetch : F \subseteq mailbox}

\* What fetching the messages finds, some time after the page was read: a
\* message that did not change since is found as it is.
ChangedSince(n) == {history[i].id : i \in (n + 1)..Len(history)}
Found(fetch, seen) ==
  {F \in SUBSET fetch : \A m \in fetch \ ChangedSince(seen) : m \in F <=> m \in mailbox}

ApplyBegin ==
  /\ pc = "begin" /\ Loadable
  /\ progress' = run.prog
  /\ pc' = "list"
  /\ UNCHANGED <<remote, local, cursor, truncated, poll, grant, queue, run, bounds>>

\* A message that went meanwhile is skipped, or removed if it is in the trash.
ApplyImport ==
  /\ pc = "import" /\ Loadable
  /\ \E found \in Found(run.page.fetch, run.page.seen) :
     \E trashed \in SUBSET (run.page.fetch \ found) :
       LET prog == [run.prog EXCEPT !.page = run.page.next,
                                    !.fetched = @ + Cardinality(found \cup trashed)]
       IN  /\ local' = (local \cup found) \ trashed
           /\ progress' = prog
           /\ run' = [run EXCEPT !.prog = prog]
  /\ pc' = "imported"
  /\ UNCHANGED <<remote, cursor, truncated, poll, grant, queue, bounds>>

ApplyDone ==
  /\ pc = "done" /\ Loadable
  /\ cursor' = run.prog.start /\ progress' = NoProgress
  /\ truncated' = (run.page.next # None)
  /\ pc' = "finish"
  /\ UNCHANGED <<remote, local, poll, grant, queue, run, bounds>>

\* Mutant of Advance: the cursor moves with the first page.
AdvanceEarly(page, prog) ==
  /\ cursor' = page.seen
  /\ progress' = IF page.next = None THEN NoProgress ELSE prog

\* The cursor only moves with the last page of the history.
Advance(page, prog) ==
  IF page.next # None THEN progress' = prog /\ UNCHANGED cursor
  ELSE cursor' = page.seen /\ progress' = NoProgress

\* One page of history; what is not found is removed.
ApplyHistory ==
  /\ pc = "apply" /\ Loadable
  /\ LET page == run.page
         prog == [run.prog EXCEPT !.page = page.next]
     IN  /\ \E found \in Found(page.fetch, page.seen) :
              local' = (local \ page.touched) \cup found
         /\ Advance(page, prog)
         /\ run' = [run EXCEPT !.prog = prog]
  /\ pc' = "applied"
  /\ UNCHANGED <<remote, truncated, poll, grant, queue, bounds>>

-----------------------------------------------------------------------------
(* The end of a run *)

\* Mutant of Finish: the next poll is not set.
FinishForGood ==
  /\ pc = "finish"
  /\ disabled' = FALSE
  /\ pc' = "close"
  /\ UNCHANGED <<remote, local, stream, next, keyed, grant, queue, run, bounds>>

Finish ==
  /\ pc = "finish"
  /\ disabled' = FALSE /\ next' = "later" /\ keyed' = FALSE
  /\ pc' = "close"
  /\ UNCHANGED <<remote, local, stream, grant, queue, run, bounds>>

\* _record_failure: "auth" marks the connection, whatever it has become.
RecordFailure ==
  /\ pc = "failing"
  /\ CASE run.err = "auth" ->
            /\ conn' = "reconnect_required" /\ access' = "none"
            /\ disabled' = FALSE /\ next' = "none" /\ job' = "none"
            /\ UNCHANGED keyed
       [] run.err = "forbidden" ->
            /\ disabled' = TRUE /\ next' = "none"
            /\ UNCHANGED <<conn, access, job, keyed>>
       [] OTHER ->
            /\ disabled' = FALSE /\ next' = "later" /\ keyed' = FALSE
            /\ UNCHANGED <<conn, access, job>>
  /\ pc' = "close"
  /\ UNCHANGED <<remote, local, stream, scoped, refresh, attempts, run, bounds>>

-----------------------------------------------------------------------------
Provider == \/ \E m \in Messages : Change(m)
            \/ BecomeDue \/ TokenAges \/ TokenExpires

User ==
  \/ \E scope \in Consents, offline \in BOOLEAN : StoreGrant(scope, offline)
  \/ Disconnect \/ RevokeAtGoogle \/ SyncNow \/ DeleteData

Ask ==
  \/ StoredToken
  \/ \E scope \in Consents : RefreshToken(scope)
  \/ AskProfile \/ AskList \/ AskHistory

AskAmiss ==
  \/ \E err \in {"auth", "outage"} : RefreshFails(err)
  \/ \E err \in {"auth", "forbidden", "outage"} : AskFails(err)
  \/ CursorRefused

Work ==
  \/ Schedule \/ Claim \/ Start \/ Read \/ Stop \/ Beat \/ LeaseLost
  \/ ApplyBegin \/ ApplyImport \/ ListFull \/ ApplyDone \/ ApplyHistory
  \/ Finish \/ RecordFailure \/ Close

Next == Provider \/ User \/ Ask \/ AskAmiss \/ Work \/ Fault

Spec == Init /\ [][Next]_vars

\* The clock runs, the worker's loop goes on, a request ends (each has a
\* timeout), and one that is made again and again is at last answered and not
\* only timed out or throttled: granted, or refused for its token.
Answer(at) == pc = at /\ (Ask \/ AskFails("auth") \/ RefreshFails("auth"))

Fairness ==
  /\ WF_vars(BecomeDue)
  /\ WF_vars(Work) /\ WF_vars(Ask \/ AskAmiss)
  /\ \A at \in {"token", "profile", "list", "history"} : SF_vars(Answer(at))

FairSpec == Spec /\ Fairness

-----------------------------------------------------------------------------
\* Of these messages, those there are here and, unless an import replaced an
\* expired cursor, those here are there.
Agree(S) ==
  \A m \in S : /\ m \in mailbox /\ ~truncated => m \in local
               /\ m \in local /\ ~HistoryExpires => m \in mailbox

\* Messages whose last change the cursor covers are here as they are there: a
\* new cursor is stored "only after all pages it covers are processed".
CursorCovered == cursor # None => Agree(Messages \ ChangedSince(cursor))

\* What a run may skip when it resumes: the history up to the page it starts
\* with is applied, and the messages an import has passed are here.
ResumeSafe ==
  /\ progress.phase = "history" => Agree(Messages \ ChangedSince(progress.page))
  /\ progress.phase = "initial" /\ progress.page # None =>
       \A m \in mailbox \ ChangedSince(progress.start) : m >= progress.page => m \in local

\* A stream that is on is polled again: a job is live, or a time is set whose
\* job has not been enqueued yet.
KeepsPolling ==
  Loadable /\ next # "none" => job # "none" \/ next = "later" \/ ~keyed

\* "Revoked/expired grants become reconnect_required": not a grant that is in
\* order.
ReconnectMeansRevoked == conn = "reconnect_required" => refresh # "valid"

\* "deletions survive resync and in-flight jobs": once the imported data is
\* deleted, nothing is imported until the user asks for it.
DeletedStaysDeleted ==
  [][next = "none" /\ cursor = None /\ local = {} /\ progress = NoProgress
       => local' = {}]_vars

\* "limit reached: older items not imported" is shown when there are some.
TruncatedIsTrue ==
  truncated /\ history = <<>> => ~(mailbox \subseteq local)

\* While the stream is on, it catches up with a mailbox that comes to rest.
CatchesUp ==
  <>[](conn = "active" /\ scoped /\ next # "none") => []<>(local = mailbox)
=============================================================================
