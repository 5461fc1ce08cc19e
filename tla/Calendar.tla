------------------------------ MODULE Calendar ------------------------------
(***************************************************************************)
(* The synchronisation of the primary calendar (app/google_sync.py,        *)
(* _calendar and what it calls), one stream with one worker.  Its driver,  *)
(* grant and scheduler are those of GoogleSync, which models them in full: *)
(* here a stream is on or off, due or not, and a request may fail.         *)
(*                                                                         *)
(* The calendar is external: each event has a day and is live or           *)
(* cancelled, and its history says which event changed.  The application   *)
(* sees it in two ways.  A window refresh lists, page by page, the events  *)
(* of the days around today; its last page brings a sync token.  An        *)
(* increment lists what changed since such a token, wherever it is.  Days  *)
(* go by without any event changing, so that the window moves over events  *)
(* no increment will ever name: it has to be refreshed every day.          *)
(***************************************************************************)
EXTENDS Integers, Sequences, FiniteSets

CONSTANTS Events,        \* event ids, in the order Google lists them
          Days,          \* the days an event may be on
          Past, Future,  \* calendar_past_days, calendar_future_days
          PageSize,      \* maxResults: events in a page, at most
          MaxEvents,     \* calendar_max_events
          TokensExpire,  \* Google may refuse a sync token (410)
          MaxToday,      \* bound: days that go by
          MaxChanges,    \* bound: changes of the calendar
          MaxMishaps     \* bound: requests of the user and crashes of the worker

None == -1

ASSUME CalendarAssumption ==
  /\ Events \subseteq Nat \ {0} /\ IsFiniteSet(Events)
  /\ Days \subseteq Nat
  /\ {Past, Future, MaxToday, MaxChanges, MaxMishaps} \subseteq Nat
  /\ {PageSize, MaxEvents} \subseteq Nat \ {0}
  /\ TokensExpire \in BOOLEAN

VARIABLES
  calendar,   \* what Google holds of each event
  history,    \* which event changed, in order
  today,
  local,      \* the day each live calendar source is on, or None
  cursor,     \* sync_streams.cursor: a sync token
  progress,   \* sync_streams.progress
  truncated,  \* sync_streams.truncated
  emptied,    \* history: deleted with the imported data during a run, and not read since
  on,         \* the connection is active and has the scope
  next,       \* sync_streams.next_run_at: "none", "later", "due"
  pc,         \* where the worker is
  run,        \* what it holds in memory
  mishaps     \* bound

google == <<calendar, history, today>>
stream == <<cursor, progress, truncated, emptied>>
poll   == <<on, next>>
worker == <<pc, run>>
vars   == <<google, local, stream, poll, worker, mishaps>>

Event  == [day : Days \cup {None}, live : BOOLEAN]
Absent == [day |-> None, live |-> FALSE]
Unread == [day |-> None, live |-> TRUE]     \* no record of it in this run

\* A page token: the listing it goes on with, and the last event it showed.
Token   == [at : Nat \cup {None}, after : Nat]
First   == [at |-> None, after |-> 0]
\* A sync token: the changes it covers, and the day of the window it is of.
Cursor   == [at : Nat \cup {None}, day : Nat]
NoCursor == [at |-> None, day |-> 0]
\* day stands for min and max, fresh for a recent window_refreshed_at.
Progress   == [window : BOOLEAN, page : Token, fetched : 0..MaxEvents, day : Nat, fresh : BOOLEAN]
NoProgress == [window |-> FALSE, page |-> First, fetched |-> 0, day |-> 0, fresh |-> FALSE]
Idle == [prog |-> NoProgress, cursor |-> NoCursor, read |-> [e \in Events |-> Unread],
         page |-> First, sync |-> NoCursor, cut |-> FALSE, lost |-> FALSE]

TypeOK ==
  /\ calendar \in [Events -> Event]
  /\ history \in Seq(Events)
  /\ today \in Nat
  /\ local \in [Events -> Days \cup {None}]
  /\ cursor \in Cursor /\ progress \in Progress /\ truncated \in BOOLEAN
  /\ emptied \subseteq Events
  /\ on \in BOOLEAN /\ next \in {"none", "later", "due"}
  /\ pc \in {"idle", "changes", "advance", "gone", "page", "store", "done", "finish"}
  /\ run \in [prog : Progress, cursor : Cursor, read : [Events -> Event], page : Token,
              sync : Cursor, cut : BOOLEAN, lost : BOOLEAN]
  /\ mishaps \in Nat

\* A first consent has been stored: store_grant created the stream.
Init ==
  /\ calendar \in [Events -> {Absent} \cup [day : Days, live : {TRUE}]]
  /\ history = <<>> /\ today = 0
  /\ local = [e \in Events |-> None]
  /\ cursor = NoCursor /\ progress = NoProgress /\ truncated = FALSE /\ emptied = {}
  /\ on = TRUE /\ next = "due"
  /\ pc = "idle" /\ run = Idle
  /\ mishaps = 0

-----------------------------------------------------------------------------
(* The calendar and the clock *)

\* An event is created, moved, cancelled or restored.
Change(e, event) ==
  /\ Len(history) < MaxChanges
  /\ event # calendar[e] /\ (calendar[e] = Absent => event.live)
  /\ calendar' = [calendar EXCEPT ![e] = event]
  /\ history' = Append(history, e)
  /\ UNCHANGED <<today, local, stream, poll, worker, mishaps>>

\* WINDOW_REFRESH_HOURS go by, and as many days as there are in them.
Day ==
  /\ today' \in {today, today + 1} /\ today' <= MaxToday
  /\ progress' = [progress EXCEPT !.fresh = FALSE]
  /\ progress' # progress \/ today' # today
  /\ UNCHANGED <<calendar, history, local, cursor, truncated, emptied, poll, worker, mishaps>>

BecomeDue ==
  /\ next = "later"
  /\ next' = "due"
  /\ UNCHANGED <<google, local, stream, on, worker, mishaps>>

-----------------------------------------------------------------------------
(* The user *)

Mishap == mishaps < MaxMishaps /\ mishaps' = mishaps + 1

Request == Mishap /\ UNCHANGED <<google, local, stream, pc>>

\* store_grant, with the scope; disconnect_google cancels the job.
Grant      == Request /\ on' = TRUE /\ next' = "due" /\ UNCHANGED run
Disconnect == Request /\ on' = FALSE /\ next' = "none" /\ run' = [run EXCEPT !.lost = (pc # "idle")]
SyncNow    == Request /\ next # "due" /\ next' = "due" /\ UNCHANGED <<on, run>>

\* google_delete.  A job that is queued, or that runs, goes on.
DeleteData ==
  /\ Mishap
  /\ local' = [e \in Events |-> None]
  /\ cursor' = NoCursor /\ progress' = NoProgress /\ truncated' = FALSE
  /\ emptied' = IF pc = "idle" THEN {} ELSE emptied \cup {e \in Events : local[e] # None}
  /\ \/ next' = next /\ (pc # "idle" \/ next = "due")
     \/ next' = "none" /\ pc = "idle"
  /\ UNCHANGED <<google, on, worker>>

-----------------------------------------------------------------------------
(* run *)

Remaining == MaxEvents - run.prog.fetched

End == pc' = "idle" /\ run' = Idle

\* StreamStopped: a transaction finds the stream off.
Stop ==
  /\ ~on /\ pc \in {"advance", "gone", "store", "done"}
  /\ End
  /\ UNCHANGED <<google, local, stream, poll, mishaps>>

\* The worker dies; the job is tried again.
Crash ==
  /\ pc # "idle"
  /\ Mishap
  /\ End
  /\ UNCHANGED <<google, local, stream, poll>>

\* A request fails: _record_failure backs off.
AskFails ==
  /\ \/ pc = "changes"
     \/ pc = "page" /\ Remaining > 0
  /\ next' = "later"
  /\ End
  /\ UNCHANGED <<google, local, stream, on, mishaps>>

Finish ==
  /\ pc = "finish"
  /\ next' = "later"
  /\ End
  /\ UNCHANGED <<google, local, stream, on, mishaps>>

\* The heartbeat after each page, which ends the run if its job was cancelled.
Beat(then, held) ==
  IF run.lost THEN End ELSE pc' = then /\ run' = held

-----------------------------------------------------------------------------
(* _calendar: what to do *)

NewWindow == [window |-> TRUE, page |-> First, fetched |-> 0, day |-> today, fresh |-> FALSE]

\* Mutant of WindowDue: only the first window is.
WindowDueOnce == FALSE

WindowDue == ~progress.fresh

\* From the job to the first request: nothing is written but the status.
Start ==
  /\ pc = "idle" /\ on /\ next = "due"
  /\ IF cursor # NoCursor /\ ~WindowDue /\ ~progress.window
     THEN pc' = "changes" /\ run' = [run EXCEPT !.cursor = cursor]
     ELSE /\ pc' = "page"
          /\ run' = [run EXCEPT !.prog = IF progress.window THEN progress ELSE NewWindow]
  /\ UNCHANGED <<google, local, stream, poll, mishaps>>

-----------------------------------------------------------------------------
(* _calendar_incremental *)

Smallest(S, n)    == {e \in S : Cardinality({f \in S : f < e}) < n}
Largest(S)        == CHOOSE e \in S : \A f \in S : f <= e
ChangedSince(n)   == {history[i] : i \in (n + 1)..Len(history)}
After(page, S)    == {e \in S : e > page.after}
\* The changes a listing covers are those before its first page.
At(page)          == IF page = First THEN Len(history) ELSE page.at
NextPage(p, S, page) == IF page = S THEN First ELSE [at |-> At(p), after |-> Largest(page)]
Records(read, page)  == [e \in Events |-> IF e \in page THEN calendar[e] ELSE read[e]]

\* calendar_incremental: a page of what changed since the token, in memory.
AskChanges(size) ==
  /\ pc = "changes"
  /\ LET rest == After(run.page, ChangedSince(run.cursor.at))
         page == Smallest(rest, size)
     IN  Beat(IF page = rest THEN "advance" ELSE "changes",
              [run EXCEPT !.read = Records(run.read, page),
                          !.page = NextPage(run.page, rest, page),
                          !.sync = [at |-> At(run.page), day |-> run.cursor.day]])
  /\ UNCHANGED <<google, local, stream, poll, mishaps>>

\* upsert of each record: a cancelled event is removed.
Upserted(read) ==
  [e \in Events |-> IF read[e] = Unread THEN local[e]
                    ELSE IF read[e].live THEN read[e].day ELSE None]
Seen(read) == {e \in Events : read[e] # Unread}

Advance ==
  /\ pc = "advance" /\ on
  /\ local' = Upserted(run.read) /\ emptied' = emptied \ Seen(run.read)
  /\ cursor' = run.sync
  /\ pc' = "finish"
  /\ UNCHANGED <<google, progress, truncated, poll, run, mishaps>>

\* A 410: the token is forgotten, then the window is listed.
TokenRefused ==
  /\ TokensExpire
  /\ pc = "changes"
  /\ pc' = "gone" /\ run' = [Idle EXCEPT !.lost = run.lost]
  /\ UNCHANGED <<google, local, stream, poll, mishaps>>

Forget ==
  /\ pc = "gone" /\ on
  /\ cursor' = NoCursor
  /\ pc' = "page" /\ run' = [run EXCEPT !.prog = NewWindow]
  /\ UNCHANGED <<google, local, progress, truncated, emptied, poll, mishaps>>

-----------------------------------------------------------------------------
(* _calendar_window *)

Window(day) == (day - Past)..(day + Future)
\* The time filters see where an event is now; showDeleted shows it cancelled.
Listed(day) == {e \in Events : calendar[e] # Absent /\ calendar[e].day \in Window(day)}

\* calendar_window: one page, cut to what may still be imported.
AskPage(size) ==
  /\ pc = "page" /\ Remaining > 0
  /\ LET rest == After(run.prog.page, Listed(run.prog.day))
         page == Smallest(rest, size)
         following == NextPage(run.prog.page, rest, page)
         cut == Cardinality(page) > Remaining
     IN  run' = [run EXCEPT !.read = Records(Idle.read, Smallest(page, Remaining)),
                            !.page = IF cut THEN First ELSE following,
                            !.cut  = cut,
                            !.sync = IF following # First THEN NoCursor
                                     ELSE [at |-> At(run.prog.page), day |-> run.prog.day]]
  /\ pc' = "store"
  /\ UNCHANGED <<google, local, stream, poll, mishaps>>

\* As many as may be were imported, and there was a next page.
WindowFull ==
  /\ pc = "page" /\ Remaining <= 0
  /\ run' = [run EXCEPT !.cut = TRUE, !.sync = NoCursor]
  /\ pc' = "done"
  /\ UNCHANGED <<google, local, stream, poll, mishaps>>

StorePage ==
  /\ pc = "store" /\ on
  /\ LET prog == [run.prog EXCEPT !.page = run.page, !.fetched = @ + Cardinality(Seen(run.read))]
     IN  /\ progress' = prog
         /\ Beat(IF run.page # First THEN "page" ELSE "done", [run EXCEPT !.prog = prog])
  /\ local' = Upserted(run.read) /\ emptied' = emptied \ Seen(run.read)
  /\ UNCHANGED <<google, cursor, truncated, poll, mishaps>>

\* Mutant of NewCursor: a token is taken whenever there is one.
NewCursorAlways == run.sync

\* Never a cursor from a window that was cut.
NewCursor == IF run.cut THEN NoCursor ELSE run.sync

Done ==
  /\ pc = "done" /\ on
  /\ cursor' = NewCursor
  /\ truncated' = run.cut
  /\ progress' = [NoProgress EXCEPT !.fresh = TRUE]
  /\ pc' = "finish"
  /\ UNCHANGED <<google, local, emptied, poll, run, mishaps>>

-----------------------------------------------------------------------------
Google == \/ \E e \in Events, event \in [day : Days, live : BOOLEAN] : Change(e, event)
          \/ Day \/ BecomeDue
User   == Grant \/ Disconnect \/ SyncNow \/ DeleteData
Amiss  == AskFails \/ TokenRefused \/ Crash
Work   == \/ Start \/ Stop \/ Advance \/ Forget
          \/ WindowFull \/ StorePage \/ Done \/ Finish

\* A page may be shorter than was asked for.
Ask == \E size \in 1..PageSize : AskChanges(size) \/ AskPage(size)

Next == Google \/ User \/ Amiss \/ Work \/ Ask

Spec == Init /\ [][Next]_vars

\* The clock runs, the worker's loop goes on, and a page that is asked for
\* again and again is at last answered.
Fairness ==
  /\ WF_vars(BecomeDue) /\ WF_vars(Day) /\ WF_vars(Work)
  /\ \A n \in {0} \cup {e \in Events : \E f \in Events : f > e} :
       /\ SF_vars(pc = "changes" /\ run.page.after = n /\ Ask)
       /\ SF_vars(pc = "page" /\ run.prog.page.after = n /\ Ask)

FairSpec == Spec /\ Fairness

-----------------------------------------------------------------------------
(* Properties *)

Held(e) == local[e] = IF calendar[e].live THEN calendar[e].day ELSE None

\* "Persist a new provider sync cursor only after all pages it covers are
\* processed", and never one from a truncated window: what is in the window of
\* a stored token, and has not changed since, is here as it is at Google.  What
\* the user deleted under a run, and no run has read again, is exempt: the run
\* goes on behind the pages it had stored, and stores its token.
WindowCovered ==
  cursor # NoCursor =>
    \A e \in Listed(cursor.day) \ ChangedSince(cursor.at) : e \in emptied \/ Held(e)

\* The same of everything.  A deletion during a run breaks it.
WindowComplete ==
  cursor # NoCursor => \A e \in Listed(cursor.day) \ ChangedSince(cursor.at) : Held(e)

\* "Honor updates, cancellations and provider deletions": what is here and has
\* not changed since the token is there.  A window refresh that takes the place
\* of an increment breaks it.
NothingStale ==
  cursor # NoCursor =>
    \A e \in Events \ ChangedSince(cursor.at) : local[e] # None => Held(e)

\* A stream that stays on comes to hold the window of today, though nothing
\* tells it of the events the days bring into it, and though tokens are refused
\* and runs fail, as long as the window is not larger than what may be imported.
CatchesUp ==
  <>[](on /\ next # "none" /\ Cardinality(Listed(today)) <= MaxEvents)
    => []<>(\A e \in Listed(today) : Held(e))
=============================================================================
