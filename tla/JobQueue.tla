------------------------------ MODULE JobQueue ------------------------------
(***************************************************************************)
(* The PostgreSQL job queue (app/jobs.py) and the loop of the background   *)
(* workers that drain it (worker/main.py), for the jobs of one active      *)
(* workspace.  A job is named by its idempotency key: the unique index on  *)
(* (workspace, key) allows one row per key for ever.                       *)
(*                                                                         *)
(* Each SQL statement that commits on its own is one action.  `fail` is    *)
(* two: it reads the row with a plain SELECT and writes it back, by id     *)
(* only, when the session commits.  Time is abstracted to two facts about  *)
(* a row, both made true by the clock: it is due (run_after <= now) and    *)
(* its lease has expired (lease_expires_at < now).                         *)
(*                                                                         *)
(* A member of Workers is one worker process, known by its OWNER string: a *)
(* restarted worker has a new one.  At most Concurrency of them run at the *)
(* same time.                                                              *)
(***************************************************************************)
EXTENDS Integers, FiniteSets

CONSTANTS Jobs,         \* idempotency keys
          SyncJobs,     \* sync_gmail and sync_calendar: they renew the lease
          AIJobs,       \* embed_chunk and extract_chunk: they can be deferred
          MaxAttempts,  \* max_attempts of each job
          Workers,      \* worker processes (OWNER strings)
          Concurrency,  \* how many workers the deployment runs at once
          NoWorker,     \* lease_owner IS NULL
          NoJob         \* the worker holds no job

ASSUME JobQueueAssumption ==
  /\ SyncJobs \subseteq Jobs
  /\ AIJobs \subseteq Jobs \ SyncJobs
  /\ MaxAttempts \in [Jobs -> Nat \ {0}]
  /\ Concurrency \in Nat \ {0}
  /\ IsFiniteSet(Workers)
  /\ NoWorker \notin Workers
  /\ NoJob \notin Jobs

VARIABLES
  status,    \* jobs.status, "absent" when there is no row with that key
  attempts,  \* jobs.attempts
  due,       \* run_after <= now()
  owner,     \* jobs.lease_owner
  expired,   \* lease_expires_at < now()
  pc,        \* where each worker is in run_one
  task,      \* the job a worker holds (the detached Job object)
  tried,     \* job.attempts of that detached object
  final      \* the decision `fail` took from the row it read

row    == <<status, attempts, due, owner, expired>>
local  == <<pc, task, tried, final>>
vars   == <<status, attempts, due, owner, expired, pc, task, tried, final>>

Settled  == {"done", "failed", "cancelled"}
Statuses == {"absent", "queued", "running"} \cup Settled
Up       == {w \in Workers : pc[w] \in {"idle", "busy", "failing"}}

TypeOK ==
  /\ status \in [Jobs -> Statuses]
  /\ attempts \in [Jobs -> Nat]
  /\ due \in [Jobs -> BOOLEAN]
  /\ owner \in [Jobs -> Workers \cup {NoWorker}]
  /\ expired \in [Jobs -> BOOLEAN]
  /\ pc \in [Workers -> {"off", "idle", "busy", "failing", "gone"}]
  /\ task \in [Workers -> Jobs \cup {NoJob}]
  /\ tried \in [Workers -> Nat]
  /\ final \in [Workers -> BOOLEAN]

Init ==
  /\ status = [j \in Jobs |-> "absent"]
  /\ attempts = [j \in Jobs |-> 0]
  /\ due = [j \in Jobs |-> FALSE]
  /\ owner = [j \in Jobs |-> NoWorker]
  /\ expired = [j \in Jobs |-> FALSE]
  /\ pc = [w \in Workers |-> "off"]
  /\ task = [w \in Workers |-> NoJob]
  /\ tried = [w \in Workers |-> 0]
  /\ final = [w \in Workers |-> FALSE]

-----------------------------------------------------------------------------
(* The web process, the scheduler and the clock *)

\* Mutant of Enqueue: ON CONFLICT DO UPDATE, which starts a settled job anew.
EnqueueUpsert(j) ==
  /\ status[j] \notin {"queued", "running"}
  /\ status' = [status EXCEPT ![j] = "queued"]
  /\ attempts' = [attempts EXCEPT ![j] = 0]
  /\ \E now \in BOOLEAN : due' = [due EXCEPT ![j] = now]
  /\ UNCHANGED <<owner, expired, local>>

\* enqueue: ON CONFLICT (workspace, key) DO NOTHING, whatever the status of
\* the row that exists.  run_after is now or later.
Enqueue(j) ==
  /\ status[j] = "absent"
  /\ status' = [status EXCEPT ![j] = "queued"]
  /\ \E now \in BOOLEAN : due' = [due EXCEPT ![j] = now]
  /\ UNCHANGED <<attempts, owner, expired, local>>

\* cancel with kinds = SYNC_KINDS (mark_reconnect, disconnect_google).
Cancel ==
  LET hit == {j \in SyncJobs : status[j] \in {"queued", "running"}}
  IN  /\ hit # {}
      /\ status'  = [j \in Jobs |-> IF j \in hit THEN "cancelled" ELSE status[j]]
      /\ owner'   = [j \in Jobs |-> IF j \in hit THEN NoWorker ELSE owner[j]]
      /\ expired' = [j \in Jobs |-> IF j \in hit THEN FALSE ELSE expired[j]]
      /\ UNCHANGED <<attempts, due, local>>

BecomeDue(j) ==
  /\ status[j] = "queued" /\ ~due[j]
  /\ due' = [due EXCEPT ![j] = TRUE]
  /\ UNCHANGED <<status, attempts, owner, expired, local>>

LeaseExpires(j) ==
  /\ status[j] = "running" /\ ~expired[j]
  /\ expired' = [expired EXCEPT ![j] = TRUE]
  /\ UNCHANGED <<status, attempts, due, owner, local>>

-----------------------------------------------------------------------------
(* A worker process *)

Start(w) ==
  /\ pc[w] = "off"
  /\ Cardinality(Up) < Concurrency
  /\ pc' = [pc EXCEPT ![w] = "idle"]
  /\ UNCHANGED <<row, task, tried, final>>

\* The process ends anywhere between two commits.  Bound: the last OWNER of
\* Workers does not crash, since nothing would be left to run.
Crash(w) ==
  /\ w \in Up
  /\ \E v \in Workers : pc[v] = "off"
  /\ pc' = [pc EXCEPT ![w] = "gone"]
  /\ task' = [task EXCEPT ![w] = NoJob]
  /\ tried' = [tried EXCEPT ![w] = 0]
  /\ final' = [final EXCEPT ![w] = FALSE]
  /\ UNCHANGED row

\* Mutant of Exhausted: claim without its sweep.
NotSwept == {}

\* The first statement of claim: expired leases whose attempts are exhausted
\* become failed.  It leaves lease_owner as it is.
Exhausted == {j \in Jobs : /\ status[j] = "running" /\ expired[j]
                           /\ attempts[j] >= MaxAttempts[j]}
Swept == [j \in Jobs |-> IF j \in Exhausted THEN "failed" ELSE status[j]]

\* Mutants of Claimable: no limit on the attempts; expired leases not taken.
ClaimableForEver(j) ==
  \/ status[j] = "queued" /\ due[j]
  \/ status[j] = "running" /\ expired[j]

ClaimableIfQueued(j) ==
  status[j] = "queued" /\ due[j] /\ attempts[j] < MaxAttempts[j]

\* The WHERE clause of CLAIM_SQL.
Claimable(j) ==
  /\ \/ status[j] = "queued" /\ due[j]
     \/ status[j] = "running" /\ expired[j]
  /\ attempts[j] < MaxAttempts[j]

\* Mutant of Claim: only sync jobs pay an attempt.
ClaimUncounted(w, j) ==
  /\ pc[w] = "idle"
  /\ Claimable(j)
  /\ status' = [Swept EXCEPT ![j] = "running"]
  /\ attempts' = [attempts EXCEPT ![j] = IF j \in SyncJobs THEN @ + 1 ELSE @]
  /\ owner' = [owner EXCEPT ![j] = w]
  /\ expired' = [expired EXCEPT ![j] = FALSE]
  /\ pc' = [pc EXCEPT ![w] = "busy"]
  /\ task' = [task EXCEPT ![w] = j]
  /\ tried' = [tried EXCEPT ![w] = attempts[j] + 1]
  /\ UNCHANGED <<due, final>>

\* claim found a job: sweep and claim commit together.  ORDER BY run_after
\* shows in the fairness of Claim.
Claim(w, j) ==
  /\ pc[w] = "idle"
  /\ Claimable(j)
  /\ status' = [Swept EXCEPT ![j] = "running"]
  /\ attempts' = [attempts EXCEPT ![j] = @ + 1]
  /\ owner' = [owner EXCEPT ![j] = w]
  /\ expired' = [expired EXCEPT ![j] = FALSE]
  /\ pc' = [pc EXCEPT ![w] = "busy"]
  /\ task' = [task EXCEPT ![w] = j]
  /\ tried' = [tried EXCEPT ![w] = attempts[j] + 1]
  /\ UNCHANGED <<due, final>>

\* claim found nothing; the sweep still commits.
ClaimNothing(w) ==
  /\ pc[w] = "idle"
  /\ \A j \in Jobs : ~Claimable(j)
  /\ Exhausted # {}
  /\ status' = Swept
  /\ UNCHANGED <<attempts, due, owner, expired, local>>

Holds(w, j) == owner[j] = w /\ status[j] = "running"

\* run_one returns: the worker looks for its next job.
Release(w) ==
  /\ pc' = [pc EXCEPT ![w] = "idle"]
  /\ task' = [task EXCEPT ![w] = NoJob]
  /\ tried' = [tried EXCEPT ![w] = 0]
  /\ final' = [final EXCEPT ![w] = FALSE]

\* Heartbeat of a sync job: renew, or LeaseLost when the row is not ours.
Renew(w) ==
  /\ pc[w] = "busy" /\ task[w] \in SyncJobs
  /\ Holds(w, task[w])
  /\ expired' = [expired EXCEPT ![task[w]] = FALSE]
  /\ UNCHANGED <<status, attempts, due, owner, local>>

LoseLease(w) ==
  /\ pc[w] = "busy" /\ task[w] \in SyncJobs
  /\ ~Holds(w, task[w])
  /\ Release(w)
  /\ UNCHANGED row

\* The handler returned.  complete matches owner and status and its result
\* is not looked at.
Complete(w) ==
  /\ pc[w] = "busy"
  /\ LET j == task[w] IN
       IF Holds(w, j)
       THEN /\ status' = [status EXCEPT ![j] = "done"]
            /\ owner' = [owner EXCEPT ![j] = NoWorker]
            /\ expired' = [expired EXCEPT ![j] = FALSE]
            /\ UNCHANGED <<attempts, due>>
       ELSE UNCHANGED row
  /\ Release(w)

\* BudgetExhausted, or a rate-limited provider.  defer matches the owner but
\* not the status.
Defer(w) ==
  /\ pc[w] = "busy" /\ task[w] \in AIJobs
  /\ LET j == task[w] IN
       IF owner[j] = w
       THEN /\ status' = [status EXCEPT ![j] = "queued"]
            /\ due' = [due EXCEPT ![j] = FALSE]
            /\ attempts' = [attempts EXCEPT ![j] = @ - 1]
            /\ owner' = [owner EXCEPT ![j] = NoWorker]
            /\ expired' = [expired EXCEPT ![j] = FALSE]
       ELSE UNCHANGED row
  /\ Release(w)

\* How the handler can fail: GoogleError is not retried, InvalidOutput is
\* retried once, any other exception until the attempts are used up.
Retries(w) ==
  {TRUE} \cup (IF task[w] \in SyncJobs THEN {FALSE} ELSE {})
         \cup (IF task[w] \in AIJobs THEN {tried[w] < 2} ELSE {})

\* Mutant of IsFinal: one attempt too many.
IsFinalTooLate(j, retry) == ~retry \/ attempts[j] > MaxAttempts[j]

IsFinal(j, retry) == ~retry \/ attempts[j] >= MaxAttempts[j]

\* fail, first half: read the row and decide.
FailRead(w) ==
  /\ pc[w] = "busy"
  /\ LET j == task[w] IN
       IF owner[j] # w
       THEN Release(w)
       ELSE /\ pc' = [pc EXCEPT ![w] = "failing"]
            /\ \E retry \in Retries(w) :
                 final' = [final EXCEPT ![w] = IsFinal(j, retry)]
            /\ UNCHANGED <<task, tried>>
  /\ UNCHANGED row

\* fail, second half: the flush at commit updates the row by id.
FailWrite(w) ==
  /\ pc[w] = "failing"
  /\ LET j == task[w] IN
       /\ status' = [status EXCEPT ![j] = IF final[w] THEN "failed" ELSE "queued"]
       /\ owner' = [owner EXCEPT ![j] = NoWorker]
       /\ expired' = [expired EXCEPT ![j] = FALSE]
       /\ due' = [due EXCEPT ![j] = IF final[w] THEN @ ELSE FALSE]
  /\ Release(w)
  /\ UNCHANGED attempts

\* What the handler of w's job does next, other than renewing its lease.
Finish(w) == Complete(w) \/ Defer(w) \/ FailRead(w)

Worker(w) ==
  \/ Start(w)
  \/ Crash(w)
  \/ \E j \in Jobs : Claim(w, j)
  \/ ClaimNothing(w)
  \/ Renew(w)
  \/ LoseLease(w)
  \/ Complete(w)
  \/ Defer(w)
  \/ FailRead(w)
  \/ FailWrite(w)

Next ==
  \/ \E j \in Jobs : Enqueue(j)
  \/ Cancel
  \/ \E j \in Jobs : BecomeDue(j)
  \/ \E j \in Jobs : LeaseExpires(j)
  \/ \E w \in Workers : Worker(w)

Spec == Init /\ [][Next]_vars

(***************************************************************************)
(* Fairness.  The clock runs, a stopped container is restarted (compose:   *)
(* restart unless-stopped), every handler ends (each provider call has a   *)
(* timeout) and a running worker keeps polling.  claim takes the oldest    *)
(* run_after first and a deferred job gets a later one, so a job that is   *)
(* claimable again and again is not passed over for ever: strong fairness  *)
(* per job.  Nothing is assumed of Enqueue, Cancel, Crash and Renew.       *)
(***************************************************************************)
Fairness ==
  /\ \A j \in Jobs : WF_vars(BecomeDue(j)) /\ WF_vars(LeaseExpires(j))
  /\ \A j \in Jobs : SF_vars(\E w \in Workers : Claim(w, j))
  /\ \A w \in Workers : WF_vars(ClaimNothing(w)) /\ WF_vars(FailWrite(w))
  /\ \A w \in Workers : SF_vars(Finish(w))
  /\ WF_vars(\E w \in Workers : Start(w))

FairSpec == Spec /\ Fairness

-----------------------------------------------------------------------------
(* Properties *)

\* The attempt counter stays within the budget of the job, and a row that
\* has a lease owner has paid an attempt for that lease: a defer gives back
\* an attempt once only, and no claim is made past max_attempts.
AttemptsAccounted ==
  \A j \in Jobs :
    /\ attempts[j] <= MaxAttempts[j]
    /\ owner[j] # NoWorker => attempts[j] >= 1
    /\ status[j] = "running" => owner[j] # NoWorker

\* A queued job can still be claimed: none waits with its attempts used up,
\* where no claim and no sweep ever sees it again.
QueuedIsClaimable ==
  \A j \in Jobs : status[j] = "queued" => attempts[j] < MaxAttempts[j]

\* A job that completed or failed keeps that outcome (a cancelled one may not:
\* `fail` writes by id).
OutcomeStands ==
  [][\A j \in Jobs : status[j] \in {"done", "failed"} => status'[j] = status[j]]_vars

\* A job whose worker crashed is recovered once its lease expires: it does
\* not stay running in the name of a process that is gone.
CrashedIsRecovered ==
  \A j \in Jobs : \A w \in Workers :
    (Holds(w, j) /\ pc[w] = "gone") ~> ~Holds(w, j)

\* A job that cannot be deferred settles, through crashes, lost leases and
\* retries: its attempts are a bound on the work spent on it.
Settles ==
  \A j \in Jobs \ AIJobs : (status[j] = "queued") ~> (status[j] \in Settled)

=============================================================================
