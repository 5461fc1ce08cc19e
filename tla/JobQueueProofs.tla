--------------------------- MODULE JobQueueProofs ---------------------------
(***************************************************************************)
(* Proofs about JobQueue, for every set of jobs, every number of workers   *)
(* and every max_attempts.                                                 *)
(*                                                                         *)
(* AttemptsAccounted is inductive together with TypeOK, and TypeOK needs   *)
(* it: that attempts - 1 is a natural number in `defer` is the fact that a *)
(* row with an owner has paid an attempt.                                  *)
(***************************************************************************)
EXTENDS JobQueue, FiniteSetTheorems, TLAPS

Accounts == TypeOK /\ AttemptsAccounted

\* No row exists at first.
LEMMA AccountsInit == Init => Accounts
BY JobQueueAssumption DEF Init, Accounts, TypeOK, AttemptsAccounted, Statuses

\* The statements of the web process, the scheduler and the clock.
LEMMA AccountsEnvironment ==
  ASSUME Accounts,
         \/ \E j \in Jobs : Enqueue(j) \/ BecomeDue(j) \/ LeaseExpires(j)
         \/ Cancel
  PROVE  Accounts'
<1> USE JobQueueAssumption DEF Accounts, TypeOK, AttemptsAccounted, Statuses, Settled, local
<1>1. ASSUME NEW j \in Jobs, Enqueue(j) PROVE Accounts'
  BY <1>1 DEF Enqueue
<1>2. ASSUME NEW j \in Jobs, BecomeDue(j) PROVE Accounts'
  BY <1>2 DEF BecomeDue
<1>3. ASSUME NEW j \in Jobs, LeaseExpires(j) PROVE Accounts'
  BY <1>3 DEF LeaseExpires
<1>4. CASE Cancel
  BY <1>4 DEF Cancel
<1>5. QED
  BY <1>1, <1>2, <1>3, <1>4

\* The statements of a worker.
LEMMA AccountsWorker ==
  ASSUME Accounts, NEW w \in Workers, Worker(w)
  PROVE  Accounts'
<1> USE JobQueueAssumption
    DEF Accounts, TypeOK, AttemptsAccounted, Statuses, Settled, row, local, Release, Holds
<1>1. CASE Start(w)
  BY <1>1 DEF Start
<1>2. CASE Crash(w)
  BY <1>2 DEF Crash
<1>3. ASSUME NEW j \in Jobs, Claim(w, j) PROVE Accounts'
  BY <1>3 DEF Claim, Claimable, Swept
<1>4. CASE ClaimNothing(w)
  BY <1>4 DEF ClaimNothing, Swept
<1>5. CASE Renew(w)
  BY <1>5 DEF Renew
<1>6. CASE LoseLease(w)
  BY <1>6 DEF LoseLease
<1>7. CASE Complete(w)
  BY <1>7, ZenonT(30) DEF Complete
<1>8. CASE Defer(w)
  <2>1. task[w] \in Jobs
    BY <1>8 DEF Defer
  <2>2. CASE owner[task[w]] = w
    <3>1. owner[task[w]] # NoWorker /\ attempts[task[w]] - 1 \in Nat
      BY <2>1, <2>2
    <3>. DEFINE j == task[w]
    <3>a. /\ status' = [status EXCEPT ![j] = "queued"]
          /\ due' = [due EXCEPT ![j] = FALSE]
          /\ attempts' = [attempts EXCEPT ![j] = @ - 1]
          /\ owner' = [owner EXCEPT ![j] = NoWorker]
          /\ expired' = [expired EXCEPT ![j] = FALSE]
      BY <1>8, <2>2, Zenon DEF Defer
    <3>2. attempts' \in [Jobs -> Nat]
      BY <3>1, <3>a
    <3>3. /\ status' \in [Jobs -> Statuses]
          /\ due' \in [Jobs -> BOOLEAN]
          /\ owner' \in [Jobs -> Workers \cup {NoWorker}]
          /\ expired' \in [Jobs -> BOOLEAN]
      BY <2>1, <3>a
    <3>4. /\ pc' \in [Workers -> {"off", "idle", "busy", "failing", "gone"}]
          /\ task' \in [Workers -> Jobs \cup {NoJob}]
          /\ tried' \in [Workers -> Nat]
          /\ final' \in [Workers -> BOOLEAN]
      BY <1>8 DEF Defer
    <3>5. AttemptsAccounted'
      BY <2>1, <3>1, <3>a
    <3>6. QED
      BY <3>2, <3>3, <3>4, <3>5
  <2>3. CASE owner[task[w]] # w
    BY <1>8, <2>3 DEF Defer
  <2>4. QED
    BY <2>2, <2>3
<1>9. CASE FailRead(w)
  <2>1. ASSUME NEW j, NEW retry PROVE IsFinal(j, retry) \in BOOLEAN
    BY DEF IsFinal
  <2>2. UNCHANGED row
    BY <1>9 DEF FailRead
  <2>3. AttemptsAccounted'
    BY <2>2
  <2>4. final' \in [Workers -> BOOLEAN]
    <3>1. \E b \in BOOLEAN : final' = [final EXCEPT ![w] = b]
      BY <1>9, <2>1, Zenon DEF FailRead
    <3>2. QED
      BY <3>1
  <2>5. TypeOK'
    BY <1>9, <2>2, <2>4 DEF FailRead
  <2>6. QED
    BY <2>3, <2>5
<1>10. CASE FailWrite(w)
  BY <1>10 DEF FailWrite
<1>11. QED
  BY <1>1, <1>2, <1>3, <1>4, <1>5, <1>6, <1>7, <1>8, <1>9, <1>10 DEF Worker

LEMMA AccountsNext == Accounts /\ [Next]_vars => Accounts'
<1> SUFFICES ASSUME Accounts, [Next]_vars PROVE Accounts'
  OBVIOUS
<1>1. ASSUME NEW w \in Workers, Worker(w) PROVE Accounts'
  BY <1>1, AccountsWorker
<1>2. CASE UNCHANGED vars
  BY <1>2 DEF vars, Accounts, TypeOK, AttemptsAccounted
<1>3. QED
  BY <1>1, <1>2, AccountsEnvironment DEF Next

\* Every variable of the queue keeps its type (jobs.attempts never becomes
\* negative: defer gives back only an attempt its row has paid).
THEOREM TypeCorrect == Spec => []TypeOK
<1>1. Accounts => TypeOK
  BY DEF Accounts
<1>2. QED
  BY <1>1, AccountsInit, AccountsNext, PTL DEF Spec

\* However workers, crashes, cancellations and lost leases interleave, no job
\* is attempted more than max_attempts times net of deferrals, and a running
\* row has an owner that paid for it.
THEOREM AttemptsCorrect == Spec => []AttemptsAccounted
<1>1. Accounts => AttemptsAccounted
  BY DEF Accounts
<1>2. QED
  BY <1>1, AccountsInit, AccountsNext, PTL DEF Spec

-----------------------------------------------------------------------------
(***************************************************************************)
(* One worker at a time, the deployed shape.  While a worker holds a job   *)
(* nobody else sweeps, claims or reads it; only `cancel` can touch the     *)
(* row, so what the worker writes goes over "running" or "cancelled" and   *)
(* never over an outcome.                                                  *)
(***************************************************************************)
OneUp == \A v, w \in Up : v = w

HoldsOrCancelled(w) ==
  /\ task[w] \in Jobs
  /\ \/ Holds(w, task[w])
     \/ status[task[w]] = "cancelled" /\ owner[task[w]] = NoWorker

Held ==
  \A w \in Workers : pc[w] \in {"busy", "failing"} => HoldsOrCancelled(w)

RetriesLeft ==
  \A w \in Workers :
    pc[w] = "failing" /\ ~final[w] => attempts[task[w]] < MaxAttempts[task[w]]

Fresh == \A j \in Jobs : status[j] = "absent" => attempts[j] = 0

OneAtATime ==
  Accounts /\ OneUp /\ Held /\ RetriesLeft /\ Fresh /\ QueuedIsClaimable

LEMMA OneAtATimeInit == Init => OneAtATime
<1> SUFFICES ASSUME Init PROVE OneAtATime
  OBVIOUS
<1>1. Accounts
  BY AccountsInit
<1>2. OneUp /\ Held /\ RetriesLeft /\ Fresh /\ QueuedIsClaimable
  BY DEF Init, OneUp, Up, Held, RetriesLeft, Fresh, QueuedIsClaimable
<1>3. QED
  BY <1>1, <1>2 DEF OneAtATime

\* A worker starts only when no other one is up.
LEMMA StartsAlone ==
  ASSUME Concurrency = 1, NEW w \in Workers, Start(w)
  PROVE  Up = {}
<1>1. IsFiniteSet(Up)
  BY JobQueueAssumption, FS_Subset DEF Up
<1>2. Cardinality(Up) \in Nat /\ Cardinality(Up) < 1
  BY <1>1, FS_CardinalityType DEF Start
<1>3. QED
  BY <1>1, <1>2, FS_EmptySet

\* Up shrinks, except when a worker starts.
LEMMA UpStaysAlone ==
  ASSUME Concurrency = 1, OneUp, TypeOK, [Next]_vars
  PROVE  OneUp'
<1> USE DEF OneUp, Up, TypeOK
<1>1. ASSUME NEW w \in Workers, Start(w) PROVE OneUp'
  <2>1. Up = {}
    BY <1>1, StartsAlone
  <2>2. pc' = [pc EXCEPT ![w] = "idle"]
    BY <1>1 DEF Start
  <2>3. QED
    BY <2>1, <2>2
<1>2. ASSUME NEW w \in Workers, Worker(w), ~Start(w) PROVE OneUp'
  <2>1. \/ pc' = pc
        \/ w \in Up /\ \E p : pc' = [pc EXCEPT ![w] = p]
    BY <1>2 DEF Worker, Crash, Claim, ClaimNothing, Renew, LoseLease, Complete, Defer,
                FailRead, FailWrite, Release, local
  <2>2. QED
    BY <2>1
<1>3. CASE UNCHANGED local
  BY <1>3 DEF local
<1>4. QED
  BY <1>1, <1>2, <1>3
  DEF Next, vars, Enqueue, Cancel, BecomeDue, LeaseExpires, local

Exclusive == Held /\ RetriesLeft /\ Fresh /\ QueuedIsClaimable

\* The web process, the scheduler and the clock never write a row a worker
\* holds, except to cancel it.
LEMMA EnvironmentLeavesHeld ==
  ASSUME OneAtATime,
         \/ \E j \in Jobs : Enqueue(j) \/ BecomeDue(j) \/ LeaseExpires(j)
         \/ Cancel
  PROVE  Exclusive'
<1> USE JobQueueAssumption
    DEF OneAtATime, Accounts, TypeOK, AttemptsAccounted, Statuses, Settled, local,
        Exclusive, Held, HoldsOrCancelled, Holds, RetriesLeft, Fresh, QueuedIsClaimable
<1>1. ASSUME NEW j \in Jobs, Enqueue(j) PROVE Exclusive'
  BY <1>1 DEF Enqueue
<1>2. ASSUME NEW j \in Jobs, BecomeDue(j) PROVE Exclusive'
  BY <1>2 DEF BecomeDue
<1>3. ASSUME NEW j \in Jobs, LeaseExpires(j) PROVE Exclusive'
  BY <1>3 DEF LeaseExpires
<1>4. CASE Cancel
  BY <1>4 DEF Cancel
<1>5. QED
  BY <1>1, <1>2, <1>3, <1>4

\* What a worker writes keeps the row of every job that is held by another
\* one: there is no other one.
LEMMA WorkerKeepsHeld ==
  ASSUME OneAtATime, NEW w \in Workers, Worker(w)
  PROVE  Exclusive'
<1> USE JobQueueAssumption
    DEF OneAtATime, Accounts, TypeOK, AttemptsAccounted, Statuses, Settled, row, local,
        Exclusive, Held, HoldsOrCancelled, Holds, RetriesLeft, Fresh, QueuedIsClaimable,
        OneUp, Up, Release
<1>1. CASE Start(w)
  BY <1>1 DEF Start
<1>2. CASE Crash(w)
  BY <1>2 DEF Crash
<1>3. ASSUME NEW j \in Jobs, Claim(w, j) PROVE Exclusive'
  BY <1>3 DEF Claim, Claimable, Swept, Exhausted
<1>4. CASE ClaimNothing(w)
  BY <1>4 DEF ClaimNothing, Swept, Exhausted
<1>5. CASE Renew(w)
  BY <1>5 DEF Renew
<1>6. CASE LoseLease(w)
  BY <1>6 DEF LoseLease
<1>7. CASE Complete(w)
  BY <1>7 DEF Complete
<1>8. CASE Defer(w)
  BY <1>8 DEF Defer
<1>9. CASE FailRead(w)
  <2>1. UNCHANGED row
    BY <1>9 DEF FailRead
  <2>2. CASE Release(w)
    BY <1>9, <2>1, <2>2 DEF FailRead
  <2>3. CASE ~Release(w)
    <3>1. PICK retry \in Retries(w) :
            /\ pc' = [pc EXCEPT ![w] = "failing"]
            /\ task' = task
            /\ final' = [final EXCEPT ![w] = IsFinal(task[w], retry)]
      BY <1>9, <2>3, Zenon DEF FailRead
    <3>2. IsFinal(task[w], retry) = FALSE => attempts[task[w]] < MaxAttempts[task[w]]
      BY <1>9 DEF IsFinal, FailRead
    <3>3. IsFinal(task[w], retry) \in BOOLEAN
      BY DEF IsFinal
    <3>4. QED
      BY <1>9, <2>1, <3>1, <3>2, <3>3 DEF FailRead
  <2>4. QED
    BY <2>2, <2>3
<1>10. CASE FailWrite(w)
  BY <1>10 DEF FailWrite
<1>11. QED
  BY <1>1, <1>2, <1>3, <1>4, <1>5, <1>6, <1>7, <1>8, <1>9, <1>10 DEF Worker

LEMMA OneAtATimeNext ==
  ASSUME Concurrency = 1
  PROVE  OneAtATime /\ [Next]_vars => OneAtATime'
<1> SUFFICES ASSUME OneAtATime, [Next]_vars PROVE OneAtATime'
  OBVIOUS
<1>1. Accounts'
  BY AccountsNext DEF OneAtATime
<1>2. OneUp'
  BY UpStaysAlone DEF OneAtATime, Accounts
<1>3. Exclusive'
  <2>1. ASSUME NEW w \in Workers, Worker(w) PROVE Exclusive'
    BY <2>1, WorkerKeepsHeld
  <2>2. CASE UNCHANGED vars
    BY <2>2 DEF vars, OneAtATime, Exclusive, Held, HoldsOrCancelled, Holds, RetriesLeft,
                Fresh, QueuedIsClaimable
  <2>3. QED
    BY <2>1, <2>2, EnvironmentLeavesHeld DEF Next
<1>4. QED
  BY <1>1, <1>2, <1>3 DEF OneAtATime, Exclusive

OutcomeKept == \A j \in Jobs : status[j] \in {"done", "failed"} => status'[j] = status[j]

LEMMA OneAtATimeKeepsOutcomes == OneAtATime /\ [Next]_vars => OutcomeKept
<1> SUFFICES ASSUME OneAtATime, [Next]_vars PROVE OutcomeKept
  OBVIOUS
<1> USE DEF OneAtATime, Accounts, TypeOK, Held, HoldsOrCancelled, Holds, OneUp, Up, OutcomeKept,
            row, local
<1>1. ASSUME NEW j \in Jobs, Enqueue(j) \/ BecomeDue(j) \/ LeaseExpires(j) PROVE OutcomeKept
  BY <1>1 DEF Enqueue, BecomeDue, LeaseExpires
<1>2. CASE Cancel
  BY <1>2 DEF Cancel
<1>3. ASSUME NEW w \in Workers, Worker(w) PROVE OutcomeKept
  <2>1. CASE Start(w) \/ Crash(w) \/ Renew(w) \/ LoseLease(w) \/ FailRead(w)
    BY <2>1 DEF Start, Crash, Renew, LoseLease, FailRead
  <2>2. CASE ClaimNothing(w) \/ \E j \in Jobs : Claim(w, j)
    BY <2>2 DEF ClaimNothing, Claim, Claimable, Swept, Exhausted
  <2>3. CASE Complete(w) \/ Defer(w) \/ FailWrite(w)
    BY <2>3, ZenonT(30) DEF Complete, Defer, FailWrite
  <2>4. QED
    BY <1>3, <2>1, <2>2, <2>3 DEF Worker
<1>4. CASE UNCHANGED vars
  BY <1>4 DEF vars
<1>5. QED
  BY <1>1, <1>2, <1>3, <1>4 DEF Next

\* With one worker process at a time, however often it crashes and is
\* replaced, a done or failed job keeps its outcome.
THEOREM OneWorkerOutcomes ==
  ASSUME Concurrency = 1
  PROVE  Spec => OutcomeStands
<1>1. OneAtATime /\ [Next]_vars => OneAtATime'
  BY OneAtATimeNext
<1>2. OneAtATime /\ [Next]_vars => [OutcomeKept]_vars
  BY OneAtATimeKeepsOutcomes
<1>3. QED
  BY <1>1, <1>2, OneAtATimeInit, PTL DEF Spec, OutcomeStands, OutcomeKept

\* With one worker process at a time no queued job is stranded with its
\* attempts used up.
THEOREM OneWorkerClaimable ==
  ASSUME Concurrency = 1
  PROVE  Spec => []QueuedIsClaimable
<1>1. OneAtATime /\ [Next]_vars => OneAtATime'
  BY OneAtATimeNext
<1>2. OneAtATime => QueuedIsClaimable
  BY DEF OneAtATime
<1>3. QED
  BY <1>1, <1>2, OneAtATimeInit, PTL DEF Spec
=============================================================================
