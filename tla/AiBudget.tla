------------------------------ MODULE AiBudget ------------------------------
(***************************************************************************)
(* The daily token budgets of the AI calls (app/ai.py): a call reserves an *)
(* estimate against its workspace's budget and the global one, waits for   *)
(* one of the process's slots, asks the provider, and replaces the         *)
(* reservation by what was billed.  Midnight (UTC) may fall anywhere in    *)
(* between, and the process may die.                                       *)
(*                                                                         *)
(* reserve and reconcile are one transaction each.  Their UPDATEs lock the *)
(* budget rows in the same order, the workspace's before the global one,   *)
(* so that two of them run one after the other: each is one action.        *)
(***************************************************************************)
EXTENDS Integers, FiniteSets, FiniteSetsExt

CONSTANTS Calls,           \* calls of generate or embed
          Workspaces,
          WorkspaceOf,     \* who makes each call
          Estimates,       \* what a call may be estimated at
          Bills,           \* what the provider may bill
          WorkspaceLimit,  \* ai_daily_tokens_workspace
          GlobalLimit,     \* ai_daily_tokens_global
          Slots,           \* ai_concurrency, of one process
          MaxDay           \* bound: midnights

Global == "global"
Scopes == Workspaces \cup {Global}
Limit(s) == IF s = Global THEN GlobalLimit ELSE WorkspaceLimit
Days == 0..MaxDay

ASSUME AiBudgetAssumption ==
  /\ Global \notin Workspaces
  /\ WorkspaceOf \in [Calls -> Workspaces]
  /\ Estimates \subseteq Nat \ {0} /\ Bills \subseteq Nat
  /\ WorkspaceLimit \in Nat /\ GlobalLimit \in Nat
  /\ Slots \in Nat \ {0}
  /\ MaxDay \in Nat

VARIABLES
  today,     \* the date, UTC
  tokens,    \* usage_budgets
  pc,        \* where each call is
  usage,     \* the provider_usage row of each call: status, day, reserved, billed
  answer     \* what the provider said: tokens billed, or Unknown

vars == <<today, tokens, pc, usage, answer>>

Unknown == -1
NoUsage == [status |-> "none", day |-> 0, reserved |-> 0, billed |-> Unknown]

TypeOK ==
  /\ today \in Days
  /\ tokens \in [Scopes -> [Days -> Nat]]
  /\ pc \in [Calls -> {"idle", "dated", "waiting", "calling", "answered", "ended", "lost"}]
  /\ usage \in [Calls -> [status   : {"none", "reserved", "reconciled", "failed"},
                          day      : Days,
                          reserved : Nat,
                          billed   : Nat \cup {Unknown}]]
  /\ answer \in [Calls -> [failed : BOOLEAN, billed : Nat \cup {Unknown}]]

Init ==
  /\ today = 0
  /\ tokens = [s \in Scopes |-> [d \in Days |-> 0]]
  /\ pc = [c \in Calls |-> "idle"]
  /\ usage = [c \in Calls |-> NoUsage]
  /\ answer = [c \in Calls |-> [failed |-> FALSE, billed |-> Unknown]]

-----------------------------------------------------------------------------
\* _scopes, for the operator's tier: the only one generator_for returns.
ScopesOf(c) == {WorkspaceOf[c], Global}

Midnight ==
  /\ today < MaxDay
  /\ today' = today + 1
  /\ UNCHANGED <<tokens, pc, usage, answer>>

\* reserve looks at the date before it opens its transaction.
Begin(c) ==
  /\ pc[c] = "idle"
  /\ pc' = [pc EXCEPT ![c] = "dated"]
  /\ usage' = [usage EXCEPT ![c].day = today]
  /\ UNCHANGED <<today, tokens, answer>>

\* Mutant of Fits: the global budget is not asked.
FitsWorkspace(c, n) ==
  tokens[WorkspaceOf[c]][usage[c].day] + n <= WorkspaceLimit

\* TAKE_SQL of each scope.
Fits(c, n) == \A s \in ScopesOf(c) : tokens[s][usage[c].day] + n <= Limit(s)

\* The budget rows of scopes on day d move by delta, but not below zero.
Adjust(scopes, d, delta) ==
  tokens' = [s \in Scopes |->
               IF s \in scopes
               THEN [tokens[s] EXCEPT ![d] = IF @ + delta < 0 THEN 0 ELSE @ + delta]
               ELSE tokens[s]]

Reserve(c, n) ==
  /\ pc[c] = "dated"
  /\ Fits(c, n)
  /\ Adjust(ScopesOf(c), usage[c].day, n)
  /\ usage' = [usage EXCEPT ![c].status = "reserved", ![c].reserved = n]
  /\ pc' = [pc EXCEPT ![c] = "waiting"]
  /\ UNCHANGED <<today, answer>>

\* BudgetExhausted: rolled back, whichever scope refused.
Refuse(c, n) ==
  /\ pc[c] = "dated"
  /\ ~Fits(c, n)
  /\ pc' = [pc EXCEPT ![c] = "ended"]
  /\ UNCHANGED <<today, tokens, usage, answer>>

Acquire(c) ==
  /\ pc[c] = "waiting"
  /\ Cardinality({k \in Calls : pc[k] = "calling"}) < Slots
  /\ pc' = [pc EXCEPT ![c] = "calling"]
  /\ UNCHANGED <<today, tokens, usage, answer>>

\* Mutant of Return: an exception nobody expected goes past reconcile.
ReturnOrEscape(c, failed, billed) ==
  /\ pc[c] = "calling"
  /\ ~failed => billed # Unknown
  /\ answer' = [answer EXCEPT ![c] = [failed |-> failed, billed |-> billed]]
  /\ pc' = [pc EXCEPT ![c] = IF billed = Unknown THEN "ended" ELSE "answered"]
  /\ UNCHANGED <<today, tokens, usage>>

\* The call returns and the slot is free again: with usable output, with a
\* failure whose cost is known (0 when the provider did no work), or with a
\* failure whose cost is not.
Return(c, failed, billed) ==
  /\ pc[c] = "calling"
  /\ ~failed => billed # Unknown
  /\ answer' = [answer EXCEPT ![c] = [failed |-> failed, billed |-> billed]]
  /\ pc' = [pc EXCEPT ![c] = "answered"]
  /\ UNCHANGED <<today, tokens, usage>>

\* Mutant of ChargedDay: the books are corrected under today's date.
ChargedToday(c) == today

\* A failure of unknown cost keeps its reservation.
Correction(c) ==
  IF answer[c].billed = Unknown THEN 0 ELSE answer[c].billed - usage[c].reserved

\* The budget rows of the day of the reservation.
ChargedDay(c) == usage[c].day

Reconcile(c) ==
  /\ pc[c] = "answered"
  /\ Adjust(ScopesOf(c), ChargedDay(c), Correction(c))
  /\ usage' = [usage EXCEPT ![c].status = IF answer[c].failed THEN "failed" ELSE "reconciled",
                            ![c].billed = answer[c].billed]
  /\ pc' = [pc EXCEPT ![c] = "ended"]
  /\ UNCHANGED <<today, answer>>

\* The process dies; its semaphore goes with it.
Die(c) ==
  /\ pc[c] \in {"dated", "waiting", "calling", "answered"}
  /\ pc' = [pc EXCEPT ![c] = "lost"]
  /\ UNCHANGED <<today, tokens, usage, answer>>

Step(c) ==
  \/ Begin(c)
  \/ \E n \in Estimates : Reserve(c, n) \/ Refuse(c, n)
  \/ Acquire(c)
  \/ \E failed \in BOOLEAN, billed \in Bills \cup {Unknown} : Return(c, failed, billed)
  \/ Reconcile(c)

Next == Midnight \/ \E c \in Calls : Step(c) \/ Die(c)

Spec == Init /\ [][Next]_vars

\* Every provider call has a timeout, and every exit of _generate_on and embed
\* goes through reconcile.  The semaphore wakes its waiters in turn.
Fairness == \A c \in Calls : WF_vars(Step(c) /\ pc[c] # "idle") /\ SF_vars(Acquire(c))

FairSpec == Spec /\ Fairness

-----------------------------------------------------------------------------
\* What a call counts for: what it was billed, or its reservation while that
\* is not known.
Charge(c) ==
  CASE usage[c].status = "none"      -> 0
    [] usage[c].billed # Unknown     -> usage[c].billed
    [] OTHER                         -> usage[c].reserved

\* "Committed tokens (outstanding reservations + reconciled usage) per scope
\* and day": the counters agree with the usage rows, whatever failed, died or
\* was answered after midnight.
BudgetMatchesUsage ==
  \A s \in Scopes, d \in Days :
    tokens[s][d] = MapThenSumSet(Charge, {c \in Calls : s \in ScopesOf(c) /\ usage[c].day = d})

\* What reserve could not foresee: a bill above the estimate.
Overbilled(c) == usage[c].billed > usage[c].reserved

\* As long as no call was billed more than its estimate, no budget is exceeded.
WithinLimit ==
  (\A c \in Calls : ~Overbilled(c)) => \A s \in Scopes, d \in Days : tokens[s][d] <= Limit(s)

\* A call that reserved settles its reservation, unless its process dies.
ReservationSettles ==
  \A c \in Calls : (usage[c].status = "reserved") ~> (usage[c].status # "reserved" \/ pc[c] = "lost")
=============================================================================
