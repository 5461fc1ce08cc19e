------------------------------- MODULE Cutover -------------------------------
(***************************************************************************)
(* Changing the embedding model while the system runs: the administrator's *)
(* settings (app/operator_settings.py, app/admin.py), the snapshot of them *)
(* that the web application and the worker keep (app/ai.py), the chunks    *)
(* and their embeddings per space (app/memory.py), and the cutover to a    *)
(* space that is complete (worker/main.py, reconcile_ai).                  *)
(*                                                                         *)
(* A space is a model with its dimension and contract.  The chunks are     *)
(* those of all workspaces; a chunk of the same key may come back.  There  *)
(* is one worker (deploy/compose), so that its steps alternate with those  *)
(* of the administrators and of the web application only.  A first         *)
(* configuration, bootstrap from files and the fake provider are left out. *)
(*                                                                         *)
(* `edits` and `raced` are history: how many changes administrators and    *)
(* the worker made, and whether two of them were written at once.          *)
(***************************************************************************)
EXTENDS Integers, FiniteSets, FiniteSetsExt

CONSTANTS Chunks, Spaces, Admins,
          First,       \* the space configured at first
          Batch,       \* what a pass enqueues of a space
          MaxSaves,    \* bound: candidates administrators test
          MaxMishaps   \* bound: AI disabled, rebuilds cancelled, chunks removed,
                       \* failures of the provider and crashes

ASSUME CutoverAssumption ==
  /\ First \in Spaces /\ Batch \in Nat \ {0}
  /\ MaxSaves \in Nat /\ MaxMishaps \in Nat

VARIABLES
  active, pending, enabled, revision,  \* operator_settings
  edits, raced,
  form,       \* the candidate each administrator tests
  snapshot,   \* the worker's operator tier: its space, or off
  chunks,     \* the chunks there are
  embeddings, \* pairs of a chunk and a space
  job,        \* the embed job of each pair, by its idempotency key; "gone" is
              \*   queued too, and names a chunk_id that is no more
  pc,         \* the worker: idle, rebuild, embed, check or promote
  item,       \* the pair it works on
  targets,    \* embedding_targets as it read them
  saves, mishaps

settings == <<active, pending, enabled, revision, edits, raced>>
index    == <<chunks, embeddings, job>>
worker   == <<pc, item, targets>>
bounds   == <<saves, mishaps>>
vars     == <<settings, form, snapshot, index, worker, bounds>>

None      == "none"
Off       == "off"
Pairs     == Chunks \X Spaces

TypeOK ==
  /\ active \in Spaces /\ pending \in Spaces \cup {None}
  /\ enabled \in BOOLEAN /\ raced \in BOOLEAN
  /\ revision \in 0..edits /\ edits \in Nat
  /\ \A a \in Admins : /\ Cardinality(form[a]) <= 1
                       /\ \A f \in form[a] : /\ f.space \in Spaces /\ f.revision \in 0..edits
                                             /\ f.step \in {"test", "write"} /\ f.staged \in BOOLEAN
  /\ snapshot \in Spaces \cup {Off}
  /\ chunks \subseteq Chunks /\ embeddings \subseteq chunks \X Spaces
  /\ job \in [Pairs -> {"none", "queued", "gone", "running", "done", "failed"}]
  /\ pc \in {"idle", "rebuild", "embed", "check", "promote"}
  /\ item \subseteq Pairs /\ Cardinality(item) = (IF pc \in {"rebuild", "embed"} THEN 1 ELSE 0)
  /\ \A p \in Pairs : job[p] = "running" <=> pc = "embed" /\ p \in item
  /\ targets \subseteq Spaces

Init ==
  /\ active = First /\ pending = None /\ enabled = TRUE /\ revision = 0
  /\ edits = 0 /\ raced = FALSE
  /\ form = [a \in Admins |-> {}]
  /\ snapshot = First
  /\ chunks = {} /\ embeddings = {}
  /\ job = [p \in Pairs |-> "none"]
  /\ pc = "idle" /\ item = {} /\ targets = {}
  /\ saves = 0 /\ mishaps = 0

-----------------------------------------------------------------------------
(* Settings *)

\* build_operator.
Tier == IF enabled THEN active ELSE Off

Mishap == mishaps < MaxMishaps /\ mishaps' = mishaps + 1 /\ UNCHANGED saves

\* The worker's tier is built anew when the settings have changed.
Refresh ==
  /\ snapshot # Tier
  /\ snapshot' = Tier
  /\ UNCHANGED <<settings, form, index, worker, bounds>>

\* The administrator opens the page, with its revision, and submits another
\* configuration; it is tested for as long as that takes.
Submit(a, space) ==
  /\ form[a] = {} /\ saves < MaxSaves
  /\ saves' = saves + 1
  /\ form' = [form EXCEPT ![a] = {[space |-> space, revision |-> revision, edits |-> edits,
                                   step |-> "test", current |-> 0, staged |-> FALSE]}]
  /\ UNCHANGED <<settings, snapshot, index, worker, mishaps>>

Drop(a) == form' = [form EXCEPT ![a] = {}]

TestFails(a) ==
  /\ \E f \in form[a] : f.step = "test"
  /\ Drop(a)
  /\ UNCHANGED <<settings, snapshot, index, worker, bounds>>

\* Mutant of CheckRevision: the revision is not looked at.
CheckNothing(a, f) ==
  /\ f \in form[a] /\ f.step = "test"
  /\ form' = [form EXCEPT ![a] = {[f EXCEPT !.step = "write", !.current = revision,
                                            !.staged = f.space # active]}]
  /\ UNCHANGED <<settings, snapshot, index, worker, bounds>>

\* set_openrouter reads the revision and the active model, ...
CheckRevision(a, f) ==
  /\ f \in form[a] /\ f.step = "test"
  /\ IF f.revision = revision
     THEN form' = [form EXCEPT ![a] = {[f EXCEPT !.step = "write", !.current = revision,
                                                 !.staged = f.space # active]}]
     ELSE Drop(a)
  /\ UNCHANGED <<settings, snapshot, index, worker, bounds>>

Writing == \E a \in Admins : \E f \in form[a] : f.step = "write"

\* ... and the candidate is written: another space is staged.
WriteSave(a, f) ==
  /\ f \in form[a] /\ f.step = "write"
  /\ Drop(a)
  /\ IF f.staged THEN pending' = f.space /\ UNCHANGED active
                 ELSE active' = f.space /\ UNCHANGED pending
  /\ enabled' = TRUE /\ revision' = f.current + 1 /\ edits' = edits + 1
  /\ raced' = (raced \/ pc = "promote" \/ \E b \in Admins \ {a} : \E g \in form[b] : g.step = "write")
  /\ UNCHANGED <<snapshot, index, worker, bounds>>

Switch ==
  /\ Mishap
  /\ edits' = edits + 1
  /\ raced' = (raced \/ pc = "promote" \/ Writing)
  /\ UNCHANGED <<active, revision, form, snapshot, index, worker>>

\* disable, also with the removal of the key.
Disable ==
  /\ Switch
  /\ enabled' = FALSE /\ UNCHANGED pending

CancelPending ==
  /\ pending # None
  /\ Switch
  /\ pending' = None /\ UNCHANGED enabled

-----------------------------------------------------------------------------
(* The worker *)

\* Mutant of Targets: the staged space is left to later.
TargetsActive == {snapshot} \ {Off}

\* embedding_targets: the snapshot's space and the staged one of the database.
Targets == IF snapshot = Off THEN {}
           ELSE {snapshot} \cup ({pending} \ {None})

Becomes(at, what, read) ==
  /\ pc' = at /\ item' = what /\ targets' = read
  /\ UNCHANGED <<settings, form, snapshot>>

Idle == Becomes("idle", {}, {})

Enqueued(P) == [p \in Pairs |-> IF p \in P /\ job[p] = "none" THEN "queued" ELSE job[p]]

\* rebuild_conversation plans a chunk and reads the targets, ...
Rebuild(c) ==
  /\ pc = "idle" /\ c \notin chunks
  /\ Becomes("rebuild", {<<c, First>>}, Targets)
  /\ UNCHANGED <<index, bounds>>

\* ... and commits it with a job for each.
Rebuilt(c) ==
  /\ pc = "rebuild" /\ item = {<<c, First>>}
  /\ chunks' = chunks \cup {c}
  /\ job' = Enqueued({c} \X targets)
  /\ Idle
  /\ UNCHANGED <<embeddings, bounds>>

\* A chunk of the same key has another id when it comes back.
Orphaned(c) == [p \in Pairs |-> IF p[1] = c /\ job[p] = "queued" THEN "gone" ELSE job[p]]

\* Mutant of Remove: the embeddings stay.
RemoveChunk(c) ==
  /\ Mishap
  /\ c \in chunks
  /\ chunks' = chunks \ {c}
  /\ job' = Orphaned(c)
  /\ UNCHANGED <<settings, form, snapshot, embeddings, worker>>

\* A message of the chunk changes or goes; its embeddings go with it.
Remove(c) ==
  /\ Mishap
  /\ c \in chunks
  /\ chunks' = chunks \ {c}
  /\ embeddings' = {e \in embeddings : e[1] # c}
  /\ job' = Orphaned(c)
  /\ UNCHANGED <<settings, form, snapshot, worker>>

Ends(p, how) == job' = [job EXCEPT ![p] = how]
Again(p)     == IF p[1] \in chunks THEN "queued" ELSE "gone"

\* embed_chunk: the provider of the job's space, or there is nothing to do.
Embed(p) ==
  /\ pc = "idle" /\ job[p] \in {"queued", "gone"}
  /\ IF p[2] \notin Targets \/ job[p] = "gone" \/ p \in embeddings
     THEN Ends(p, "done") /\ Idle
     ELSE Ends(p, "running") /\ Becomes("embed", {p}, {})
  /\ UNCHANGED <<chunks, embeddings, bounds>>

\* After the call: stored, unless the chunk is gone by now.
Embedded(p) ==
  /\ pc = "embed" /\ item = {p}
  /\ embeddings' = IF p[1] \in chunks THEN embeddings \cup {p} ELSE embeddings
  /\ Ends(p, "done") /\ Idle
  /\ UNCHANGED <<chunks, bounds>>

\* The provider fails, for now or at the last attempt.
EmbedFails(p) ==
  /\ pc = "embed" /\ item = {p}
  /\ Mishap
  /\ \E how \in {Again(p), "failed"} : Ends(p, how)
  /\ Idle
  /\ UNCHANGED <<chunks, embeddings>>

Reconcile ==
  /\ pc = "idle"
  /\ Becomes("check", {}, Targets)
  /\ UNCHANGED <<index, bounds>>

\* Mutant of Missing: chunks are taken to have been enqueued with the rebuild.
MissingPending(s) == {c \in chunks : s = pending /\ <<c, s>> \notin embeddings}

Missing(s) == {c \in chunks : <<c, s>> \notin embeddings}

\* Mutant of Ready: all jobs of the space have ended.
ReadyJobs == pending \in targets \ {snapshot} /\ \A c \in chunks : job[<<c, pending>>] \notin {"queued", "running"}

Ready == pending \in targets \ {snapshot} /\ Missing(pending) = {}

\* reconcile_ai enqueues what is missing, and sees whether the staged space
\* is complete.
CheckCoverage ==
  /\ pc = "check"
  /\ \E P \in SUBSET {p \in Pairs : p[2] \in targets /\ p[1] \in Missing(p[2])} :
       /\ \A s \in targets : Cardinality({p \in P : p[2] = s}) = Min({Batch, Cardinality(Missing(s))})
       /\ job' = Enqueued(P)
  /\ IF Ready THEN Becomes("promote", {}, {}) ELSE Idle
  /\ UNCHANGED <<chunks, embeddings, bounds>>

\* promote_pending reads the staged space again.
Promote ==
  /\ pc = "promote"
  /\ pc' = "idle"
  /\ IF pending = None
     THEN UNCHANGED settings
     ELSE /\ active' = pending /\ pending' = None
          /\ revision' = revision + 1 /\ edits' = edits + 1
          /\ raced' = (raced \/ Writing)
          /\ UNCHANGED enabled
  /\ UNCHANGED <<form, snapshot, index, item, targets, bounds>>

\* The worker starts anew; the lease of its job runs out.
Crash ==
  /\ Mishap
  /\ pc' = "idle" /\ item' = {} /\ targets' = {}
  /\ job' = [p \in Pairs |-> IF job[p] = "running" THEN Again(p) ELSE job[p]]
  /\ snapshot' = Tier
  /\ UNCHANGED <<settings, form, chunks, embeddings>>

-----------------------------------------------------------------------------
Operators ==
  \/ \E a \in Admins, space \in Spaces : Submit(a, space)
  \/ \E a \in Admins : TestFails(a)
  \/ \E a \in Admins : \E f \in form[a] : CheckRevision(a, f) \/ WriteSave(a, f)
  \/ Disable
  \/ CancelPending

Finishes == \/ \E c \in Chunks : Rebuilt(c)
            \/ \E p \in Pairs : Embedded(p)
            \/ CheckCoverage
            \/ Promote

Next ==
  \/ Operators
  \/ Refresh
  \/ \E c \in Chunks : Rebuild(c) \/ Remove(c)
  \/ \E p \in Pairs : Embed(p) \/ EmbedFails(p)
  \/ Reconcile
  \/ Finishes
  \/ Crash

Spec == Init /\ [][Next]_vars

(***************************************************************************)
(* Fairness.  What the worker begins it ends; its loop passes by the       *)
(* reconciliation whenever that is due and takes the oldest job; the       *)
(* settings are read again after thirty seconds.                           *)
(***************************************************************************)
Fairness ==
  /\ WF_vars(Finishes) /\ WF_vars(Refresh)
  /\ SF_vars(Reconcile) /\ SF_vars(\E p \in Pairs : Embed(p))

FairSpec == Spec /\ Fairness

-----------------------------------------------------------------------------
(* Properties *)

\* A chunk's job for a space in use ended without its embedding: the
\* idempotency key is spent, and no other job takes its place.
Spent == \E c \in chunks, s \in Spaces : job[<<c, s>>] \in {"done", "failed"} /\ <<c, s>> \notin embeddings

\* The space of queries changes only to one that has every chunk, unless
\* settings were being written at the same time.
CompleteCutover ==
  [][active' # active => raced' \/ \A c \in chunks : <<c, active'>> \in embeddings]_vars

\* A candidate that is written was tested on the settings that it replaces:
\* no other was saved and no cutover happened since its form was loaded,
\* unless they were written at the same time.
SaveFresh ==
  [][\A a \in Admins : \A f \in form[a] :
       f.step = "write" /\ form'[a] = {} => raced' \/ f.revision = revision]_vars

\* A staged space is cut over to, unless it is replaced or cancelled, AI is
\* turned off, a key is spent, or settings were written at the same time.
CutsOver ==
  \A s \in Spaces : pending = s ~> pending # s \/ ~enabled \/ Spent \/ raced

\* Every chunk becomes searchable in the space that is queried.
Searchable ==
  \A c \in Chunks : c \in chunks ~> c \notin chunks \/ <<c, active>> \in embeddings \/ ~enabled \/ Spent

\* A staged space is cut over to, unless it is replaced or cancelled, AI is
\* turned off, or settings were written at the same time.
CutsOverAlways ==
  \A s \in Spaces : pending = s ~> pending # s \/ ~enabled \/ raced

\* A chunk that lacks an embedding for the configured model gets one.
SearchableAlways ==
  \A c \in Chunks : c \in chunks ~> c \notin chunks \/ <<c, active>> \in embeddings \/ ~enabled

\* The space of queries changes only to one that has every chunk.
CompleteAlways ==
  [][active' # active => \A c \in chunks : <<c, active'>> \in embeddings]_vars

\* A tested candidate does not overwrite what was edited since.
EditsKept ==
  [][\A a \in Admins : \A f \in form[a] : f.step = "write" /\ form'[a] = {} => f.edits = edits]_vars
=============================================================================
