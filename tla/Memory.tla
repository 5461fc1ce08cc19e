------------------------------- MODULE Memory -------------------------------
(***************************************************************************)
(* What the application remembers of ONE conversation: its messages (rows  *)
(* of sources, app/ingest.py), the chunks cut from them, the embedding and *)
(* the extracted claims of each chunk (app/memory.py), and the jobs that   *)
(* connect the two.                                                        *)
(*                                                                         *)
(* A transaction is one action, under READ COMMITTED, except where others  *)
(* can commit between what it reads and what it writes.  A rebuild plans   *)
(* and then writes; an indexing job reads, asks the provider and then      *)
(* publishes; an import looks the exclusions up, locks and judges the row  *)
(* that is there, and commits; a removal selects what it will delete,      *)
(* judges which claims lose their evidence, and commits.  What a           *)
(* transaction has deleted and not committed is locked: others wait.       *)
(*                                                                         *)
(* A row of `sources` is <<m, g, c>>: the message (its provider object id, *)
(* numbered in the order of occurred_at), which row of that message it is  *)
(* (its uuid: a message removed and imported again gets a new one), and    *)
(* its content, which is its version too (upsert derives one from the      *)
(* other for Gmail and WhatsApp).  A chunk_key hashes the chunk's number   *)
(* and its (id, version) pairs: here a chunk IS that record.               *)
(***************************************************************************)
EXTENDS Integers, FiniteSets

CONSTANTS Messages,    \* provider_object_ids, in order of occurred_at
          Contents,    \* what a message can say
          PerChunk,    \* messages per chunk (CHUNK_CHARS)
          Kinds,       \* the indexing jobs of a chunk: "embed", "extract"
          Facts,       \* claim_keys an extraction can yield
          Workers,     \* concurrent run_one loops
          FreshKeys,   \* the rebuild key holds a token no other change has
          Removals,    \* what the user removes: "object", "conversation"
                       \*   (exclude), "provider" (delete_provider_data)
          MaxRows,     \* bound: rows a message ever gets
          MaxChanges   \* bound: changes the provider and the user make

ASSUME MemoryAssumption ==
  /\ Messages \subseteq Nat \ {0} /\ IsFiniteSet(Messages)
  /\ PerChunk \in Nat \ {0}
  /\ Kinds \subseteq {"embed", "extract"}
  /\ FreshKeys \in BOOLEAN
  /\ Removals \subseteq {"object", "conversation", "provider"}
  /\ MaxRows \in Nat /\ MaxChanges \in Nat
  /\ {"absent", "deleted"} \cap Contents = {}

VARIABLES
  src,       \* content of the row of a message, "absent", or "deleted" (deleted_at)
  gen,       \* how many rows the message has had
  excluded,  \* exclusions: messages, or Conversation
  chunks,    \* chunks of the conversation
  applied,   \* <<kind, chunk>>: the embedding exists, extracted_at is set
  pending,   \* unfinished rebuild_conversation jobs
  usedKeys,  \* idempotency keys of rebuild jobs, when they are not fresh
  known,     \* <<kind, chunk>> with a job row, in any status
  open,      \* ... that is queued or running
  linked,    \* ... whose payload's chunk_id still exists
  claim,     \* claims.status by claim_key, "none" without a row
  byUser,    \* claims whose origin is 'user'
  cites,     \* claim_sources: <<claim_key, row>>
  rejected,  \* claim_rejections
  import,    \* the upsert in progress
  removal,   \* the removal in progress
  torn,      \* history: claims whose evidence two transactions took at once
  step,      \* what each worker is doing
  changes    \* changes so far (bound)

stored  == <<src, gen, excluded>>
index   == <<chunks, applied>>
work    == <<known, open, linked>>
beliefs == <<claim, byUser, cites, rejected>>
underway == <<import, removal, torn>>
vars    == <<stored, index, pending, usedKeys, work, beliefs, underway, step, changes>>

Conversation == 0

Rows  == {<<m, gen[m], src[m]>> : m \in {k \in Messages : src[k] # "absent"}}
Live  == {r \in Rows : r[3] # "deleted"}

\* plan_chunks: whole messages in order, PerChunk of them in each chunk.
Rank(r, S) == Cardinality({q \in S : q[1] < r[1]})
Slot(r, S) == Rank(r, S) \div PerChunk
Plan(S)    == {[n |-> i, rows |-> {r \in S : Slot(r, S) = i}] : i \in {Slot(r, S) : r \in S}}

\* The ChunkSource rows of a chunk: removing a source cascades to them.
Cited(c)   == {r \in c.rows : src[r[1]] # "absent" /\ gen[r[1]] = r[2]}
Covering(ids) == {c \in chunks : \E r \in Cited(c) : r[1] \in ids}

RowType   == Messages \X Nat \X Contents
ChunkType == [n : Nat, rows : SUBSET RowType]
JobType   == Kinds \X ChunkType
Idle      == [do |-> "idle"]
\* at: "none", "looked" (the exclusions), "judged" (and holds the row's lock).
NoImport  == [at |-> "none", msg |-> Conversation, says |-> "absent", lost |-> {}]
\* at: "none", "selected", "judged" (and holds the chunks' locks).
NoRemoval == [at |-> "none", kind |-> "none", ids |-> {}, chunks |-> {}, lost |-> {}]

TypeOK ==
  /\ src \in [Messages -> Contents \cup {"absent", "deleted"}]
  /\ gen \in [Messages -> Nat]
  /\ excluded \subseteq Messages \cup {Conversation}
  /\ \A c \in chunks : c.n \in Nat /\ c.rows \subseteq RowType
  /\ open \subseteq known /\ linked \subseteq known /\ applied \subseteq linked
  /\ \A j \in known : j[1] \in Kinds
  /\ linked = {j \in known : j \in linked /\ j[2] \in chunks}
  /\ pending \in Nat /\ changes \in Nat
  /\ claim \in [Facts -> {"none", "active", "confirmed", "rejected"}]
  /\ byUser \subseteq Facts /\ rejected \subseteq Facts
  /\ \A t \in cites : t[1] \in Facts /\ t[2] \in RowType
  /\ import # NoImport => /\ import.at \in {"looked", "judged"} /\ import.msg \in Messages
                          /\ import.says \in Contents \cup {"deleted"} /\ import.lost \subseteq Facts
  /\ removal # NoRemoval => /\ removal.at \in {"selected", "judged"} /\ removal.kind \in Removals
                            /\ removal.ids \subseteq Messages /\ removal.lost \subseteq Facts
  /\ torn \subseteq Facts
  /\ \A w \in Workers : step[w].do \in {"idle", "rebuild", "index"}

Init ==
  /\ src = [m \in Messages |-> "absent"]
  /\ gen = [m \in Messages |-> 0]
  /\ excluded = {} /\ chunks = {} /\ applied = {}
  /\ pending = 0 /\ usedKeys = {}
  /\ known = {} /\ open = {} /\ linked = {}
  /\ claim = [f \in Facts |-> "none"]
  /\ byUser = {} /\ cites = {} /\ rejected = {}
  /\ import = NoImport /\ removal = NoRemoval /\ torn = {}
  /\ step = [w \in Workers |-> Idle]
  /\ changes = 0

-----------------------------------------------------------------------------
(* invalidate *)

\* Deleting chunk rows takes their embeddings along, and leaves the jobs whose
\* payload names them pointing at nothing.
DropChunks(D) ==
  /\ chunks'  = chunks \ D
  /\ applied' = {j \in applied : j[2] \notin D}
  /\ linked'  = {j \in linked : j[2] \notin D}

\* The extracted claims, not confirmed, that have no citation but these
\* messages', as the transaction sees it: what another has deleted and not
\* committed is still there.
Cites(f, ids) == \E t \in cites : t[1] = f /\ t[2][1] \in ids
Lost(ids) ==
  {f \in Facts : /\ Cites(f, ids) /\ ~Cites(f, Messages \ ids)
                 /\ f \notin byUser /\ claim[f] # "confirmed"}

\* The commit: the citations of the messages go, and the claims found lost.
Uncite(ids, lost) ==
  /\ cites' = {t \in cites : t[2][1] \notin ids}
  /\ claim' = [f \in Facts |-> IF f \in lost THEN "none" ELSE claim[f]]
  /\ UNCHANGED <<byUser, rejected>>

\* Rows that a transaction has deleted: chunks, and claims.
Judged(tx) == tx.at = "judged"
Locked == (IF Judged(removal) THEN removal.chunks ELSE {})
            \cup (IF Judged(import) THEN Covering({import.msg}) ELSE {})
Doomed == import.lost \cup removal.lost

\* An import of m and the removal want the same chunks or citations: the second
\* waits for the first.
Contend(m) ==
  \/ Covering({m}) \cap removal.chunks # {}
  \/ m \in removal.ids /\ \E f \in Facts : Cites(f, {m})

\* Mutant of Schedule: one rebuild job per conversation at a time.
ScheduleOne(key) ==
  /\ pending' = IF pending = 0 THEN 1 ELSE pending
  /\ UNCHANGED usedKeys

\* schedule_rebuilds: one job for the change, unless its key exists.
Schedule(key) ==
  IF FreshKeys THEN pending' = pending + 1 /\ UNCHANGED usedKeys
  ELSE /\ pending' = IF key \in usedKeys THEN pending ELSE pending + 1
       /\ usedKeys' = usedKeys \cup {key}

Change == changes < MaxChanges /\ changes' = changes + 1

IsExcluded(m) == m \in excluded \/ Conversation \in excluded

-----------------------------------------------------------------------------
(* upsert: a message is new, edited, restored or deleted at the provider.    *)
(* Of one conversation one runs at a time: a stream has one job, a connector *)
(* posts one packet.                                                         *)

\* The record of a message Gmail has no more names no conversation: only the
\* exclusion of the message itself is seen.
Admitted(m, says) == IF says = "deleted" THEN m \notin excluded ELSE ~IsExcluded(m)

Look(m, says) ==
  /\ Change
  /\ import = NoImport
  /\ Admitted(m, says)
  /\ import' = [at |-> "looked", msg |-> m, says |-> says, lost |-> {}]
  /\ UNCHANGED <<stored, index, pending, usedKeys, work, beliefs, removal, torn, step>>

\* The row is not there (any more): a new one is added.
Insert ==
  LET m == import.msg
  IN  /\ import.at = "looked" /\ import.says \in Contents
      /\ src[m] = "absent" /\ gen[m] < MaxRows
      /\ src' = [src EXCEPT ![m] = import.says]
      /\ gen' = [gen EXCEPT ![m] = gen[m] + 1]
      /\ Schedule(<<m, gen[m] + 1, import.says>>)
      /\ import' = NoImport
      /\ UNCHANGED <<excluded, index, work, beliefs, removal, torn, step, changes>>

\* The row is there and says something else: it is locked, its chunks and
\* citations are deleted, and the claims that have no other.
JudgeImport ==
  LET m == import.msg
  IN  /\ import.at = "looked"
      /\ src[m] # "absent"
      /\ IF import.says = "deleted" THEN src[m] # "deleted" ELSE src[m] # import.says
      /\ Judged(removal) => ~Contend(m)
      /\ import' = [import EXCEPT !.at = "judged", !.lost = Lost({m})]
      /\ torn' = IF Judged(removal) THEN torn \cup {f \in Facts : Cites(f, {m}) /\ Cites(f, removal.ids)}
                 ELSE torn
      /\ UNCHANGED <<stored, index, pending, usedKeys, work, beliefs, removal, step, changes>>

Edit ==
  LET m == import.msg
  IN  /\ Judged(import) /\ import.says \in Contents
      /\ src' = [src EXCEPT ![m] = import.says]
      /\ DropChunks(Covering({m}))
      /\ Uncite({m}, import.lost)
      /\ Schedule(<<m, gen[m], import.says>>)
      /\ removal' = [removal EXCEPT !.chunks = removal.chunks \ Covering({m})]
      /\ import' = NoImport
      /\ UNCHANGED <<gen, excluded, known, open, torn, step, changes>>

\* Two jobs: invalidate schedules its own under a fresh key, and the page
\* schedules one for the change.
Delete ==
  LET m   == import.msg
      key == <<m, gen[m], "deleted">>
      own == IF FreshKeys \/ key \notin usedKeys THEN 1 ELSE 0
  IN  /\ Judged(import) /\ import.says = "deleted"
      /\ src' = [src EXCEPT ![m] = "deleted"]
      /\ DropChunks(Covering({m}))
      /\ Uncite({m}, import.lost)
      /\ pending' = pending + 1 + own
      /\ usedKeys' = IF FreshKeys THEN usedKeys ELSE usedKeys \cup {key}
      /\ removal' = [removal EXCEPT !.chunks = removal.chunks \ Covering({m})]
      /\ import' = NoImport
      /\ UNCHANGED <<gen, excluded, known, open, torn, step, changes>>

\* There is nothing to change, or the transaction rolls back: its process
\* died, or PostgreSQL broke a deadlock.
DropImport ==
  /\ import # NoImport
  /\ import' = NoImport
  /\ UNCHANGED <<stored, index, pending, usedKeys, work, beliefs, removal, torn, step, changes>>

-----------------------------------------------------------------------------
(* exclude and delete_provider_data *)

\* The sources to remove, then the chunks that cite them, as they are now.
\* "object" takes one message, the others the whole conversation.
BeginRemoval(kind, ids) ==
  /\ Change
  /\ removal = NoRemoval
  /\ ids # {}
  /\ IF kind = "object" THEN \E m \in Messages : ids = {m} /\ src[m] # "absent"
     ELSE ids = {m \in Messages : src[m] # "absent"}
  /\ removal' = [at |-> "selected", kind |-> kind, ids |-> ids, chunks |-> Covering(ids), lost |-> {}]
  /\ UNCHANGED <<stored, index, pending, usedKeys, work, beliefs, import, torn, step>>

\* invalidate deletes the chunks it selected, the citations there are now, and
\* the claims that have no other.
JudgeRemoval ==
  /\ removal.at = "selected"
  /\ Judged(import) => ~Contend(import.msg)
  /\ removal' = [removal EXCEPT !.at = "judged", !.lost = Lost(removal.ids)]
  /\ torn' = IF Judged(import) THEN torn \cup {f \in Facts : Cites(f, {import.msg}) /\ Cites(f, removal.ids)}
             ELSE torn
  /\ UNCHANGED <<stored, index, pending, usedKeys, work, beliefs, import, step, changes>>

\* Mutant of OwesRebuild: exclude leaves the chunks of the others as they are.
OwesNothing == FALSE

\* An exclusion schedules a rebuild, under a fresh key; delete_provider_data
\* does not.
OwesRebuild == removal.kind # "provider"

\* The sources are deleted, which cascades to what cites them by now, and the
\* commit publishes the tombstone.
FinishRemoval ==
  LET ids == removal.ids
  IN  /\ Judged(removal)
      /\ Judged(import) => import.msg \notin ids
      /\ src' = [m \in Messages |-> IF m \in ids THEN "absent" ELSE src[m]]
      /\ DropChunks(removal.chunks)
      /\ Uncite(ids, removal.lost)
      /\ excluded' = CASE removal.kind = "object"       -> excluded \cup ids
                       [] removal.kind = "conversation" -> excluded \cup {Conversation}
                       [] OTHER                         -> excluded
      /\ pending' = IF OwesRebuild THEN pending + 1 ELSE pending
      /\ removal' = NoRemoval
      /\ UNCHANGED <<gen, usedKeys, known, open, import, torn, step, changes>>

\* The request fails, and nothing of it stays.
DropRemoval ==
  /\ removal # NoRemoval
  /\ removal' = NoRemoval
  /\ UNCHANGED <<stored, index, pending, usedKeys, work, beliefs, import, torn, step, changes>>

\* remove_exclusion: the provider may import the message again.
Readmit(key) ==
  /\ Change
  /\ key \in excluded
  /\ excluded' = excluded \ {key}
  /\ UNCHANGED <<src, gen, index, pending, usedKeys, work, beliefs, underway, step>>

-----------------------------------------------------------------------------
(* The user corrects what is remembered *)

\* The update of a claim that is being deleted finds no row, and fails.
Confirm(f) ==
  /\ f \notin Doomed
  /\ claim[f] \in {"active", "rejected"}
  /\ claim' = [claim EXCEPT ![f] = "confirmed"]
  /\ UNCHANGED <<stored, index, pending, usedKeys, work, byUser, cites, rejected,
                 underway, step, changes>>

Reject(f) ==
  /\ f \notin Doomed
  /\ claim[f] \in {"active", "confirmed"}
  /\ claim' = [claim EXCEPT ![f] = "rejected"]
  /\ rejected' = rejected \cup {f}
  /\ UNCHANGED <<stored, index, pending, usedKeys, work, byUser, cites, underway, step, changes>>

\* edit_claim: f is rejected, and the user's wording g confirmed.
Reword(f, g) ==
  /\ f # g /\ claim[f] # "none" /\ {f, g} \cap Doomed = {}
  /\ claim' = [claim EXCEPT ![f] = "rejected", ![g] = "confirmed"]
  /\ rejected' = rejected \cup {f}
  /\ byUser' = IF claim[g] = "none" THEN byUser \cup {g} ELSE byUser
  /\ UNCHANGED <<stored, index, pending, usedKeys, work, cites, underway, step, changes>>

-----------------------------------------------------------------------------
(* A worker rebuilds the conversation *)

Doing(what) == {w \in Workers : step[w].do = what}

BeginRebuild(w) ==
  /\ step[w] = Idle
  /\ Cardinality(Doing("rebuild")) < pending
  /\ step' = [step EXCEPT ![w] = [do |-> "rebuild", plan |-> Plan(Live)]]
  /\ UNCHANGED <<stored, index, pending, usedKeys, work, beliefs, underway, changes>>

\* A chunk_sources row cannot be inserted once its source is gone.
Insertable(plan) == \A c \in plan \ chunks : Cited(c) = c.rows

\* Chunks with a planned key are kept, the others deleted, the missing ones
\* created with their jobs: enqueue ignores a key that has a row.  All chunks
\* are locked for that, and the sources of the new ones may not be locked.
CommitRebuild(w) ==
  /\ step[w].do = "rebuild"
  /\ Locked = {}
  /\ Judged(import) => \A c \in step[w].plan \ chunks : \A r \in c.rows : r[1] # import.msg
  /\ LET plan == step[w].plan
         new  == (Kinds \X (plan \ chunks)) \ known
         dead == chunks \ plan
     IN  /\ Insertable(plan)
         /\ chunks'  = plan
         /\ applied' = {j \in applied : j[2] \notin dead}
         /\ known'   = known \cup new
         /\ open'    = open \cup new
         /\ linked'  = {j \in linked : j[2] \notin dead} \cup new
         /\ removal' = [removal EXCEPT !.chunks = removal.chunks \ dead]
  /\ pending' = pending - 1
  /\ step' = [step EXCEPT ![w] = Idle]
  /\ UNCHANGED <<stored, usedKeys, beliefs, import, torn, changes>>

\* The foreign key refuses the write: rollback, and the job is retried.
AbortRebuild(w) ==
  /\ step[w].do = "rebuild"
  /\ ~Insertable(step[w].plan)
  /\ step' = [step EXCEPT ![w] = Idle]
  /\ UNCHANGED <<stored, index, pending, usedKeys, work, beliefs, underway, changes>>

\* The worker dies or the step fails: its lease or its back-off brings the
\* job back.
Interrupt(w) ==
  /\ step[w] # Idle
  /\ step' = [step EXCEPT ![w] = Idle]
  /\ UNCHANGED <<stored, index, pending, usedKeys, work, beliefs, underway, changes>>

-----------------------------------------------------------------------------
(* A worker embeds a chunk or extracts its claims *)

Taken == {step[w].job : w \in Doing("index")}

\* The first transaction: the chunk is gone, or done already, or read.
BeginIndex(w, j) ==
  /\ step[w] = Idle
  /\ j \in open \ Taken
  /\ IF j \in linked \ applied
     THEN /\ step' = [step EXCEPT ![w] = [do |-> "index", job |-> j]]
          /\ UNCHANGED open
     ELSE /\ open' = open \ {j}
          /\ UNCHANGED step
  /\ UNCHANGED <<stored, index, pending, usedKeys, known, linked, beliefs, underway, changes>>

\* Mutant of StillValid: it is enough that the chunk is still there.
StillThere(j) == j \in linked /\ Cited(j[2]) # {}

\* _still_valid, with the chunk and its sources locked: the row it read is
\* there, it still cites something, and all of that is unchanged.
StillValid(j) ==
  /\ j \in linked
  /\ Cited(j[2]) # {}
  /\ Cited(j[2]) \subseteq Live

\* Mutant of Accepted: only the claim that is there is asked.
AcceptedByStatus(evidence) == {t \in evidence : claim[t[1]] # "rejected"}

\* A rejected claim_key stays rejected, also when the claim's row is gone.
Accepted(evidence) == {t \in evidence : t[1] \notin rejected}

\* publish_claim for each fact and the rows given as its evidence.
Publish(evidence) ==
  LET said == Accepted(evidence)
      new  == {t \in said : \A u \in cites : <<u[1], u[2][1]>> # <<t[1], t[2][1]>>}
  IN  /\ \A t \in said : t[1] \notin Doomed
      /\ torn' = IF Judged(removal) THEN torn \cup {t[1] : t \in {u \in said : u[2][1] \in removal.ids}}
                 ELSE torn
      /\ claim' = [f \in Facts |-> IF claim[f] = "none" /\ \E t \in said : t[1] = f
                                   THEN "active" ELSE claim[f]]
      /\ cites' = cites \cup new
      /\ UNCHANGED <<byUser, rejected>>

FinishIndex(w) ==
  /\ step[w].do = "index"
  /\ step[w].job[2] \notin Locked
  /\ LET j == step[w].job
     IN  /\ open' = open \ {j}
         /\ IF StillValid(j)
            THEN /\ applied' = applied \cup {j}
                 /\ IF j[1] = "extract"
                    THEN \E evidence \in SUBSET (Facts \X Cited(j[2])) : Publish(evidence)
                    ELSE UNCHANGED <<beliefs, torn>>
            ELSE UNCHANGED <<applied, beliefs, torn>>
  /\ step' = [step EXCEPT ![w] = Idle]
  /\ UNCHANGED <<stored, chunks, pending, usedKeys, known, linked, import, removal, changes>>

-----------------------------------------------------------------------------
Import == Insert \/ JudgeImport \/ Edit \/ Delete \/ DropImport

Provider ==
  \/ \E m \in Messages, says \in Contents \cup {"deleted"} : Look(m, says)
  \/ Import

User ==
  \/ \E kind \in Removals, ids \in SUBSET Messages : BeginRemoval(kind, ids)
  \/ JudgeRemoval \/ FinishRemoval \/ DropRemoval
  \/ \E key \in Messages \cup {Conversation} : Readmit(key)
  \/ \E f \in Facts : Confirm(f) \/ Reject(f) \/ \E g \in Facts : Reword(f, g)

Worker(w) ==
  \/ BeginRebuild(w)
  \/ CommitRebuild(w)
  \/ AbortRebuild(w)
  \/ Interrupt(w)
  \/ \E j \in open : BeginIndex(w, j)
  \/ FinishIndex(w)

Next == Provider \/ User \/ \E w \in Workers : Worker(w)

Spec == Init /\ [][Next]_vars

\* A transaction ends; a call to a provider ends or times out; a worker that polls
\* claims the job that has been due longest, so that a rebuild is not passed
\* over for ever; and a rebuild, which calls nothing outside the database, is
\* not interrupted for ever (five attempts in a row would fail its job, see
\* JobQueue).
Fairness ==
  /\ WF_vars(Import)
  /\ WF_vars(JudgeRemoval \/ FinishRemoval)
  /\ \A w \in Workers : /\ SF_vars(BeginRebuild(w))
                        /\ WF_vars(AbortRebuild(w))
                        /\ SF_vars(CommitRebuild(w))
                        /\ WF_vars(FinishIndex(w) \/ Interrupt(w))

FairSpec == Spec /\ Fairness

-----------------------------------------------------------------------------
\* When no rebuild is owed and no removal is half done, the chunks are those
\* of the messages as they are now: nothing stale, missing or left over.
IdleMeansCurrent ==
  pending = 0 /\ removal = NoRemoval => chunks = Plan(Live)

\* What is remembered without the user's word rests on a message that is still
\* there and still says what it said, unless two transactions took its evidence
\* at the same time; and every citation is of such a row.
ClaimsSupported ==
  /\ \A f \in Facts \ torn : claim[f] = "active" => \E t \in cites : t[1] = f
  /\ \A t \in cites : t[2] \in Live

\* invalidate removes "unsupported claims", whatever else runs.
NoneUnsupported == \A f \in Facts : claim[f] = "active" => \E t \in cites : t[1] = f

\* The user's word is final: extraction never brings a rejected claim back and
\* never takes a confirmed one away.
UserDecisionsStand ==
  [][\A f \in Facts : /\ f \in rejected => f \in rejected' /\ claim'[f] # "active"
                      /\ claim[f] = "confirmed" => claim'[f] \in {"confirmed", "rejected"}]_vars

\* Once a removal is over and no rebuild is owed, no chunk still holds the text
\* of a message that was removed.
RemovedIsForgotten ==
  pending = 0 /\ removal = NoRemoval => \A c \in chunks : Cited(c) = c.rows

\* Tombstones stop what they name from being imported again.
ExcludedStaysOut == \A m \in Messages : IsExcluded(m) => src[m] = "absent"

\* Once the chunks are current, each that lacks its embedding or its claims has
\* a job that is not finished: reconcile_ai promises one, and enqueues it under
\* the key the rebuild used, which does nothing while that key has a row.
MissingHasJob ==
  pending = 0 /\ removal = NoRemoval =>
    \A j \in Kinds \X chunks : j \in applied \cup open

\* Whatever happens meanwhile, the chunks catch up with the messages.
CatchesUp == []<>(chunks = Plan(Live))
=============================================================================
