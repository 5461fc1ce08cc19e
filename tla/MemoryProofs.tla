---------------------------- MODULE MemoryProofs ----------------------------
(* Theorems about Memory, for every number of messages, contents, facts     *)
(* and (except in the last part) workers.                                   *)
EXTENDS Memory, TLAPS, FiniteSetTheorems

-----------------------------------------------------------------------------
(* Types: every rebuild under way is owed, and no two finish one rebuild *)

StepType ==
  {Idle} \cup [do : {"rebuild"}, plan : SUBSET ChunkType] \cup [do : {"index"}, job : JobType]

SourcesTyped ==
  /\ src \in [Messages -> Contents \cup {"absent", "deleted"}]
  /\ gen \in [Messages -> Nat]
  /\ excluded \subseteq Messages \cup {Conversation}

IndexTyped ==
  /\ chunks \subseteq ChunkType
  /\ known \subseteq JobType
  /\ open \subseteq known /\ linked \subseteq known /\ applied \subseteq linked
  /\ \A j \in linked : j[2] \in chunks

BeliefsTyped ==
  /\ claim \in [Facts -> {"none", "active", "confirmed", "rejected"}]
  /\ rejected \subseteq Facts

ClaimsTyped ==
  /\ BeliefsTyped
  /\ byUser \subseteq Facts /\ torn \subseteq Facts
  /\ cites \subseteq Facts \X RowType

Imports ==
  [at : {"looked", "judged"}, msg : Messages, says : Contents \cup {"deleted"}, lost : SUBSET Facts]

\* An import that has judged its row holds it.
ImportTyped ==
  /\ import \in Imports \cup {NoImport}
  /\ Judged(import) => src[import.msg] # "absent"
  /\ ~Judged(import) => import.lost = {}

RemovalTyped ==
  /\ removal \in [at : {"none", "selected", "judged"}, kind : Removals \cup {"none"},
                  ids : SUBSET Messages, chunks : SUBSET ChunkType, lost : SUBSET Facts]
  /\ removal.at = "none" => removal = NoRemoval
  /\ removal.at # "none" => removal.kind \in Removals
  /\ ~Judged(removal) => removal.lost = {}

WorkersTyped == step \in [Workers -> StepType]

\* As many rebuilds are owed as there are workers at one.
Owed ==
  /\ pending \in Nat /\ changes \in Nat
  /\ IsFiniteSet(Doing("rebuild"))
  /\ Cardinality(Doing("rebuild")) <= pending

Types ==
  /\ SourcesTyped /\ IndexTyped /\ ClaimsTyped /\ ImportTyped /\ RemovalTyped
  /\ WorkersTyped /\ Owed

LEMMA StepParts ==
  ASSUME WorkersTyped, NEW w \in Workers
  PROVE  /\ step[w].do \in {"idle", "rebuild", "index"}
         /\ step[w].do = "rebuild" => step[w].plan \in SUBSET ChunkType
         /\ step[w].do = "index" => step[w].job \in JobType
<1>1. step[w] \in StepType
  BY DEF WorkersTyped
<1> QED
  BY <1>1 DEF StepType, Idle

LEMMA ImportParts ==
  ASSUME ImportTyped, import.at \in {"looked", "judged"}
  PROVE  import \in Imports
BY DEF ImportTyped, NoImport

LEMMA TypesImply == Types => TypeOK
<1> SUFFICES ASSUME Types PROVE TypeOK
  OBVIOUS
<1>1. \A c \in chunks : c.n \in Nat /\ c.rows \subseteq RowType
  BY DEF Types, IndexTyped, ChunkType
<1>2. \A j \in known : j[1] \in Kinds
  BY DEF Types, IndexTyped, JobType
<1>3. linked = {j \in known : j \in linked /\ j[2] \in chunks}
  BY DEF Types, IndexTyped
<1>4. \A t \in cites : t[1] \in Facts /\ t[2] \in RowType
  BY DEF Types, ClaimsTyped
<1>5. removal # NoRemoval => /\ removal.at \in {"selected", "judged"} /\ removal.kind \in Removals
                             /\ removal.ids \subseteq Messages /\ removal.lost \subseteq Facts
  BY DEF Types, RemovalTyped
<1>6. import # NoImport => /\ import.at \in {"looked", "judged"} /\ import.msg \in Messages
                           /\ import.says \in Contents \cup {"deleted"} /\ import.lost \subseteq Facts
  BY DEF Types, ImportTyped, Imports
<1>7. \A w \in Workers : step[w].do \in {"idle", "rebuild", "index"}
  BY StepParts DEF Types
<1> QED
  BY <1>1, <1>2, <1>3, <1>4, <1>5, <1>6, <1>7
  DEF TypeOK, Types, SourcesTyped, IndexTyped, ClaimsTyped, BeliefsTyped, Owed

LEMMA TypesInit == Init => Types
<1> SUFFICES ASSUME Init PROVE Types
  OBVIOUS
<1>1. SourcesTyped /\ IndexTyped /\ ClaimsTyped /\ RemovalTyped
  BY DEF Init, SourcesTyped, IndexTyped, ClaimsTyped, BeliefsTyped, RemovalTyped, NoRemoval, Judged
<1>2. WorkersTyped /\ ImportTyped
  BY DEF Init, WorkersTyped, StepType, ImportTyped, NoImport, Judged
<1>3. Doing("rebuild") = {}
  BY DEF Init, Doing, Idle
<1>4. Owed
  BY <1>3, FS_EmptySet DEF Init, Owed
<1> QED
  BY <1>1, <1>2, <1>4 DEF Types

\* A plan of the live rows is made of chunks.
LEMMA LiveTyped ==
  ASSUME SourcesTyped
  PROVE  Live \subseteq RowType /\ IsFiniteSet(Live)
<1>1. \A r \in Live : r \in RowType
  BY DEF SourcesTyped, Live, Rows, RowType
<1> DEFINE there == {m \in Messages : src[m] # "absent"}
<1>2. IsFiniteSet(there)
  BY MemoryAssumption, FS_Subset
<1>3. Rows = {<<m, gen[m], src[m]>> : m \in there}
  BY DEF Rows
<1> HIDE DEF there
<1>4. IsFiniteSet(Rows)
  <2> DEFINE f == [m \in there |-> <<m, gen[m], src[m]>>]
  <2>1. f \in Surjection(there, Rows)
    BY <1>3 DEF Surjection
  <2> HIDE DEF f
  <2> QED
    BY <1>2, <2>1, FS_Surjection
<1>5. IsFiniteSet(Live)
  <2>1. Live \subseteq Rows
    BY DEF Live
  <2> QED
    BY <1>4, <2>1, FS_Subset
<1> QED
  BY <1>1, <1>5

LEMMA PlanTyped ==
  ASSUME NEW S \in SUBSET RowType, IsFiniteSet(S)
  PROVE  Plan(S) \subseteq ChunkType
<1>1. ASSUME NEW r \in S PROVE Slot(r, S) \in Nat
  <2>1. IsFiniteSet({q \in S : q[1] < r[1]})
    BY FS_Subset
  <2>2. Rank(r, S) \in Nat
    BY <2>1, FS_CardinalityType DEF Rank
  <2>3. \A i, k \in Nat : k > 0 => i \div k \in Nat
    OBVIOUS
  <2> QED
    BY <2>2, <2>3, MemoryAssumption DEF Slot
<1> QED
  BY <1>1 DEF Plan, ChunkType

LEMMA DropTyped ==
  ASSUME IndexTyped, NEW D, DropChunks(D), UNCHANGED <<known, open>>
  PROVE  IndexTyped'
BY DEF IndexTyped, DropChunks

LEMMA UnciteTyped ==
  ASSUME ClaimsTyped, NEW ids, NEW lost, Uncite(ids, lost), UNCHANGED torn
  PROVE  ClaimsTyped'
BY DEF ClaimsTyped, BeliefsTyped, Uncite

LEMMA ScheduleOwes ==
  ASSUME pending \in Nat, NEW key, Schedule(key)
  PROVE  pending' \in Nat /\ pending' >= pending
BY DEF Schedule

\* A step that leaves the workers alone and takes no rebuild away.
LEMMA OwedStays ==
  ASSUME Owed, UNCHANGED step, pending' \in Nat, pending' >= pending, changes' \in Nat
  PROVE  Owed'
<1>1. Doing("rebuild")' = Doing("rebuild")
  BY DEF Doing
<1>2. Cardinality(Doing("rebuild")) \in Nat
  BY FS_CardinalityType DEF Owed
<1> QED
  BY <1>1, <1>2 DEF Owed

\* Nothing but the transactions under way is changed.
LEMMA UnderwayTyped ==
  ASSUME Types, UNCHANGED <<stored, index, pending, work, beliefs, step>>, changes' \in Nat,
         ImportTyped', RemovalTyped', torn' \subseteq Facts
  PROVE  Types'
<1>1. Owed'
  BY OwedStays DEF Types, Owed
<1> QED
  BY <1>1 DEF Types, SourcesTyped, IndexTyped, ClaimsTyped, BeliefsTyped, WorkersTyped,
              stored, index, work, beliefs

\* The chunks a removal selected may only become fewer.
LEMMA FewerSelected ==
  ASSUME RemovalTyped, NEW D, removal' = [removal EXCEPT !.chunks = removal.chunks \ D]
  PROVE  RemovalTyped'
<1>1. removal.at = "none" => removal' = NoRemoval
  BY DEF RemovalTyped, NoRemoval
<1>2. /\ removal' \in [at : {"none", "selected", "judged"}, kind : Removals \cup {"none"},
                       ids : SUBSET Messages, chunks : SUBSET ChunkType, lost : SUBSET Facts]
      /\ removal'.at = removal.at /\ removal'.kind = removal.kind /\ removal'.lost = removal.lost
  BY DEF RemovalTyped
<1> QED
  BY <1>1, <1>2 DEF RemovalTyped, Judged

LEMMA NoImportTyped ==
  ASSUME import' = NoImport
  PROVE  ImportTyped'
BY DEF ImportTyped, NoImport, Judged

LEMMA LostTyped ==
  ASSUME NEW ids
  PROVE  Lost(ids) \subseteq Facts
BY DEF Lost

LEMMA LookTyped ==
  ASSUME Types, NEW m \in Messages, NEW says \in Contents \cup {"deleted"}, Look(m, says)
  PROVE  Types'
<1>1. /\ UNCHANGED <<stored, index, pending, work, beliefs, step, removal, torn>>
      /\ changes' \in Nat
  BY DEF Look, Change, Types, Owed
<1>2. ImportTyped'
  BY DEF Look, ImportTyped, Imports, Judged
<1> QED
  BY <1>1, <1>2, UnderwayTyped DEF Types, RemovalTyped, ClaimsTyped

LEMMA InsertTyped ==
  ASSUME Types, Insert
  PROVE  Types'
<1>0. pending \in Nat /\ changes \in Nat /\ import \in Imports
  BY ImportParts DEF Types, Owed, Insert
<1>1. SourcesTyped'
  BY <1>0 DEF Insert, Types, SourcesTyped, Imports
<1>2. UNCHANGED <<index, work, beliefs, removal, torn, step, changes>> /\ import' = NoImport
  BY DEF Insert
<1>3. Owed'
  <2>1. pending' \in Nat /\ pending' >= pending
    BY <1>0, ScheduleOwes DEF Insert
  <2> QED
    BY <1>0, <1>2, <2>1, OwedStays DEF Types
<1> QED
  BY <1>1, <1>2, <1>3, NoImportTyped
  DEF Types, IndexTyped, ClaimsTyped, BeliefsTyped, RemovalTyped, WorkersTyped, index, work, beliefs

LEMMA JudgeImportTyped ==
  ASSUME Types, JudgeImport
  PROVE  Types'
<1>1. /\ UNCHANGED <<stored, index, pending, work, beliefs, step, removal>>
      /\ changes' \in Nat
  BY DEF JudgeImport, Types, Owed
<1>2. import \in Imports
  BY ImportParts DEF JudgeImport, Types
<1>3. import' \in Imports /\ import'.at = "judged" /\ import'.msg = import.msg
  BY <1>2, LostTyped DEF JudgeImport, Imports
<1>4. ImportTyped'
  BY <1>1, <1>3 DEF ImportTyped, JudgeImport, Judged, stored
<1>5. torn' \subseteq Facts
  BY DEF JudgeImport, Types, ClaimsTyped
<1> QED
  BY <1>1, <1>4, <1>5, UnderwayTyped DEF Types, RemovalTyped

LEMMA EditTyped ==
  ASSUME Types, Edit \/ Delete
  PROVE  Types'
<1>0. pending \in Nat /\ changes \in Nat /\ import \in Imports
  BY ImportParts DEF Types, Owed, Edit, Delete, Judged
<1>1. SourcesTyped'
  BY <1>0 DEF Edit, Delete, Types, SourcesTyped, Imports
<1>2. IndexTyped'
  BY DropTyped DEF Edit, Delete, Types
<1>3. ClaimsTyped'
  BY UnciteTyped DEF Edit, Delete, Types
<1>4. RemovalTyped'
  BY FewerSelected DEF Edit, Delete, Types
<1>5. ImportTyped'
  BY NoImportTyped DEF Edit, Delete
<1>6. pending' \in Nat /\ pending' >= pending
  <2>1. CASE Edit
    BY <1>0, <2>1, ScheduleOwes DEF Edit
  <2>2. CASE Delete
    BY <1>0, <2>2 DEF Delete
  <2> QED
    BY <2>1, <2>2
<1>7. UNCHANGED <<step, changes>>
  BY DEF Edit, Delete
<1>8. Owed' /\ WorkersTyped'
  BY <1>0, <1>6, <1>7, OwedStays DEF Types, WorkersTyped
<1> QED
  BY <1>1, <1>2, <1>3, <1>4, <1>5, <1>8 DEF Types

LEMMA ProviderTyped ==
  ASSUME Types, Provider
  PROVE  Types'
<1>1. CASE DropImport
  <2>1. /\ UNCHANGED <<stored, index, pending, work, beliefs, step, removal, torn>>
        /\ changes' \in Nat
    BY <1>1 DEF DropImport, Types, Owed
  <2>2. ImportTyped'
    BY <1>1, NoImportTyped DEF DropImport
  <2> QED
    BY <2>1, <2>2, UnderwayTyped DEF Types, RemovalTyped, ClaimsTyped
<1> QED
  BY <1>1, LookTyped, InsertTyped, JudgeImportTyped, EditTyped DEF Provider, Import

LEMMA RemovingTyped ==
  ASSUME Types,
         \/ \E kind \in Removals, ids \in SUBSET Messages : BeginRemoval(kind, ids)
         \/ JudgeRemoval
         \/ DropRemoval
  PROVE  Types'
<1>1. UNCHANGED <<stored, index, pending, work, beliefs, step, import>> /\ changes' \in Nat
  BY DEF BeginRemoval, JudgeRemoval, DropRemoval, Change, Types, Owed
<1>2. torn' \subseteq Facts
  BY DEF BeginRemoval, JudgeRemoval, DropRemoval, Types, ClaimsTyped
<1>3. RemovalTyped'
  <2>1. ASSUME NEW kind \in Removals, NEW ids \in SUBSET Messages, BeginRemoval(kind, ids)
        PROVE  RemovalTyped'
    <3>1. Covering(ids) \in SUBSET ChunkType
      BY DEF Covering, Types, IndexTyped
    <3> QED
      BY <2>1, <3>1 DEF BeginRemoval, RemovalTyped, Judged
  <2>2. CASE JudgeRemoval
    <3>1. removal' = [removal EXCEPT !.at = "judged", !.lost = Lost(removal.ids)]
          /\ removal.at = "selected"
      BY <2>2 DEF JudgeRemoval
    <3>2. Lost(removal.ids) \subseteq Facts
      BY LostTyped
    <3> QED
      BY <3>1, <3>2 DEF Types, RemovalTyped, Judged
  <2>3. CASE DropRemoval
    BY <2>3 DEF DropRemoval, RemovalTyped, NoRemoval, Judged
  <2> QED
    BY <2>1, <2>2, <2>3
<1>4. ImportTyped'
  BY <1>1 DEF Types, ImportTyped, Judged, stored
<1> QED
  BY <1>1, <1>2, <1>3, <1>4, UnderwayTyped

LEMMA FinishRemovalTyped ==
  ASSUME Types, FinishRemoval
  PROVE  Types'
<1>1. /\ UNCHANGED <<gen, known, open, torn, step, changes, import>>
      /\ pending' \in {pending, pending + 1}
  BY DEF FinishRemoval
<1>2. removal.ids \subseteq Messages /\ pending \in Nat /\ changes \in Nat
  BY DEF Types, RemovalTyped, Owed
<1>3. SourcesTyped'
  BY <1>2 DEF FinishRemoval, Types, SourcesTyped
<1>4. IndexTyped' /\ ClaimsTyped'
  BY <1>1, DropTyped, UnciteTyped DEF FinishRemoval, Types
<1>5. RemovalTyped'
  BY DEF FinishRemoval, RemovalTyped, NoRemoval, Judged
<1>6. ImportTyped'
  <2>1. Judged(import) => import.msg \in Messages /\ src[import.msg] # "absent"
                          /\ import.msg \notin removal.ids
    BY ImportParts DEF Types, ImportTyped, Judged, Imports, FinishRemoval
  <2>2. Judged(import) => src'[import.msg] # "absent"
    BY <2>1 DEF FinishRemoval
  <2> QED
    BY <1>1, <2>2 DEF Types, ImportTyped, Judged
<1>7. Owed'
  BY <1>1, <1>2, OwedStays DEF Types
<1> QED
  BY <1>1, <1>3, <1>4, <1>5, <1>6, <1>7 DEF Types, WorkersTyped

LEMMA UserTyped ==
  ASSUME Types, User
  PROVE  Types'
<1>0. pending \in Nat /\ changes \in Nat
  BY DEF Types, Owed
<1>1. ASSUME NEW key \in Messages \cup {Conversation}, Readmit(key) PROVE Types'
  <2>1. UNCHANGED <<src, gen, index, pending, work, beliefs, underway, step>> /\ changes' \in Nat
    BY <1>0, <1>1 DEF Readmit, Change
  <2>2. SourcesTyped'
    BY <1>1, <2>1 DEF Readmit, Types, SourcesTyped
  <2>3. Owed'
    BY <1>0, <2>1, OwedStays DEF Types
  <2> QED
    BY <2>1, <2>2, <2>3 DEF Types, IndexTyped, ClaimsTyped, BeliefsTyped, ImportTyped, RemovalTyped,
                            WorkersTyped, Judged, index, work, beliefs, underway
<1>2. CASE \E f \in Facts : Confirm(f) \/ Reject(f) \/ \E g \in Facts : Reword(f, g)
  <2>1. UNCHANGED <<stored, index, pending, work, cites, underway, step, changes>>
    BY <1>2 DEF Confirm, Reject, Reword
  <2>2. ClaimsTyped'
    BY <1>2, <2>1 DEF Confirm, Reject, Reword, Types, ClaimsTyped, BeliefsTyped, underway
  <2>3. Owed'
    BY <1>0, <2>1, OwedStays DEF Types
  <2> QED
    BY <2>1, <2>2, <2>3 DEF Types, SourcesTyped, IndexTyped, ImportTyped, RemovalTyped, WorkersTyped,
                            Judged, stored, index, work, underway
<1> QED
  BY <1>1, <1>2, RemovingTyped, FinishRemovalTyped DEF User

\* A worker starts something: a rebuild only if more are owed than under way.
LEMMA StartsOwed ==
  ASSUME Owed, WorkersTyped, NEW w \in Workers, NEW r \in StepType,
         step' = [step EXCEPT ![w] = r], UNCHANGED <<pending, changes>>,
         r.do = "rebuild" => Cardinality(Doing("rebuild")) < pending
  PROVE  Owed' /\ WorkersTyped'
<1>1. WorkersTyped'
  BY DEF WorkersTyped
<1>2. CASE r.do = "rebuild"
  <2>1. Doing("rebuild")' = Doing("rebuild") \cup {w}
    BY <1>2 DEF Doing, WorkersTyped
  <2>2. /\ IsFiniteSet(Doing("rebuild") \cup {w})
        /\ Cardinality(Doing("rebuild") \cup {w}) <= Cardinality(Doing("rebuild")) + 1
    <3>1. IsFiniteSet(Doing("rebuild")) /\ Cardinality(Doing("rebuild")) \in Nat
      BY FS_CardinalityType DEF Owed
    <3>2. /\ IsFiniteSet(Doing("rebuild") \cup {w})
          /\ \/ Cardinality(Doing("rebuild") \cup {w}) = Cardinality(Doing("rebuild"))
             \/ Cardinality(Doing("rebuild") \cup {w}) = Cardinality(Doing("rebuild")) + 1
      BY <3>1, FS_AddElement
    <3> QED
      BY <3>1, <3>2
  <2>3. Cardinality(Doing("rebuild")) \in Nat /\ Cardinality(Doing("rebuild") \cup {w}) \in Nat
    BY <2>2, FS_CardinalityType DEF Owed
  <2> QED
    BY <1>1, <1>2, <2>1, <2>2, <2>3 DEF Owed
<1>3. CASE r.do # "rebuild"
  <2>1. Doing("rebuild")' = Doing("rebuild") \ {w}
    BY <1>3 DEF Doing, WorkersTyped
  <2>2. /\ IsFiniteSet(Doing("rebuild") \ {w})
        /\ Cardinality(Doing("rebuild") \ {w}) <= Cardinality(Doing("rebuild"))
    <3>1. IsFiniteSet(Doing("rebuild")) /\ Cardinality(Doing("rebuild")) \in Nat
      BY FS_CardinalityType DEF Owed
    <3> QED
      BY <3>1, FS_RemoveElement
  <2>3. Cardinality(Doing("rebuild")) \in Nat /\ Cardinality(Doing("rebuild") \ {w}) \in Nat
    BY <2>2, FS_CardinalityType DEF Owed
  <2> QED
    BY <1>1, <2>1, <2>2, <2>3 DEF Owed
<1> QED
  BY <1>2, <1>3

LEMMA CommitTyped ==
  ASSUME Types, NEW w \in Workers, CommitRebuild(w)
  PROVE  Types'
<1>1. /\ UNCHANGED <<stored, beliefs, changes, import, torn>> /\ pending' = pending - 1
      /\ step' = [step EXCEPT ![w] = Idle] /\ step[w].do = "rebuild"
  BY DEF CommitRebuild
<1> DEFINE plan == step[w].plan
           new == (Kinds \X (plan \ chunks)) \ known
           dead == chunks \ plan
<1>2. /\ chunks' = plan
      /\ applied' = {j \in applied : j[2] \notin dead}
      /\ known' = known \cup new
      /\ open' = open \cup new
      /\ linked' = {j \in linked : j[2] \notin dead} \cup new
      /\ removal' = [removal EXCEPT !.chunks = removal.chunks \ dead]
  BY DEF CommitRebuild
<1>3. plan \in SUBSET ChunkType
  BY <1>1, StepParts DEF Types
<1>4. IndexTyped'
  <2>1. new \subseteq JobType /\ \A j \in new : j[2] \in plan
    BY <1>3 DEF JobType
  <2>2. \A j \in linked : j[2] \notin dead => j[2] \in plan
    BY DEF Types, IndexTyped
  <2> HIDE DEF plan, new, dead
  <2> QED
    BY <1>2, <1>3, <2>1, <2>2 DEF Types, IndexTyped
<1>5. RemovalTyped' /\ ImportTyped'
  BY <1>1, <1>2, FewerSelected DEF Types, ImportTyped, Judged, stored
<1>6. WorkersTyped'
  BY <1>1 DEF Types, WorkersTyped, StepType
<1>7. Owed'
  <2>1. Doing("rebuild")' = Doing("rebuild") \ {w} /\ w \in Doing("rebuild")
    BY <1>1 DEF Doing, Types, WorkersTyped, Idle
  <2>2. /\ IsFiniteSet(Doing("rebuild") \ {w})
        /\ Cardinality(Doing("rebuild") \ {w}) = Cardinality(Doing("rebuild")) - 1
    BY <2>1, FS_RemoveElement DEF Types, Owed
  <2>3. Cardinality(Doing("rebuild")) \in Nat /\ Cardinality(Doing("rebuild") \ {w}) \in Nat
    BY <2>2, FS_CardinalityType DEF Types, Owed
  <2>4. pending \in Nat /\ changes \in Nat /\ Cardinality(Doing("rebuild")) <= pending
    BY DEF Types, Owed
  <2>5. /\ pending' \in Nat /\ changes' \in Nat
        /\ Cardinality(Doing("rebuild") \ {w}) <= pending'
    BY <1>1, <2>2, <2>3, <2>4
  <2> QED
    BY <2>1, <2>2, <2>5 DEF Owed
<1> QED
  BY <1>1, <1>4, <1>5, <1>6, <1>7 DEF Types, SourcesTyped, ClaimsTyped, BeliefsTyped, stored, beliefs

LEMMA PublishTyped ==
  ASSUME ClaimsTyped, NEW evidence \in SUBSET (Facts \X RowType), Publish(evidence)
  PROVE  ClaimsTyped'
<1>1. Accepted(evidence) \subseteq Facts \X RowType
  BY DEF Accepted
<1>2. torn' \subseteq Facts
  BY <1>1 DEF ClaimsTyped, Publish
<1> QED
  BY <1>1, <1>2 DEF ClaimsTyped, BeliefsTyped, Publish

LEMMA FinishTyped ==
  ASSUME Types, NEW w \in Workers, FinishIndex(w)
  PROVE  Types'
<1>1. /\ UNCHANGED <<stored, chunks, pending, known, linked, import, removal, changes>>
      /\ step' = [step EXCEPT ![w] = Idle] /\ step[w].do = "index"
      /\ open' = open \ {step[w].job}
  BY DEF FinishIndex
<1>2. applied' \subseteq linked
  BY DEF FinishIndex, StillValid, Types, IndexTyped
<1>3. ClaimsTyped'
  <2>1. CASE UNCHANGED <<beliefs, torn>>
    BY <2>1 DEF Types, ClaimsTyped, BeliefsTyped, beliefs
  <2>2. CASE /\ StillValid(step[w].job)
             /\ \E evidence \in SUBSET (Facts \X Cited(step[w].job[2])) : Publish(evidence)
    <3>1. step[w].job[2].rows \subseteq RowType
      BY <2>2 DEF StillValid, Types, IndexTyped, ChunkType
    <3>2. Cited(step[w].job[2]) \subseteq RowType
      BY <3>1 DEF Cited
    <3>3. PICK evidence \in SUBSET (Facts \X Cited(step[w].job[2])) : Publish(evidence)
      BY <2>2
    <3>4. evidence \in SUBSET (Facts \X RowType)
      BY <3>2, <3>3
    <3> QED
      BY <3>3, <3>4, PublishTyped DEF Types
  <2> QED
    BY <2>1, <2>2 DEF FinishIndex
<1>4. Owed' /\ WorkersTyped'
  <2>1. Idle \in StepType /\ Idle.do # "rebuild"
    BY DEF StepType, Idle
  <2> QED
    BY <1>1, <2>1, StartsOwed DEF Types
<1> QED
  BY <1>1, <1>2, <1>3, <1>4
  DEF Types, SourcesTyped, IndexTyped, ImportTyped, RemovalTyped, Judged, stored

LEMMA WorkerTyped ==
  ASSUME Types, NEW w \in Workers, Worker(w)
  PROVE  Types'
<1>1. CASE BeginRebuild(w)
  <2> DEFINE r == [do |-> "rebuild", plan |-> Plan(Live)]
  <2>1. /\ UNCHANGED <<stored, index, pending, work, beliefs, underway, changes>>
        /\ step' = [step EXCEPT ![w] = r]
        /\ Cardinality(Doing("rebuild")) < pending
    BY <1>1 DEF BeginRebuild
  <2>2. r \in StepType
    <3>1. Plan(Live) \in SUBSET ChunkType
      BY LiveTyped, PlanTyped DEF Types
    <3> QED
      BY <3>1 DEF StepType
  <2> HIDE DEF r
  <2>3. Owed' /\ WorkersTyped'
    BY <2>1, <2>2, StartsOwed DEF Types
  <2> QED
    BY <2>1, <2>3 DEF Types, SourcesTyped, IndexTyped, ClaimsTyped, BeliefsTyped, RemovalTyped, ImportTyped, Judged,
                      stored, index, work, beliefs, underway
<1>2. CASE AbortRebuild(w) \/ Interrupt(w)
  <2>1. /\ UNCHANGED <<stored, index, pending, work, beliefs, underway, changes>>
        /\ step' = [step EXCEPT ![w] = Idle]
    BY <1>2 DEF AbortRebuild, Interrupt
  <2>2. Idle \in StepType /\ Idle.do # "rebuild"
    BY DEF StepType, Idle
  <2>3. Owed' /\ WorkersTyped'
    BY <2>1, <2>2, StartsOwed DEF Types
  <2> QED
    BY <2>1, <2>3 DEF Types, SourcesTyped, IndexTyped, ClaimsTyped, BeliefsTyped, RemovalTyped, ImportTyped, Judged,
                      stored, index, work, beliefs, underway
<1>3. ASSUME NEW j \in open, BeginIndex(w, j) PROVE Types'
  <2>1. UNCHANGED <<stored, index, pending, known, linked, beliefs, underway, changes>>
    BY <1>3 DEF BeginIndex
  <2>2. open' \subseteq known
    BY <1>3 DEF BeginIndex, Types, IndexTyped
  <2>3. Owed' /\ WorkersTyped'
    <3>1. CASE UNCHANGED step
      <4>1. pending' \in Nat /\ pending' >= pending /\ changes' \in Nat
        BY <2>1 DEF Types, Owed
      <4> QED
        BY <3>1, <4>1, OwedStays DEF Types, WorkersTyped
    <3>2. CASE step' = [step EXCEPT ![w] = [do |-> "index", job |-> j]]
      <4>1. [do |-> "index", job |-> j] \in StepType
        BY DEF Types, IndexTyped, StepType
      <4>2. PICK r \in StepType : r = [do |-> "index", job |-> j]
        BY <4>1
      <4>3. step' = [step EXCEPT ![w] = r] /\ r.do # "rebuild"
        BY <3>2, <4>2
      <4> QED
        BY <2>1, <4>3, StartsOwed DEF Types
    <3> QED
      BY <1>3, <3>1, <3>2 DEF BeginIndex
  <2> QED
    BY <2>1, <2>2, <2>3 DEF Types, SourcesTyped, IndexTyped, ClaimsTyped, BeliefsTyped, RemovalTyped,
                            ImportTyped, Judged, stored, index, beliefs, underway
<1> QED
  BY <1>1, <1>2, <1>3, CommitTyped, FinishTyped DEF Worker

LEMMA TypesNext == Types /\ [Next]_vars => Types'
<1> SUFFICES ASSUME Types, [Next]_vars PROVE Types'
  OBVIOUS
<1>1. CASE UNCHANGED vars
  <2>1. UNCHANGED <<stored, index, pending, work, beliefs, underway, step, changes>>
    BY <1>1 DEF vars
  <2>2. Doing("rebuild")' = Doing("rebuild")
    BY <2>1 DEF Doing
  <2> QED
    BY <2>1, <2>2 DEF Types, SourcesTyped, IndexTyped, ClaimsTyped, BeliefsTyped, RemovalTyped,
                      ImportTyped, Judged, WorkersTyped, Owed, stored, index, work, beliefs, underway
<1> QED
  BY <1>1, ProviderTyped, UserTyped, WorkerTyped DEF Next

\* What is remembered keeps its types, for any number of workers: the number of
\* rebuilds that are owed never falls below the number of those that run, and a
\* job points at a chunk that is there or at none.
THEOREM TypeCorrect == Spec => []TypeOK
BY TypesInit, TypesNext, TypesImply, PTL DEF Spec
-----------------------------------------------------------------------------
(* Claims and their evidence, whatever the workers and the user do *)

\* Of the claims that no two transactions took the evidence of at once, those
\* that lose the citations of ids, and are not lost with them, keep another.
Spared(ids, lost) ==
  \A f \in Facts \ (torn \cup lost) :
    claim[f] = "active" => \E t \in cites : t[1] = f /\ t[2][1] \notin ids

Claimed       == \A f \in Facts \ torn : claim[f] = "active" => \E t \in cites : t[1] = f
ImportSpares  == Judged(import) => Spared({import.msg}, import.lost)
RemovalSpares == Judged(removal) => Spared(removal.ids, removal.lost)
BothSpare     == Judged(import) /\ Judged(removal) =>
                   Spared({import.msg} \cup removal.ids, Doomed)

CitedLive  == \A t \in cites : t[2] \in Live
Endorsed   == \A f \in Facts : f \in byUser => claim[f] \in {"confirmed", "rejected"}
Refused    == \A f \in Facts : f \in rejected => claim[f] # "active"
Undecided  == \A f \in Doomed : f \notin byUser /\ claim[f] # "confirmed"

SparedInv  == Claimed /\ ImportSpares /\ RemovalSpares /\ BothSpare
DecidedInv == Endorsed /\ Refused /\ Undecided
SupportInv == SparedInv /\ CitedLive /\ DecidedInv

\* The sources and what is cited of them change together or not at all.
LEMMA LiveUnchanged ==
  ASSUME UNCHANGED <<src, gen>>
  PROVE  Live' = Live
BY DEF Live, Rows

\* A row of another message is live after the change of the messages in ids.
LEMMA LiveElsewhere ==
  ASSUME NEW ids, NEW r \in Live, r[1] \notin ids,
         \A m \in Messages \ ids : src'[m] = src[m] /\ gen'[m] = gen[m]
  PROVE  r \in Live'
<1>1. PICK m \in Messages : src[m] # "absent" /\ r = <<m, gen[m], src[m]>> /\ r[3] # "deleted"
  BY DEF Live, Rows
<1>2. m \notin ids
  BY <1>1
<1>3. src'[m] = src[m] /\ gen'[m] = gen[m]
  BY <1>2
<1> QED
  BY <1>1, <1>3 DEF Live, Rows

\* What was spared stays so: no claim becomes active, no citation goes.
LEMMA NothingTaken ==
  ASSUME SparedInv, torn \subseteq torn', cites \subseteq cites',
         \A f \in Facts : claim'[f] = "active" => claim[f] = "active",
         import' = import \/ ~Judged(import'),
         \/ removal' = removal
         \/ ~Judged(removal')
         \/ removal'.at = removal.at /\ removal'.ids = removal.ids /\ removal'.lost = removal.lost
  PROVE  SparedInv'
<1>1. Claimed'
  BY DEF SparedInv, Claimed
<1>2. ImportSpares'
  BY DEF SparedInv, ImportSpares, Spared, Judged
<1>3. RemovalSpares'
  BY DEF SparedInv, RemovalSpares, Spared, Judged
<1>4. BothSpare'
  BY DEF SparedInv, BothSpare, Spared, Doomed, Judged
<1> QED
  BY <1>1, <1>2, <1>3, <1>4 DEF SparedInv

\* invalidate finds every claim that would be left without evidence.
LEMMA LostSpares ==
  ASSUME SupportInv, NEW ids, NEW f \in Facts \ (torn \cup Lost(ids)), claim[f] = "active"
  PROVE  \E t \in cites : t[1] = f /\ t[2][1] \notin ids
<1>1. PICK t \in cites : t[1] = f
  BY DEF SupportInv, SparedInv, Claimed
<1>2. \A u \in cites : u[2][1] \in Messages
  BY DEF SupportInv, CitedLive, Live, Rows
<1>3. f \notin byUser /\ claim[f] # "confirmed"
  BY DEF SupportInv, DecidedInv, Endorsed
<1>4. ~Cites(f, ids) \/ Cites(f, Messages \ ids)
  BY <1>3 DEF Lost
<1> QED
  BY <1>1, <1>2, <1>4 DEF Cites

\* The second to judge adds to torn what both take: of the rest one of the two
\* takes nothing, and what the other spares is spared.
LEMMA SecondSpares ==
  ASSUME NEW ids, NEW ids2, NEW lost, NEW lost2, NEW f \in Facts \ (torn \cup lost \cup lost2),
         claim[f] = "active",
         Spared(ids, lost), \E t \in cites : t[1] = f /\ t[2][1] \notin ids2,
         ~Cites(f, ids) \/ ~Cites(f, ids2)
  PROVE  \E t \in cites : t[1] = f /\ t[2][1] \notin ids \cup ids2
<1>1. PICK t \in cites : t[1] = f /\ t[2][1] \notin ids
  BY DEF Spared
<1>2. PICK u \in cites : u[1] = f /\ u[2][1] \notin ids2
  OBVIOUS
<1>3. CASE ~Cites(f, ids)
  BY <1>2, <1>3 DEF Cites
<1>4. CASE ~Cites(f, ids2)
  BY <1>1, <1>4 DEF Cites
<1> QED
  BY <1>3, <1>4

LEMMA JudgeImportSpares ==
  ASSUME Types, SupportInv, JudgeImport
  PROVE  SupportInv'
<1> DEFINE m == import.msg
<1>1. /\ UNCHANGED <<src, gen, beliefs, removal>>
      /\ import.at = "looked" /\ import' = [import EXCEPT !.at = "judged", !.lost = Lost({m})]
      /\ torn' = IF Judged(removal)
                 THEN torn \cup {f \in Facts : Cites(f, {m}) /\ Cites(f, removal.ids)} ELSE torn
  BY DEF JudgeImport, stored
<1>2. import \in Imports
  BY <1>1, ImportParts DEF Types
<1>3. import'.at = "judged" /\ import'.msg = m /\ import'.lost = Lost({m})
  BY <1>1, <1>2 DEF Imports
<1>4. CitedLive' /\ Endorsed' /\ Refused'
  BY <1>1, LiveUnchanged DEF SupportInv, CitedLive, DecidedInv, Endorsed, Refused, beliefs
<1>5. Undecided'
  BY <1>1, <1>3 DEF SupportInv, DecidedInv, Undecided, Doomed, Lost, beliefs
<1>6. Claimed' /\ RemovalSpares'
  BY <1>1 DEF SupportInv, SparedInv, Claimed, RemovalSpares, Spared, beliefs
<1>7. ASSUME NEW f \in Facts \ (torn \cup Lost({m})), claim[f] = "active"
      PROVE  \E t \in cites : t[1] = f /\ t[2][1] \notin {m}
  BY <1>7, LostSpares
<1>8. ImportSpares'
  <2>1. torn \subseteq torn' /\ UNCHANGED <<claim, cites>>
    BY <1>1 DEF beliefs
  <2>2. \A f \in Facts \ (torn' \cup import'.lost) :
          claim'[f] = "active" => \E t \in cites' : t[1] = f /\ t[2][1] \notin {import'.msg}
    BY <1>3, <1>7, <2>1
  <2> QED
    BY <2>2 DEF ImportSpares, Spared
<1>9. BothSpare'
  <2> SUFFICES ASSUME Judged(removal), NEW f \in Facts \ (torn' \cup Lost({m}) \cup removal.lost),
                      claim[f] = "active"
               PROVE  \E t \in cites : t[1] = f /\ t[2][1] \notin {m} \cup removal.ids
    BY <1>1, <1>3 DEF BothSpare, Spared, Doomed, Judged, beliefs
  <2>1. f \in Facts \ torn /\ f \notin Lost({m}) /\ f \notin removal.lost
        /\ (~Cites(f, {m}) \/ ~Cites(f, removal.ids))
    BY <1>1
  <2>2. \E t \in cites : t[1] = f /\ t[2][1] \notin {m}
    BY <1>7, <2>1
  <2>3. Spared(removal.ids, removal.lost)
    BY DEF SupportInv, SparedInv, RemovalSpares
  <2>4. \E t \in cites : t[1] = f /\ t[2][1] \notin removal.ids \cup {m}
    BY <2>1, <2>2, <2>3, SecondSpares
  <2> QED
    BY <2>4
<1> QED
  BY <1>4, <1>5, <1>6, <1>8, <1>9 DEF SupportInv, SparedInv, DecidedInv

LEMMA JudgeRemovalSpares ==
  ASSUME Types, SupportInv, JudgeRemoval
  PROVE  SupportInv'
<1> DEFINE ids == removal.ids
<1>1. /\ UNCHANGED <<src, gen, beliefs, import>>
      /\ removal' = [removal EXCEPT !.at = "judged", !.lost = Lost(ids)]
      /\ torn' = IF Judged(import)
                 THEN torn \cup {f \in Facts : Cites(f, {import.msg}) /\ Cites(f, ids)} ELSE torn
  BY DEF JudgeRemoval, stored
<1>3. removal'.at = "judged" /\ removal'.ids = ids /\ removal'.lost = Lost(ids)
  BY <1>1 DEF Types, RemovalTyped
<1>4. CitedLive' /\ Endorsed' /\ Refused'
  BY <1>1, LiveUnchanged DEF SupportInv, CitedLive, DecidedInv, Endorsed, Refused, beliefs
<1>5. Undecided'
  BY <1>1, <1>3 DEF SupportInv, DecidedInv, Undecided, Doomed, Lost, beliefs
<1>6. Claimed' /\ ImportSpares'
  BY <1>1 DEF SupportInv, SparedInv, Claimed, ImportSpares, Spared, beliefs
<1>7. ASSUME NEW f \in Facts \ (torn \cup Lost(ids)), claim[f] = "active"
      PROVE  \E t \in cites : t[1] = f /\ t[2][1] \notin ids
  BY <1>7, LostSpares
<1>8. RemovalSpares'
  BY <1>1, <1>3, <1>7 DEF RemovalSpares, Spared, beliefs
<1>9. BothSpare'
  <2> SUFFICES ASSUME Judged(import), NEW f \in Facts \ (torn' \cup import.lost \cup Lost(ids)),
                      claim[f] = "active"
               PROVE  \E t \in cites : t[1] = f /\ t[2][1] \notin {import.msg} \cup ids
    BY <1>1, <1>3 DEF BothSpare, Spared, Doomed, Judged, beliefs
  <2>1. f \in Facts \ torn /\ f \notin Lost(ids) /\ f \notin import.lost
        /\ (~Cites(f, {import.msg}) \/ ~Cites(f, ids))
    BY <1>1
  <2>2. \E t \in cites : t[1] = f /\ t[2][1] \notin ids
    BY <1>7, <2>1
  <2>3. Spared({import.msg}, import.lost)
    BY DEF SupportInv, SparedInv, ImportSpares
  <2> QED
    BY <2>1, <2>2, <2>3, SecondSpares
<1> QED
  BY <1>4, <1>5, <1>6, <1>8, <1>9 DEF SupportInv, SparedInv, DecidedInv

\* Nothing but the parties to it matters to SupportInv.
LEMMA SupportUnchanged ==
  ASSUME SupportInv, UNCHANGED <<src, gen, beliefs, torn>>,
         import' = import \/ (~Judged(import') /\ import'.lost = {}),
         \/ removal' = removal
         \/ ~Judged(removal') /\ removal'.lost = {}
         \/ removal'.at = removal.at /\ removal'.ids = removal.ids /\ removal'.lost = removal.lost
  PROVE  SupportInv'
<1>1. Live' = Live
  BY LiveUnchanged
<1>2. SparedInv'
  BY NothingTaken DEF SupportInv, beliefs
<1>3. Doomed' \subseteq Doomed
  BY DEF Doomed
<1> QED
  BY <1>1, <1>2, <1>3 DEF SupportInv, CitedLive, DecidedInv, Endorsed, Refused, Undecided, beliefs

\* A commit that takes citations and the claims found lost leaves what was
\* spared of more.
LEMMA UnciteSpares ==
  ASSUME NEW T, NEW M, Spared(T, M), NEW ids \in SUBSET T, NEW lost, Uncite(ids, lost),
         NEW f \in Facts \ torn, claim'[f] = "active", f \in M => f \in lost
  PROVE  \E t \in cites' : t[1] = f /\ t[2][1] \notin T
<1>1. f \notin lost /\ claim[f] = "active"
  BY DEF Uncite
<1>2. PICK t \in cites : t[1] = f /\ t[2][1] \notin T
  BY <1>1 DEF Spared
<1> QED
  BY <1>2 DEF Uncite

LEMMA UnciteCitesLive ==
  ASSUME CitedLive, NEW ids, NEW lost, Uncite(ids, lost),
         \A m \in Messages \ ids : src'[m] = src[m] /\ gen'[m] = gen[m]
  PROVE  CitedLive'
<1> SUFFICES ASSUME NEW t \in cites' PROVE t[2] \in Live'
  BY DEF CitedLive
<1>1. t \in cites /\ t[2][1] \notin ids
  BY DEF Uncite
<1>2. t[2] \in Live
  BY <1>1 DEF CitedLive
<1> QED
  BY <1>1, <1>2, LiveElsewhere

LEMMA DoomedTyped ==
  ASSUME Types
  PROVE  Doomed \subseteq Facts
BY DEF Doomed, Types, RemovalTyped, ImportTyped, Imports, NoImport

LEMMA UnciteDecides ==
  ASSUME DecidedInv, NEW ids, NEW lost \in SUBSET Doomed, Uncite(ids, lost),
         Doomed' \subseteq Doomed, Doomed \subseteq Facts
  PROVE  DecidedInv'
<1>1. \A f \in Facts : claim'[f] = "active" => claim[f] = "active"
  BY DEF Uncite
<1>2. \A f \in Facts : f \in byUser => claim'[f] = claim[f]
  BY DEF Uncite, DecidedInv, Undecided
<1>3. \A f \in Doomed : f \notin byUser' /\ claim'[f] # "confirmed"
  <2> SUFFICES ASSUME NEW f \in Doomed PROVE f \notin byUser' /\ claim'[f] # "confirmed"
    OBVIOUS
  <2>1. f \notin byUser /\ claim[f] # "confirmed" /\ byUser' = byUser
    BY DEF DecidedInv, Undecided, Uncite
  <2> QED
    BY <2>1 DEF Uncite
<1> QED
  BY <1>1, <1>2, <1>3 DEF Endorsed, Refused, Undecided, DecidedInv, Uncite

LEMMA EditSupports ==
  ASSUME Types, SupportInv, Edit \/ Delete
  PROVE  SupportInv'
<1> DEFINE m == import.msg
<1>1. /\ Judged(import) /\ Uncite({m}, import.lost) /\ UNCHANGED <<gen, torn>>
      /\ import' = NoImport /\ removal' = [removal EXCEPT !.chunks = removal.chunks \ Covering({m})]
  BY DEF Edit, Delete
<1>2. \A k \in Messages \ {m} : src'[k] = src[k] /\ gen'[k] = gen[k]
  BY DEF Edit, Delete, Types, SourcesTyped
<1>3. removal'.at = removal.at /\ removal'.ids = removal.ids /\ removal'.lost = removal.lost
  BY <1>1 DEF Types, RemovalTyped
<1>4. CitedLive'
  BY <1>1, <1>2, UnciteCitesLive DEF SupportInv
<1>5. Doomed' \subseteq Doomed /\ import.lost \subseteq Doomed
  BY <1>1, <1>3 DEF Doomed, NoImport
<1>6. DecidedInv'
  BY <1>1, <1>5, DoomedTyped, UnciteDecides DEF SupportInv
<1>7. ~Judged(import')
  BY <1>1 DEF NoImport, Judged
<1>8. Claimed'
  <2>1. Spared({m}, import.lost)
    BY <1>1 DEF SupportInv, SparedInv, ImportSpares
  <2>2. ASSUME NEW f \in Facts \ torn, claim'[f] = "active" PROVE \E t \in cites' : t[1] = f
    BY <1>1, <2>1, <2>2, UnciteSpares
  <2> QED
    BY <1>1, <2>2 DEF Claimed
<1>9. RemovalSpares'
  <2> SUFFICES ASSUME Judged(removal) PROVE Spared(removal.ids, removal.lost)'
    BY <1>3 DEF RemovalSpares, Judged
  <2>1. Spared({m} \cup removal.ids, import.lost \cup removal.lost)
    BY <1>1 DEF SupportInv, SparedInv, BothSpare, Doomed
  <2>2. ASSUME NEW f \in Facts \ (torn \cup removal.lost), claim'[f] = "active"
        PROVE  \E t \in cites' : t[1] = f /\ t[2][1] \notin {m} \cup removal.ids
    BY <1>1, <2>1, <2>2, UnciteSpares
  <2> QED
    BY <1>1, <1>3, <2>2 DEF Spared
<1> QED
  BY <1>4, <1>6, <1>7, <1>8, <1>9 DEF SupportInv, SparedInv, ImportSpares, BothSpare, Judged

LEMMA FinishRemovalSupports ==
  ASSUME Types, SupportInv, FinishRemoval
  PROVE  SupportInv'
<1> DEFINE ids == removal.ids
<1>1. /\ Judged(removal) /\ Uncite(ids, removal.lost) /\ UNCHANGED <<gen, torn, import>>
      /\ removal' = NoRemoval
  BY DEF FinishRemoval
<1>2. \A k \in Messages \ ids : src'[k] = src[k] /\ gen'[k] = gen[k]
  BY DEF FinishRemoval
<1>4. CitedLive'
  BY <1>1, <1>2, UnciteCitesLive DEF SupportInv
<1>5. Doomed' \subseteq Doomed /\ removal.lost \subseteq Doomed
  BY <1>1 DEF Doomed, NoRemoval
<1>6. DecidedInv'
  BY <1>1, <1>5, DoomedTyped, UnciteDecides DEF SupportInv
<1>7. ~Judged(removal')
  BY <1>1 DEF NoRemoval, Judged
<1>8. Claimed'
  <2>1. Spared(ids, removal.lost)
    BY <1>1 DEF SupportInv, SparedInv, RemovalSpares
  <2>2. ASSUME NEW f \in Facts \ torn, claim'[f] = "active" PROVE \E t \in cites' : t[1] = f
    BY <1>1, <2>1, <2>2, UnciteSpares
  <2> QED
    BY <1>1, <2>2 DEF Claimed
<1>9. ImportSpares'
  <2> SUFFICES ASSUME Judged(import) PROVE Spared({import.msg}, import.lost)'
    BY <1>1 DEF ImportSpares, Judged
  <2>1. Spared({import.msg} \cup ids, import.lost \cup removal.lost)
    BY <1>1 DEF SupportInv, SparedInv, BothSpare, Doomed
  <2>2. ASSUME NEW f \in Facts \ (torn \cup import.lost), claim'[f] = "active"
        PROVE  \E t \in cites' : t[1] = f /\ t[2][1] \notin {import.msg} \cup ids
    <3> DEFINE T == {import.msg} \cup ids
               M == import.lost \cup removal.lost
    <3>1. ids \in SUBSET T /\ f \in Facts \ torn /\ (f \in M => f \in removal.lost)
      BY <2>2
    <3>2. Uncite(ids, removal.lost) /\ Spared(T, M)
      BY <1>1, <2>1
    <3> HIDE DEF T, M
    <3>3. \E t \in cites' : t[1] = f /\ t[2][1] \notin T
      BY <2>2, <3>1, <3>2, UnciteSpares
    <3> QED
      BY <3>3 DEF T
  <2> QED
    BY <1>1, <2>2 DEF Spared
<1> QED
  BY <1>4, <1>6, <1>7, <1>8, <1>9 DEF SupportInv, SparedInv, RemovalSpares, BothSpare, Judged

\* A message that is new cites nothing yet.
LEMMA InsertSupports ==
  ASSUME Types, SupportInv, Insert
  PROVE  SupportInv'
<1> DEFINE m == import.msg
<1>1. \A k \in Messages \ {m} : src'[k] = src[k] /\ gen'[k] = gen[k]
  BY DEF Insert
<1>2. ASSUME NEW r \in Live PROVE r[1] \notin {m}
  BY DEF Insert, Live, Rows
<1>3. UNCHANGED <<beliefs, torn, removal>> /\ import' = NoImport
  BY DEF Insert
<1>4. CitedLive'
  BY <1>1, <1>2, <1>3, LiveElsewhere DEF SupportInv, CitedLive, beliefs
<1>5. SparedInv'
  BY <1>3, NothingTaken DEF SupportInv, NoImport, Judged, beliefs
<1>6. Doomed' \subseteq Doomed
  BY <1>3 DEF Doomed, NoImport
<1> QED
  BY <1>3, <1>4, <1>5, <1>6 DEF SupportInv, DecidedInv, Endorsed, Refused, Undecided, beliefs

LEMMA ProviderSupports ==
  ASSUME Types, SupportInv, Provider
  PROVE  SupportInv'
<1>1. ASSUME NEW m \in Messages, NEW says \in Contents \cup {"deleted"}, Look(m, says)
      PROVE  SupportInv'
  <2>1. /\ UNCHANGED <<src, gen, beliefs, torn, removal>>
        /\ ~Judged(import') /\ import'.lost = {}
    BY <1>1 DEF Look, stored, Judged
  <2> QED
    BY <2>1, SupportUnchanged
<1>2. CASE DropImport
  <2>1. /\ UNCHANGED <<src, gen, beliefs, torn, removal>>
        /\ ~Judged(import') /\ import'.lost = {}
    BY <1>2 DEF DropImport, stored, Judged, NoImport
  <2> QED
    BY <2>1, SupportUnchanged
<1> QED
  BY <1>1, <1>2, InsertSupports, JudgeImportSpares, EditSupports DEF Provider, Import

LEMMA CorrectionSupports ==
  ASSUME Types, SupportInv, NEW f \in Facts,
         Confirm(f) \/ Reject(f) \/ \E g \in Facts : Reword(f, g)
  PROVE  SupportInv'
<1>1. Live' = Live /\ UNCHANGED <<cites, import, removal, torn>>
  BY LiveUnchanged DEF Confirm, Reject, Reword, stored, underway
<1>2. \A k \in Facts : claim'[k] = "active" => claim[k] = "active"
  BY DEF Confirm, Reject, Reword, Types, ClaimsTyped, BeliefsTyped
<1>3. SparedInv' /\ CitedLive'
  BY <1>1, <1>2, NothingTaken DEF SupportInv, CitedLive
<1>4. \A k \in Facts : k \in byUser' => claim'[k] \in {"confirmed", "rejected"}
  BY DEF Confirm, Reject, Reword, Types, ClaimsTyped, BeliefsTyped, SupportInv, DecidedInv, Endorsed
<1>5. \A k \in Facts : k \in rejected' => claim'[k] # "active"
  BY DEF Confirm, Reject, Reword, Types, ClaimsTyped, BeliefsTyped, SupportInv, DecidedInv, Refused
<1>6. Undecided'
  <2>1. Doomed' = Doomed /\ Doomed \subseteq Facts
    BY <1>1 DEF Doomed, Types, RemovalTyped, ImportTyped, Imports, NoImport
  <2>2. CASE Confirm(f) \/ Reject(f)
    BY <2>1, <2>2 DEF Confirm, Reject, Types, ClaimsTyped, BeliefsTyped, SupportInv, DecidedInv,
                      Undecided
  <2>3. CASE \E g \in Facts : Reword(f, g)
    BY <2>1, <2>3 DEF Reword, Types, ClaimsTyped, BeliefsTyped, SupportInv, DecidedInv, Undecided
  <2> QED
    BY <2>2, <2>3
<1> QED
  BY <1>3, <1>4, <1>5, <1>6 DEF SupportInv, DecidedInv, Endorsed, Refused

LEMMA UserSupports ==
  ASSUME Types, SupportInv, User
  PROVE  SupportInv'
<1>1. CASE \E kind \in Removals, ids \in SUBSET Messages : BeginRemoval(kind, ids)
  <2>1. /\ UNCHANGED <<src, gen, beliefs, torn, import>>
        /\ ~Judged(removal') /\ removal'.lost = {}
    BY <1>1 DEF BeginRemoval, stored, Judged
  <2> QED
    BY <2>1, SupportUnchanged
<1>2. CASE DropRemoval
  <2>1. /\ UNCHANGED <<src, gen, beliefs, torn, import>>
        /\ ~Judged(removal') /\ removal'.lost = {}
    BY <1>2 DEF DropRemoval, stored, Judged, NoRemoval
  <2> QED
    BY <2>1, SupportUnchanged
<1>3. CASE \E key \in Messages \cup {Conversation} : Readmit(key)
  <2>1. UNCHANGED <<src, gen, beliefs, torn, import, removal>>
    BY <1>3 DEF Readmit, underway
  <2> QED
    BY <2>1, SupportUnchanged
<1> QED
  BY <1>1, <1>2, <1>3, JudgeRemovalSpares, FinishRemovalSupports, CorrectionSupports DEF User

\* What an extraction publishes is cited by what it rechecked under lock, and
\* by nothing that an import is taking.
LEMMA PublishSupports ==
  ASSUME Types, SupportInv, NEW j, StillValid(j), j[2] \notin Locked,
         NEW evidence \in SUBSET (Facts \X Cited(j[2])), Publish(evidence),
         UNCHANGED <<src, gen, import, removal>>
  PROVE  SupportInv'
<1> DEFINE said == Accepted(evidence)
           new  == {t \in said : \A u \in cites : <<u[1], u[2][1]>> # <<t[1], t[2][1]>>}
<1>1. \A t \in said : t[1] \in Facts \ rejected /\ t[1] \notin Doomed /\ t[2] \in Live
  BY DEF Accepted, StillValid, Publish
<1>2. cites' = cites \cup new /\ byUser' = byUser /\ rejected' = rejected
  BY DEF Publish
<1>3. claim' = [f \in Facts |-> IF claim[f] = "none" /\ \E t \in said : t[1] = f
                               THEN "active" ELSE claim[f]]
  BY DEF Publish
<1>4. torn' = IF Judged(removal)
              THEN torn \cup {t[1] : t \in {u \in said : u[2][1] \in removal.ids}} ELSE torn
  BY DEF Publish
<1>5. CitedLive'
  BY <1>1, <1>2, LiveUnchanged DEF SupportInv, CitedLive
<1>6. ASSUME Judged(import), NEW t \in said PROVE t[2][1] # import.msg
  <2>1. j[2] \in chunks /\ j[2] \notin Covering({import.msg})
    BY <1>6 DEF Locked, StillValid, Types, IndexTyped
  <2>2. t[2] \in Cited(j[2])
    BY DEF Accepted
  <2> QED
    BY <2>1, <2>2 DEF Covering
\* Of each fact said there is a citation of the message it was said from.
<1>7. ASSUME NEW t \in said
      PROVE  \E u \in cites' : u[1] = t[1] /\ u[2][1] = t[2][1]
  BY <1>2
<1>8. ASSUME NEW f \in Facts, claim'[f] = "active", claim[f] # "active"
      PROVE  \E t \in said : t[1] = f
  BY <1>3, <1>8
<1>9. torn \subseteq torn' /\ cites \subseteq cites'
  BY <1>2, <1>4
<1>10. ASSUME Judged(removal), NEW t \in said, t[1] \notin torn' PROVE t[2][1] \notin removal.ids
  BY <1>4, <1>10
<1> HIDE DEF said, new
<1>11. Claimed'
  <2> SUFFICES ASSUME NEW f \in Facts \ torn', claim'[f] = "active"
               PROVE  \E t \in cites' : t[1] = f
    BY DEF Claimed
  <2>1. CASE claim[f] = "active"
    BY <2>1, <1>9 DEF SupportInv, SparedInv, Claimed
  <2>2. CASE claim[f] # "active"
    BY <2>2, <1>7, <1>8
  <2> QED
    BY <2>1, <2>2
<1>12. ImportSpares'
  <2> SUFFICES ASSUME Judged(import), NEW f \in Facts \ (torn' \cup import.lost),
                      claim'[f] = "active"
               PROVE  \E t \in cites' : t[1] = f /\ t[2][1] \notin {import.msg}
    BY DEF ImportSpares, Spared
  <2>1. CASE claim[f] = "active"
    BY <2>1, <1>9 DEF SupportInv, SparedInv, ImportSpares, Spared
  <2>2. CASE claim[f] # "active"
    BY <2>2, <1>6, <1>7, <1>8
  <2> QED
    BY <2>1, <2>2
<1>13. RemovalSpares'
  <2> SUFFICES ASSUME Judged(removal), NEW f \in Facts \ (torn' \cup removal.lost),
                      claim'[f] = "active"
               PROVE  \E t \in cites' : t[1] = f /\ t[2][1] \notin removal.ids
    BY DEF RemovalSpares, Spared
  <2>1. CASE claim[f] = "active"
    BY <2>1, <1>9 DEF SupportInv, SparedInv, RemovalSpares, Spared
  <2>2. CASE claim[f] # "active"
    BY <2>2, <1>10, <1>7, <1>8
  <2> QED
    BY <2>1, <2>2
<1>14. BothSpare'
  <2> SUFFICES ASSUME Judged(import), Judged(removal), NEW f \in Facts \ (torn' \cup Doomed),
                      claim'[f] = "active"
               PROVE  \E t \in cites' : t[1] = f /\ t[2][1] \notin {import.msg} \cup removal.ids
    BY DEF BothSpare, Spared, Doomed
  <2>1. CASE claim[f] = "active"
    BY <2>1, <1>9 DEF SupportInv, SparedInv, BothSpare, Spared
  <2>2. CASE claim[f] # "active"
    BY <2>2, <1>6, <1>10, <1>7, <1>8
  <2> QED
    BY <2>1, <2>2
<1>15. DecidedInv'
  <2>1. ASSUME NEW f \in Facts, f \in rejected PROVE claim'[f] # "active"
    BY <2>1, <1>1, <1>3 DEF SupportInv, DecidedInv, Refused
  <2>2. ASSUME NEW f \in Facts, f \in byUser PROVE claim'[f] = claim[f]
    BY <2>2, <1>3 DEF SupportInv, DecidedInv, Endorsed
  <2>3. ASSUME NEW f \in Doomed PROVE f \notin byUser /\ claim'[f] # "confirmed"
    BY <2>3, <1>3, DoomedTyped DEF SupportInv, DecidedInv, Undecided
  <2>4. Doomed' = Doomed
    BY DEF Doomed
  <2> QED
    BY <2>1, <2>2, <2>3, <2>4, <1>2 DEF SupportInv, DecidedInv, Endorsed, Refused, Undecided
<1> QED
  BY <1>5, <1>11, <1>12, <1>13, <1>14, <1>15 DEF SupportInv, SparedInv

LEMMA IndexSupports ==
  ASSUME Types, SupportInv, NEW w \in Workers, FinishIndex(w)
  PROVE  SupportInv'
<1> DEFINE j == step[w].job
<1>1. UNCHANGED <<src, gen, import, removal>> /\ j[2] \notin Locked
  BY DEF FinishIndex, stored
<1>2. CASE StillValid(j) /\ j[1] = "extract"
  <2>1. PICK evidence \in SUBSET (Facts \X Cited(j[2])) : Publish(evidence)
    BY <1>2 DEF FinishIndex
  <2> QED
    BY <1>1, <1>2, <2>1, PublishSupports
<1>3. CASE ~(StillValid(j) /\ j[1] = "extract")
  <2>1. UNCHANGED <<beliefs, torn>>
    BY <1>3 DEF FinishIndex
  <2> QED
    BY <1>1, <2>1, SupportUnchanged
<1> QED
  BY <1>2, <1>3

LEMMA WorkerSupports ==
  ASSUME Types, SupportInv, NEW w \in Workers, Worker(w)
  PROVE  SupportInv'
<1>1. CASE CommitRebuild(w)
  <2>1. /\ UNCHANGED <<src, gen, beliefs, torn, import>>
        /\ \E D : removal' = [removal EXCEPT !.chunks = removal.chunks \ D]
    BY <1>1 DEF CommitRebuild, stored
  <2>2. removal'.at = removal.at /\ removal'.ids = removal.ids /\ removal'.lost = removal.lost
    BY <2>1 DEF Types, RemovalTyped
  <2> QED
    BY <2>1, <2>2, SupportUnchanged
<1>2. CASE \/ BeginRebuild(w) \/ AbortRebuild(w) \/ Interrupt(w)
           \/ \E j \in open : BeginIndex(w, j)
  <2>1. UNCHANGED <<src, gen, beliefs, torn, import, removal>>
    BY <1>2 DEF BeginRebuild, AbortRebuild, Interrupt, BeginIndex, stored, underway
  <2> QED
    BY <2>1, SupportUnchanged
<1> QED
  BY <1>1, <1>2, IndexSupports DEF Worker

LEMMA NextSupports ==
  ASSUME Types, SupportInv, [Next]_vars
  PROVE  SupportInv'
<1>1. CASE UNCHANGED vars
  <2>1. UNCHANGED <<src, gen, beliefs, torn, import, removal>>
    BY <1>1 DEF vars, stored, underway
  <2> QED
    BY <2>1, SupportUnchanged
<1> QED
  BY <1>1, ProviderSupports, UserSupports, WorkerSupports DEF Next

LEMMA InitSupports == Init => SupportInv
BY DEF Init, SupportInv, SparedInv, Claimed, ImportSpares, RemovalSpares, BothSpare, CitedLive,
       DecidedInv, Endorsed, Refused, Undecided, Doomed, NoImport, NoRemoval, Judged

\* With any number of workers, rebuilds, removals and corrections at once, no
\* citation outlives the change or the removal of the message it names, and no
\* extracted claim its last citation, but for the claims in torn: those that an
\* import and a removal took evidence of at the same time, or that were
\* published from a message while its removal was deleting (invalidate,
\* _still_valid).
THEOREM EvidenceCorrect == Spec => []ClaimsSupported
<1>1. SupportInv => ClaimsSupported
  BY DEF SupportInv, SparedInv, ClaimsSupported, Claimed, CitedLive
<1> QED
  BY <1>1, NextSupports, InitSupports, TypesInit, TypesNext, PTL DEF Spec

\* No two transactions take from one claim: the second to judge what loses its
\* evidence finds no claim that both cite, and nothing is published from a
\* message that a removal is deleting.
NoneTorn == torn' = torn

\* invalidate leaves no extracted claim without evidence as long as that holds,
\* which nothing in the code sees to: it locks no claim (app/ingest.py).
THEOREM NoClaimUnsupported == Spec /\ [][NoneTorn]_vars => []NoneUnsupported
<1>1. Init => torn = {}
  BY DEF Init
<1>2. torn = {} /\ [NoneTorn]_vars => (torn = {})'
  BY DEF NoneTorn, vars, underway
<1>3. ClaimsSupported /\ torn = {} => NoneUnsupported
  BY DEF ClaimsSupported, NoneUnsupported
<1>4. Spec => []ClaimsSupported
  BY EvidenceCorrect
<1> QED
  BY <1>1, <1>2, <1>3, <1>4, PTL DEF Spec

-----------------------------------------------------------------------------
(* The user's decisions *)

LEMMA UserKeepsDecisions ==
  ASSUME Types, SupportInv, User, NEW f \in Facts
  PROVE  /\ f \in rejected => f \in rejected'
         /\ claim[f] = "confirmed" => claim'[f] \in {"confirmed", "rejected"}
<1>1. CASE \E k \in Facts : Confirm(k) \/ Reject(k) \/ \E g \in Facts : Reword(k, g)
  BY <1>1 DEF Confirm, Reject, Reword, Types, ClaimsTyped, BeliefsTyped
<1>2. CASE FinishRemoval
  BY <1>2 DEF FinishRemoval, Uncite, SupportInv, DecidedInv, Undecided, Doomed
<1>3. CASE \/ \E kind \in Removals, ids \in SUBSET Messages : BeginRemoval(kind, ids)
           \/ JudgeRemoval \/ DropRemoval
           \/ \E key \in Messages \cup {Conversation} : Readmit(key)
  BY <1>3 DEF BeginRemoval, JudgeRemoval, DropRemoval, Readmit, beliefs
<1> QED
  BY <1>1, <1>2, <1>3 DEF User

LEMMA OthersKeepDecisions ==
  ASSUME SupportInv, Provider \/ UNCHANGED vars \/ \E w \in Workers : Worker(w),
         NEW f \in Facts
  PROVE  /\ f \in rejected => f \in rejected'
         /\ claim[f] = "confirmed" => claim'[f] \in {"confirmed", "rejected"}
<1>1. CASE Edit \/ Delete
  BY <1>1 DEF Edit, Delete, Uncite, SupportInv, DecidedInv, Undecided, Doomed
<1>2. CASE \/ UNCHANGED vars \/ Insert \/ JudgeImport \/ DropImport
           \/ \E m \in Messages, says \in Contents \cup {"deleted"} : Look(m, says)
  BY <1>2 DEF vars, Insert, JudgeImport, DropImport, Look, beliefs
<1>3. ASSUME NEW w \in Workers, FinishIndex(w)
      PROVE  /\ f \in rejected => f \in rejected'
             /\ claim[f] = "confirmed" => claim'[f] \in {"confirmed", "rejected"}
  <2>1. CASE UNCHANGED beliefs
    BY <2>1 DEF beliefs
  <2>2. CASE \E evidence : Publish(evidence)
    BY <2>2 DEF Publish
  <2>3. UNCHANGED beliefs \/ \E evidence : Publish(evidence)
    BY <1>3 DEF FinishIndex
  <2> QED
    BY <2>1, <2>2, <2>3
<1>4. ASSUME NEW w \in Workers, Worker(w), ~FinishIndex(w) PROVE UNCHANGED beliefs
  BY <1>4 DEF Worker, BeginRebuild, CommitRebuild, AbortRebuild, Interrupt, BeginIndex
<1> QED
  BY <1>1, <1>2, <1>3, <1>4 DEF Provider, Import, beliefs

\* Nothing but the user undoes what the user decided, however often messages
\* come, go and are extracted again.
THEOREM DecisionsStand == Spec => UserDecisionsStand
<1> DEFINE Stands == \A f \in Facts :
                       /\ f \in rejected => f \in rejected' /\ claim'[f] # "active"
                       /\ claim[f] = "confirmed" => claim'[f] \in {"confirmed", "rejected"}
<1>1. Types /\ SupportInv /\ [Next]_vars => SupportInv'
  BY NextSupports
<1>2. Types /\ SupportInv /\ SupportInv' /\ [Next]_vars => [Stands]_vars
  <2> SUFFICES ASSUME Types, SupportInv, SupportInv', [Next]_vars, NEW f \in Facts
               PROVE  /\ f \in rejected => f \in rejected' /\ claim'[f] # "active"
                      /\ claim[f] = "confirmed" => claim'[f] \in {"confirmed", "rejected"}
    OBVIOUS
  <2>1. /\ f \in rejected => f \in rejected'
        /\ claim[f] = "confirmed" => claim'[f] \in {"confirmed", "rejected"}
    BY UserKeepsDecisions, OthersKeepDecisions DEF Next
  <2> QED
    BY <2>1 DEF SupportInv, DecidedInv, Refused
<1> QED
  BY <1>1, <1>2, InitSupports, TypesInit, TypesNext, PTL DEF Spec, UserDecisionsStand

-----------------------------------------------------------------------------
(* The chunks follow the messages, in the deployment the code is written     *)
(* for: one worker, rebuild keys that never repeat, removals that rebuild    *)

OneWorker(w) == Workers = {w} /\ FreshKeys = TRUE /\ Removals \subseteq {"object", "conversation"}

\* A rebuild is owed from every change until one that planned after it has
\* committed: with none owed the chunks are right, and the last one owed, if
\* it is already running, has a plan that is right.
Rebuilding == removal \in [at     : {removal.at},
                          kind   : {"object", "conversation", "none"},
                          ids    : {removal.ids},
                          chunks : {removal.chunks},
                          lost   : {removal.lost}]

CurrentInv(w) ==
  /\ pending \in Nat
  /\ step \in [Workers -> {step[w]}]
  /\ Rebuilding
  /\ pending = 0 => chunks = Plan(Live)
  /\ step[w].do = "rebuild" => pending > 0
  /\ step[w].do = "rebuild" /\ pending = 1 => step[w].plan = Plan(Live)

\* A change that schedules a rebuild and leaves the worker alone is safe,
\* whatever it does to messages and chunks.
LEMMA OwedStaysCurrent ==
  ASSUME NEW w \in Workers, CurrentInv(w), UNCHANGED step, Rebuilding',
         pending' \in Nat, pending' > pending
  PROVE  CurrentInv(w)'
BY DEF CurrentInv

\* So is a step that touches neither messages, chunks nor rebuilds.
LEMMA QuietStaysCurrent ==
  ASSUME NEW w \in Workers, CurrentInv(w), Rebuilding',
         UNCHANGED <<src, gen, chunks, pending, step>>
  PROVE  CurrentInv(w)'
<1>1. Live' = Live
  BY LiveUnchanged
<1> QED
  BY <1>1 DEF CurrentInv

LEMMA ProviderStaysCurrent ==
  ASSUME NEW w \in Workers, OneWorker(w), CurrentInv(w), Provider
  PROVE  CurrentInv(w)'
<1>1. Rebuilding'
  BY DEF Provider, Import, Look, Insert, JudgeImport, Edit, Delete, DropImport, CurrentInv, Rebuilding
<1>2. CASE Insert \/ Edit \/ Delete
  <2>1. UNCHANGED step
    BY <1>2 DEF Insert, Edit, Delete
  <2>2. pending' \in Nat /\ pending' > pending
    BY <1>2 DEF Insert, Edit, Delete, Schedule, OneWorker, CurrentInv
  <2> QED
    BY <1>1, <2>1, <2>2, OwedStaysCurrent
<1>3. CASE \/ JudgeImport \/ DropImport
           \/ \E m \in Messages, says \in Contents \cup {"deleted"} : Look(m, says)
  <2>1. UNCHANGED <<src, gen, chunks, pending, step>>
    BY <1>3 DEF Look, JudgeImport, DropImport, stored, index
  <2> QED
    BY <1>1, <2>1, QuietStaysCurrent
<1> QED
  BY <1>2, <1>3 DEF Provider, Import

LEMMA UserStaysCurrent ==
  ASSUME NEW w \in Workers, OneWorker(w), CurrentInv(w), User
  PROVE  CurrentInv(w)'
<1>1. CASE FinishRemoval
  <2>1. UNCHANGED step /\ Rebuilding'
    BY <1>1 DEF FinishRemoval, Rebuilding, NoRemoval
  <2>2. OwesRebuild
    BY DEF OwesRebuild, CurrentInv, Rebuilding
  <2>3. pending' \in Nat /\ pending' > pending
    BY <1>1, <2>2 DEF FinishRemoval, CurrentInv
  <2> QED
    BY <2>1, <2>3, OwedStaysCurrent
<1>2. CASE \/ \E kind \in Removals, ids \in SUBSET Messages : BeginRemoval(kind, ids)
           \/ JudgeRemoval \/ DropRemoval
  <2>1. UNCHANGED <<src, gen, chunks, pending, step>>
    BY <1>2 DEF BeginRemoval, JudgeRemoval, DropRemoval, stored, index
  <2>2. Rebuilding'
    <3>1. CASE \E kind \in Removals, ids \in SUBSET Messages : BeginRemoval(kind, ids)
      BY <3>1 DEF BeginRemoval, Rebuilding, OneWorker
    <3>2. CASE JudgeRemoval
      BY <3>2 DEF JudgeRemoval, CurrentInv, Rebuilding
    <3>3. CASE DropRemoval
      BY <3>3 DEF DropRemoval, NoRemoval, Rebuilding
    <3> QED
      BY <1>2, <3>1, <3>2, <3>3
  <2> QED
    BY <2>1, <2>2, QuietStaysCurrent
<1>3. CASE \/ \E key \in Messages \cup {Conversation} : Readmit(key)
           \/ \E f \in Facts : Confirm(f) \/ Reject(f) \/ \E g \in Facts : Reword(f, g)
  <2>1. UNCHANGED <<src, gen, chunks, pending, step, removal>>
    BY <1>3 DEF Readmit, Confirm, Reject, Reword, stored, index, underway
  <2> QED
    BY <2>1, QuietStaysCurrent DEF CurrentInv, Rebuilding
<1> QED
  BY <1>1, <1>2, <1>3 DEF User

LEMMA WorkerStaysCurrent ==
  ASSUME NEW w \in Workers, OneWorker(w), CurrentInv(w), Worker(w)
  PROVE  CurrentInv(w)'
<1>1. CASE BeginRebuild(w)
  <2>1. Doing("rebuild") = {}
    BY <1>1 DEF BeginRebuild, Doing, OneWorker, Idle
  <2>2. pending > 0
    BY <1>1, <2>1, FS_EmptySet DEF BeginRebuild, CurrentInv
  <2>3. UNCHANGED <<src, gen, chunks, pending, removal>>
    BY <1>1 DEF BeginRebuild, stored, index, underway
  <2>4. /\ step' \in [Workers -> {step'[w]}]
        /\ step'[w].plan = Plan(Live)
    BY <1>1 DEF BeginRebuild, OneWorker, CurrentInv
  <2>5. Live' = Live
    BY <2>3, LiveUnchanged
  <2> QED
    BY <2>2, <2>3, <2>4, <2>5 DEF CurrentInv, Rebuilding
<1>2. CASE CommitRebuild(w)
  <2>1. /\ UNCHANGED <<src, gen>>
        /\ chunks' = step[w].plan
        /\ pending' = pending - 1
        /\ step' = [step EXCEPT ![w] = Idle]
        /\ step[w].do = "rebuild"
    BY <1>2 DEF CommitRebuild, stored
  <2>2. Rebuilding'
    BY <1>2 DEF CommitRebuild, CurrentInv, Rebuilding
  <2>3. Live' = Live
    BY <2>1, LiveUnchanged
  <2>4. step' \in [Workers -> {step'[w]}] /\ step'[w].do # "rebuild"
    BY <2>1 DEF OneWorker, CurrentInv, Idle
  <2> QED
    BY <2>1, <2>2, <2>3, <2>4 DEF CurrentInv
<1>3. CASE AbortRebuild(w) \/ Interrupt(w) \/ FinishIndex(w) \/ \E j \in open : BeginIndex(w, j)
  <2>1. UNCHANGED <<src, gen, chunks, pending, removal>>
    BY <1>3 DEF AbortRebuild, Interrupt, FinishIndex, BeginIndex, stored, index, underway
  <2>2. step' \in [Workers -> {step'[w]}]
    BY <1>3 DEF AbortRebuild, Interrupt, FinishIndex, BeginIndex, OneWorker, CurrentInv
  <2>3. step'[w].do = "rebuild" => step'[w] = step[w]
    BY <1>3 DEF AbortRebuild, Interrupt, FinishIndex, BeginIndex, CurrentInv, Idle
  <2>4. Live' = Live
    BY <2>1, LiveUnchanged
  <2> QED
    BY <2>1, <2>2, <2>3, <2>4 DEF CurrentInv, Rebuilding
<1> QED
  BY <1>1, <1>2, <1>3 DEF Worker

\* A rebuild that plans before a change commits cannot have the last word: as
\* long as one worker runs, when no rebuild is owed and no removal is half
\* done the chunks are exactly those of the messages as they are.
THEOREM ChunksCurrent ==
  ASSUME NEW w \in Workers, OneWorker(w)
  PROVE  Spec => []IdleMeansCurrent
<1>1. Init => CurrentInv(w)
  <2> SUFFICES ASSUME Init PROVE CurrentInv(w)
    OBVIOUS
  <2>1. Live = {}
    BY DEF Init, Live, Rows
  <2>2. Plan({}) = {}
    BY DEF Plan
  <2> QED
    BY <2>1, <2>2 DEF Init, CurrentInv, Rebuilding, NoRemoval, Idle
<1>2. CurrentInv(w) /\ [Next]_vars => CurrentInv(w)'
  <2> SUFFICES ASSUME CurrentInv(w), [Next]_vars PROVE CurrentInv(w)'
    OBVIOUS
  <2>1. CASE UNCHANGED vars
    BY <2>1, QuietStaysCurrent DEF vars, stored, index, underway, CurrentInv, Rebuilding
  <2>2. CASE \E v \in Workers : Worker(v)
    BY <2>2, WorkerStaysCurrent DEF OneWorker
  <2> QED
    BY <2>1, <2>2, ProviderStaysCurrent, UserStaysCurrent DEF Next
<1>3. CurrentInv(w) => IdleMeansCurrent
  BY DEF CurrentInv, IdleMeansCurrent
<1> QED
  BY <1>1, <1>2, <1>3, PTL DEF Spec

-----------------------------------------------------------------------------
(* Exclusions: what a tombstone names is not there *)

\* A message that is on its way in: its import found no exclusion of it.
Arriving == import.at = "looked" /\ import.says \in Contents

\* While a conversation is being excluded no message of it is added, and when
\* an exclusion commits none of what it names is on its way in.
Quiet ==
  /\ removal.kind = "conversation" => \A m \in Messages : src[m] = "absent" => src'[m] = "absent"
  /\ FinishRemoval /\ Arriving =>
       removal.kind # "conversation" /\ (removal.kind = "object" => import.msg \notin removal.ids)

\* What the exclusion of a conversation has selected is all there is of it, and
\* an import that looked before an exclusion is not on its way.
OutInv ==
  /\ ExcludedStaysOut
  /\ removal.kind = "conversation" => \A m \in Messages : src[m] # "absent" => m \in removal.ids
  /\ Arriving => ~IsExcluded(import.msg)

\* Messages that are absent stay absent, no tombstone is added, and no import
\* is on its way that was not.
LEMMA NothingComes ==
  ASSUME OutInv, excluded' \subseteq excluded,
         removal'.kind = "conversation" => removal.kind = "conversation" /\ removal'.ids = removal.ids,
         import' = import \/ ~Arriving',
         \A m \in Messages : src[m] = "absent" => src'[m] = "absent"
  PROVE  OutInv'
BY DEF OutInv, ExcludedStaysOut, IsExcluded, Arriving

LEMMA InsertKeepsOut ==
  ASSUME Types, OutInv, Quiet, Insert
  PROVE  OutInv'
<1>1. /\ src' = [src EXCEPT ![import.msg] = import.says]
      /\ UNCHANGED <<excluded, removal>> /\ import' = NoImport
  BY DEF Insert
<1>2. ~IsExcluded(import.msg)
  BY DEF OutInv, Arriving, Insert
<1>3. ~Arriving'
  BY <1>1 DEF Arriving, NoImport
<1>4. \A m \in Messages : IsExcluded(m) => src'[m] = "absent"
  BY <1>1, <1>2 DEF OutInv, ExcludedStaysOut, Types, SourcesTyped
<1> QED
  BY <1>1, <1>3, <1>4 DEF OutInv, Quiet, ExcludedStaysOut, IsExcluded

LEMMA ProviderKeepsOut ==
  ASSUME Types, OutInv, Quiet, Provider
  PROVE  OutInv'
<1>1. ASSUME NEW m \in Messages, NEW says \in Contents \cup {"deleted"}, Look(m, says)
      PROVE  OutInv'
  <2>1. /\ UNCHANGED <<src, excluded, removal>> /\ import'.msg = m /\ import'.says = says
        /\ Admitted(m, says)
    BY <1>1 DEF Look, stored
  <2>2. Arriving' => ~IsExcluded(m)
    BY <2>1, MemoryAssumption DEF Arriving, Admitted
  <2> QED
    BY <2>1, <2>2 DEF OutInv, ExcludedStaysOut, IsExcluded
<1>2. CASE JudgeImport \/ DropImport
  <2>1. UNCHANGED <<src, excluded, removal>> /\ import'.at # "looked"
    <3>1. CASE JudgeImport
      <4>1. import \in Imports
        BY <3>1, ImportParts DEF JudgeImport, Types
      <4> QED
        BY <3>1, <4>1 DEF JudgeImport, stored, Imports
    <3>2. CASE DropImport
      BY <3>2 DEF DropImport, stored, NoImport
    <3> QED
      BY <1>2, <3>1, <3>2
  <2> QED
    BY <2>1, NothingComes DEF Arriving
<1>3. CASE Edit \/ Delete
  <2>1. /\ excluded' = excluded /\ import' = NoImport
        /\ removal'.kind = removal.kind /\ removal'.ids = removal.ids
    BY <1>3 DEF Edit, Delete, Types, RemovalTyped
  <2>2. src[import.msg] # "absent"
    BY <1>3 DEF Edit, Delete, Types, ImportTyped
  <2>3. \A m \in Messages : src[m] = "absent" => src'[m] = "absent"
    BY <1>3, <2>2 DEF Edit, Delete, Types, SourcesTyped
  <2> QED
    BY <2>1, <2>3, NothingComes DEF Arriving, NoImport
<1> QED
  BY <1>1, <1>2, <1>3, InsertKeepsOut DEF Provider, Import

LEMMA FinishRemovalKeepsOut ==
  ASSUME Types, OutInv, Quiet, FinishRemoval
  PROVE  OutInv'
<1>1. removal' = NoRemoval /\ UNCHANGED import
  BY DEF FinishRemoval
<1>2. \A m \in Messages : src'[m] = IF m \in removal.ids THEN "absent" ELSE src[m]
  BY DEF FinishRemoval
<1>3. excluded' = CASE removal.kind = "object"       -> excluded \cup removal.ids
                    [] removal.kind = "conversation" -> excluded \cup {Conversation}
                    [] OTHER                         -> excluded
  BY DEF FinishRemoval
<1>4. Conversation \notin removal.ids
  BY MemoryAssumption DEF Conversation, Types, RemovalTyped
<1>5. ASSUME NEW m \in Messages, IsExcluded(m)'
      PROVE  src'[m] = "absent"
  <2>1. CASE removal.kind = "conversation"
    BY <2>1, <1>2 DEF OutInv
  <2>2. CASE removal.kind # "conversation"
    BY <2>2, <1>2, <1>3, <1>4, <1>5 DEF OutInv, ExcludedStaysOut, IsExcluded
  <2> QED
    BY <2>1, <2>2
<1>6. (Arriving => ~IsExcluded(import.msg))'
  <2> SUFFICES ASSUME Arriving PROVE ~IsExcluded(import.msg)'
    BY <1>1 DEF Arriving
  <2>1. removal.kind # "conversation" /\ (removal.kind = "object" => import.msg \notin removal.ids)
    BY DEF Quiet
  <2>2. ~IsExcluded(import.msg)
    BY DEF OutInv
  <2> QED
    BY <1>1, <1>3, <1>4, <2>1, <2>2 DEF IsExcluded
<1> QED
  BY <1>1, <1>5, <1>6 DEF OutInv, ExcludedStaysOut, NoRemoval

LEMMA UserKeepsOut ==
  ASSUME Types, OutInv, Quiet, User
  PROVE  OutInv'
<1>1. CASE \E kind \in Removals, ids \in SUBSET Messages : BeginRemoval(kind, ids)
  BY <1>1 DEF BeginRemoval, stored, OutInv, ExcludedStaysOut, IsExcluded, Arriving
<1>2. CASE JudgeRemoval \/ DropRemoval
  <2>1. /\ UNCHANGED <<src, excluded, import>>
        /\ removal'.kind = "conversation" =>
             removal.kind = "conversation" /\ removal'.ids = removal.ids
    <3>1. CASE JudgeRemoval
      BY <3>1 DEF JudgeRemoval, stored, Types, RemovalTyped
    <3>2. CASE DropRemoval
      BY <3>2 DEF DropRemoval, stored, NoRemoval
    <3> QED
      BY <1>2, <3>1, <3>2
  <2> QED
    BY <2>1, NothingComes
<1>3. CASE \/ \E key \in Messages \cup {Conversation} : Readmit(key)
           \/ \E f \in Facts : Confirm(f) \/ Reject(f) \/ \E g \in Facts : Reword(f, g)
  <2>1. excluded' \subseteq excluded /\ UNCHANGED <<src, removal, import>>
    BY <1>3 DEF Readmit, Confirm, Reject, Reword, stored, underway
  <2> QED
    BY <2>1, NothingComes
<1> QED
  BY <1>1, <1>2, <1>3, FinishRemovalKeepsOut DEF User

LEMMA WorkerKeepsOut ==
  ASSUME Types, OutInv, NEW w \in Workers, Worker(w)
  PROVE  OutInv'
<1>1. UNCHANGED <<src, excluded, import>>
  BY DEF Worker, BeginRebuild, CommitRebuild, AbortRebuild, Interrupt, BeginIndex, FinishIndex,
         stored, underway
<1>2. removal'.kind = removal.kind /\ removal'.ids = removal.ids
  BY DEF Worker, BeginRebuild, CommitRebuild, AbortRebuild, Interrupt, BeginIndex, FinishIndex,
         Types, RemovalTyped, underway
<1> QED
  BY <1>1, <1>2, NothingComes

LEMMA OutNext == Types /\ OutInv /\ [Next]_vars /\ [Quiet]_vars => OutInv'
<1> SUFFICES ASSUME Types, OutInv, [Next]_vars, [Quiet]_vars PROVE OutInv'
  OBVIOUS
<1>1. CASE UNCHANGED vars
  BY <1>1, NothingComes DEF vars, stored, underway
<1>2. CASE vars' # vars
  BY <1>2, ProviderKeepsOut, UserKeepsOut, WorkerKeepsOut DEF Next
<1> QED
  BY <1>1, <1>2

LEMMA OutInit == Init => OutInv
BY DEF Init, OutInv, ExcludedStaysOut, IsExcluded, NoRemoval, NoImport, Arriving

\* Tombstones hold as long as nothing they name is on its way in.  A message
\* that a tombstone names, itself or its conversation, is not imported, edited
\* or restored, and what was there is gone, if no import that looked for
\* exclusions before is still to write when the exclusion commits, and, for a
\* conversation, if nothing of it is added between selection and commit
\* (is_excluded and exclude, app/ingest.py): TLC shows both gaps.
THEOREM ExclusionsHold == Spec /\ [][Quiet]_vars => []ExcludedStaysOut
<1>1. OutInv => ExcludedStaysOut
  BY DEF OutInv
<1> QED
  BY <1>1, OutInit, OutNext, TypesInit, TypesNext, PTL DEF Spec

-----------------------------------------------------------------------------
(* Removals: no chunk keeps the text of what is gone *)

\* While imported data is being deleted, no chunk that cites it is written.
NothingWritten ==
  removal.kind = "provider" =>
    \A c \in chunks' \ chunks : \A r \in Cited(c) : r[1] \notin removal.ids

\* Chunks with the text of a row that is gone, and the rebuilds that planned
\* before it went and would keep one.
Leftovers == {c \in chunks : Cited(c) # c.rows}
Stale     == {w \in Doing("rebuild") : \E c \in step[w].plan : c \in Leftovers}

\* Text that is left over owes a rebuild beside those that would keep it.
Outnumbered == Leftovers # {} => Cardinality(Stale) < pending

ForgottenInv ==
  /\ Outnumbered
  /\ \A m \in removal.ids : src[m] # "absent"
  /\ removal.kind = "provider" => Covering(removal.ids) \subseteq removal.chunks

\* What is left of a chunk is a matter of the rows that are there.
Present(r) == src[r[1]] # "absent" /\ gen[r[1]] = r[2]

LEMMA CitedPresent ==
  ASSUME NEW c
  PROVE  /\ Cited(c) = {r \in c.rows : Present(r)}
         /\ Cited(c)' = {r \in c.rows : Present(r)'}
BY DEF Cited, Present

LEMMA LeftoverPresent ==
  ASSUME NEW c
  PROVE  /\ Cited(c) = c.rows <=> \A r \in c.rows : Present(r)
         /\ Cited(c)' = c.rows <=> \A r \in c.rows : Present(r)'
BY CitedPresent

\* Rebuilds owed are not fewer, nor is anything new left over or stale.
LEMMA FewerOutnumbered ==
  ASSUME Types, Outnumbered, Leftovers' \subseteq Leftovers, Stale' \subseteq Stale,
         pending' \in Nat, pending' >= pending
  PROVE  Outnumbered'
<1>1. IsFiniteSet(Stale)
  BY FS_Subset DEF Types, Owed, Stale
<1>2. Cardinality(Stale') <= Cardinality(Stale)
  BY <1>1, FS_Subset
<1>3. Cardinality(Stale) \in Nat /\ Cardinality(Stale') \in Nat
  BY <1>1, FS_Subset, FS_CardinalityType
<1>4. pending \in Nat
  BY DEF Types, Owed
<1> QED
  BY <1>2, <1>3, <1>4 DEF Outnumbered

\* The same workers are at the same rebuilds, and what is there stays.
LEMMA NothingLeftOver ==
  ASSUME Types, Outnumbered, pending' \in Nat, pending' >= pending,
         \A c \in chunks' : c \in chunks /\ (Cited(c) = c.rows => Cited(c)' = c.rows),
         \A w \in Workers : step'[w].do = "rebuild" =>
            \/ step'[w] = step[w]
            \/ \A c \in step'[w].plan : c \notin Leftovers'
  PROVE  Outnumbered'
<1>1. Leftovers' \subseteq Leftovers
  BY DEF Leftovers
<1>2. Stale' \subseteq Stale
  BY <1>1 DEF Stale, Doing
<1> QED
  BY <1>1, <1>2, FewerOutnumbered

LEMMA StillPresent ==
  ASSUME Types, NEW c \in chunks, Cited(c) = c.rows,
         \A m \in Messages : src[m] # "absent" => src'[m] # "absent" /\ gen'[m] = gen[m]
  PROVE  Cited(c)' = c.rows
<1>1. \A r \in c.rows : r[1] \in Messages
  BY DEF Types, IndexTyped, ChunkType, RowType
<1> QED
  BY <1>1, LeftoverPresent DEF Present

\* The chunks that cite messages which were there and still are.
LEMMA CoveringSame ==
  ASSUME NEW ids, \A m \in ids : src[m] # "absent" /\ src'[m] # "absent" /\ gen'[m] = gen[m]
  PROVE  /\ \A c : (\E r \in Cited(c)' : r[1] \in ids) <=> (\E r \in Cited(c) : r[1] \in ids)
         /\ Covering(ids)' = {c \in chunks' : \E r \in Cited(c) : r[1] \in ids}
<1>1. \A c : (\E r \in Cited(c)' : r[1] \in ids) <=> (\E r \in Cited(c) : r[1] \in ids)
  BY DEF Cited
<1> QED
  BY <1>1 DEF Covering

\* Steps that only move a transaction on.
LEMMA UnderwayForgets ==
  ASSUME Types, ForgottenInv, UNCHANGED <<src, gen, chunks, pending, step>>,
         \/ removal'.kind = removal.kind /\ removal'.ids = removal.ids
              /\ removal'.chunks = removal.chunks
         \/ removal' = NoRemoval
  PROVE  ForgottenInv'
<1>1. \A c : Cited(c)' = Cited(c)
  BY DEF Cited
<1>2. pending' \in Nat /\ pending' >= pending
  BY DEF Types, Owed
<1>3. Outnumbered'
  BY <1>1, <1>2, NothingLeftOver DEF ForgottenInv
<1> QED
  BY <1>1, <1>3 DEF ForgottenInv, Covering, NoRemoval

LEMMA ImportForgets ==
  ASSUME Types, ForgottenInv, Insert \/ Edit \/ Delete
  PROVE  ForgottenInv'
<1>1. UNCHANGED step /\ chunks' \subseteq chunks
  BY DEF Insert, Edit, Delete, DropChunks, index
<1>2. pending' \in Nat /\ pending' >= pending
  <2>1. CASE Insert \/ Edit
    BY <2>1, ScheduleOwes DEF Insert, Edit, Types, Owed
  <2>2. CASE Delete
    BY <2>2 DEF Delete, Types, Owed
  <2> QED
    BY <2>1, <2>2
<1>3. \A m \in Messages : src[m] # "absent" => src'[m] # "absent" /\ gen'[m] = gen[m]
  <2>1. \A c \in Contents : c # "absent"
    BY MemoryAssumption
  <2>2. CASE Insert
    BY <2>1, <2>2 DEF Insert, Types, SourcesTyped
  <2>3. CASE Edit
    BY <2>1, <2>3 DEF Edit, Types, SourcesTyped
  <2>4. CASE Delete
    BY <2>4 DEF Delete, Types, SourcesTyped
  <2> QED
    BY <2>2, <2>3, <2>4
<1>4. Outnumbered'
  BY <1>1, <1>2, <1>3, StillPresent, NothingLeftOver DEF ForgottenInv
<1>5. removal'.kind = removal.kind /\ removal'.ids = removal.ids
  BY DEF Insert, Edit, Delete, Types, RemovalTyped
<1>6. \A m \in removal.ids : src[m] # "absent" /\ src'[m] # "absent" /\ gen'[m] = gen[m]
  BY <1>3 DEF ForgottenInv, Types, RemovalTyped
<1>7. Covering(removal.ids)' = {c \in chunks' : \E r \in Cited(c) : r[1] \in removal.ids}
  BY <1>5, <1>6, CoveringSame DEF Covering
<1>8. \A c \in removal.chunks : c \in chunks' => c \in removal'.chunks
  <2>1. CASE Insert
    BY <2>1 DEF Insert
  <2>2. CASE Edit
    BY <2>2 DEF Edit, DropChunks, Types, RemovalTyped
  <2>3. CASE Delete
    BY <2>3 DEF Delete, DropChunks, Types, RemovalTyped
  <2> QED
    BY <2>1, <2>2, <2>3
<1>9. removal.kind = "provider" => Covering(removal.ids)' \subseteq removal'.chunks
  BY <1>1, <1>7, <1>8 DEF ForgottenInv, Covering
<1> QED
  BY <1>4, <1>5, <1>6, <1>9 DEF ForgottenInv, Covering

LEMMA ProviderForgets ==
  ASSUME Types, ForgottenInv, Provider
  PROVE  ForgottenInv'
<1>1. CASE \/ JudgeImport \/ DropImport
           \/ \E m \in Messages, says \in Contents \cup {"deleted"} : Look(m, says)
  <2>1. UNCHANGED <<src, gen, chunks, pending, step, removal>>
    BY <1>1 DEF Look, JudgeImport, DropImport, stored, index
  <2> QED
    BY <2>1, UnderwayForgets
<1> QED
  BY <1>1, ImportForgets DEF Provider, Import

LEMMA FinishForgets ==
  ASSUME Types, ForgottenInv, FinishRemoval
  PROVE  Outnumbered'
<1>1. \A m \in Messages : src'[m] = IF m \in removal.ids THEN "absent" ELSE src[m]
  BY DEF FinishRemoval
<1>2. UNCHANGED <<gen, step>> /\ chunks' = chunks \ removal.chunks
  BY DEF FinishRemoval, DropChunks
<1>3. CASE OwesRebuild
  <2>1. pending' = pending + 1
    BY <1>3 DEF FinishRemoval
  <2>2. Stale' \subseteq Doing("rebuild")
    BY <1>2 DEF Stale, Doing
  <2>3. Cardinality(Stale') <= Cardinality(Doing("rebuild")) /\ IsFiniteSet(Stale')
    BY <2>2, FS_Subset DEF Types, Owed
  <2>4. Cardinality(Stale') \in Nat /\ Cardinality(Doing("rebuild")) \in Nat
    BY <2>3, FS_CardinalityType DEF Types, Owed
  <2> QED
    BY <2>1, <2>3, <2>4 DEF Outnumbered, Types, Owed
<1>4. CASE ~OwesRebuild
  <2>1. removal.kind = "provider" /\ pending' = pending
    BY <1>4 DEF FinishRemoval, OwesRebuild
  <2>2. ASSUME NEW c \in chunks', Cited(c) = c.rows
        PROVE  Cited(c)' = c.rows
    <3>1. c \in chunks /\ c \notin Covering(removal.ids)
      BY <1>2, <2>1 DEF ForgottenInv
    <3>2. \A r \in c.rows : r[1] \in Messages /\ r[1] \notin removal.ids
      BY <2>2, <3>1 DEF Covering, Types, IndexTyped, ChunkType, RowType
    <3> QED
      BY <2>2, <3>2, <1>1, <1>2, LeftoverPresent DEF Present
  <2>3. pending' \in Nat /\ pending' >= pending
    BY <2>1 DEF Types, Owed
  <2> QED
    BY <1>2, <2>2, <2>3, NothingLeftOver DEF ForgottenInv
<1> QED
  BY <1>3, <1>4

LEMMA UserForgets ==
  ASSUME Types, ForgottenInv, User
  PROVE  ForgottenInv'
<1>1. CASE FinishRemoval
  <2>1. removal' = NoRemoval
    BY <1>1 DEF FinishRemoval
  <2> QED
    BY <1>1, <2>1, FinishForgets DEF ForgottenInv, NoRemoval
<1> SUFFICES ASSUME User, ~FinishRemoval PROVE ForgottenInv'
  BY <1>1
<1>2. UNCHANGED <<src, gen, chunks, pending, step>>
  BY DEF User, BeginRemoval, JudgeRemoval, DropRemoval, Readmit, Confirm, Reject, Reword, stored,
         index
<1>3. \A c : Cited(c)' = Cited(c)
  BY <1>2 DEF Cited
<1>4. Outnumbered'
  <2>1. pending' \in Nat /\ pending' >= pending
    BY <1>2 DEF Types, Owed
  <2> QED
    BY <1>2, <1>3, <2>1, NothingLeftOver DEF ForgottenInv
<1>5. CASE ~\E kind \in Removals, ids \in SUBSET Messages : BeginRemoval(kind, ids)
  <2>1. \/ removal'.kind = removal.kind /\ removal'.ids = removal.ids
             /\ removal'.chunks = removal.chunks
        \/ removal' = NoRemoval
    BY <1>5 DEF User, JudgeRemoval, DropRemoval, Readmit, Confirm, Reject, Reword, underway, Types,
                RemovalTyped
  <2> QED
    BY <1>2, <2>1, UnderwayForgets
<1>6. CASE \E kind \in Removals, ids \in SUBSET Messages : BeginRemoval(kind, ids)
  <2>1. PICK kind \in Removals, ids \in SUBSET Messages : BeginRemoval(kind, ids)
    BY <1>6
  <2>2. removal'.kind = kind /\ removal'.ids = ids /\ removal'.chunks = Covering(ids)
    BY <2>1 DEF BeginRemoval
  <2>3. \A m \in ids : src[m] # "absent"
    BY <2>1 DEF BeginRemoval
  <2>4. Covering(removal.ids)' = Covering(ids)
    BY <1>2, <1>3, <2>2 DEF Covering
  <2> QED
    BY <1>2, <1>4, <2>2, <2>3, <2>4 DEF ForgottenInv
<1> QED
  BY <1>5, <1>6

\* The plan of the live rows has nothing left over.
LEMMA PlanPresent ==
  ASSUME NEW c \in Plan(Live)
  PROVE  Cited(c) = c.rows
<1>1. \A r \in c.rows : r \in Live
  BY DEF Plan
<1>2. \A r \in Live : Present(r)
  BY DEF Live, Rows, Present
<1> QED
  BY <1>1, <1>2, LeftoverPresent

LEMMA CommitForgets ==
  ASSUME Types, ForgottenInv, NEW w \in Workers, CommitRebuild(w)
  PROVE  Outnumbered'
<1>1. /\ step[w].do = "rebuild" /\ step' = [step EXCEPT ![w] = Idle]
      /\ chunks' = step[w].plan /\ pending' = pending - 1
      /\ Insertable(step[w].plan) /\ UNCHANGED <<src, gen>>
  BY DEF CommitRebuild, stored
<1>2. \A c : Cited(c)' = Cited(c)
  BY <1>1 DEF Cited
<1>3. \A c \in Leftovers' : c \in Leftovers /\ c \in step[w].plan
  BY <1>1, <1>2 DEF Leftovers, Insertable
<1> SUFFICES ASSUME Leftovers' # {} PROVE Cardinality(Stale') < pending'
  BY DEF Outnumbered
<1>4. w \in Stale /\ Leftovers # {}
  BY <1>1, <1>3 DEF Stale, Doing
<1>5. Stale' \subseteq Stale \ {w}
  BY <1>1, <1>3 DEF Stale, Doing, Types, WorkersTyped, Idle
<1>6. IsFiniteSet(Stale)
  BY FS_Subset DEF Types, Owed, Stale
<1>7. /\ IsFiniteSet(Stale \ {w})
      /\ Cardinality(Stale \ {w}) = Cardinality(Stale) - 1
  BY <1>4, <1>6, FS_RemoveElement
<1>8. Cardinality(Stale') <= Cardinality(Stale \ {w}) /\ IsFiniteSet(Stale')
  BY <1>5, <1>7, FS_Subset
<1>9. /\ Cardinality(Stale) \in Nat /\ Cardinality(Stale') \in Nat
      /\ Cardinality(Stale \ {w}) \in Nat
  BY <1>6, <1>7, <1>8, FS_CardinalityType
<1> QED
  BY <1>1, <1>4, <1>7, <1>8, <1>9 DEF ForgottenInv, Outnumbered, Types, Owed

LEMMA WorkerForgets ==
  ASSUME Types, ForgottenInv, NothingWritten, NEW w \in Workers, Worker(w)
  PROVE  ForgottenInv'
<1>1. UNCHANGED <<src, gen>>
  BY DEF Worker, BeginRebuild, CommitRebuild, AbortRebuild, Interrupt, BeginIndex, FinishIndex,
         stored
<1>2. \A c : Cited(c)' = Cited(c)
  BY <1>1 DEF Cited
<1>3. removal'.kind = removal.kind /\ removal'.ids = removal.ids
  BY DEF Worker, BeginRebuild, CommitRebuild, AbortRebuild, Interrupt, BeginIndex, FinishIndex,
         Types, RemovalTyped, underway
<1>4. \A m \in removal'.ids : src'[m] # "absent"
  BY <1>1, <1>3 DEF ForgottenInv
<1>5. CASE CommitRebuild(w)
  <2>1. removal.kind = "provider" => Covering(removal.ids)' \subseteq removal'.chunks
    <3> SUFFICES ASSUME removal.kind = "provider", NEW c \in chunks', NEW r \in Cited(c),
                        r[1] \in removal.ids
                 PROVE  c \in removal'.chunks
      BY <1>2, <1>3 DEF Covering
    <3>1. c \in chunks
      BY DEF NothingWritten
    <3>2. c \in removal.chunks
      BY <3>1 DEF ForgottenInv, Covering
    <3> QED
      BY <1>5, <3>1, <3>2 DEF CommitRebuild, Types, RemovalTyped
  <2>2. Outnumbered'
    BY <1>5, CommitForgets
  <2> QED
    BY <1>3, <1>4, <2>1, <2>2 DEF ForgottenInv, Covering
<1>6. CASE ~CommitRebuild(w)
  <2>1. UNCHANGED <<chunks, pending, removal>>
    BY <1>6 DEF Worker, BeginRebuild, AbortRebuild, Interrupt, BeginIndex, FinishIndex, index, underway
  <2>2. \A v \in Workers : step'[v].do = "rebuild" =>
            \/ step'[v] = step[v]
            \/ \A c \in step'[v].plan : c \notin Leftovers'
    <3>1. CASE BeginRebuild(w)
      <4>1. step' = [step EXCEPT ![w] = [do |-> "rebuild", plan |-> Plan(Live)]]
        BY <3>1 DEF BeginRebuild
      <4>2. \A c \in Plan(Live) : c \notin Leftovers'
        BY <1>2, PlanPresent DEF Leftovers
      <4> QED
        BY <4>1, <4>2 DEF Types, WorkersTyped
    <3>2. CASE ~BeginRebuild(w)
      BY <1>6, <3>2 DEF Worker, AbortRebuild, Interrupt, BeginIndex, FinishIndex, Types,
                       WorkersTyped, Idle
    <3> QED
      BY <3>1, <3>2
  <2>3. pending' \in Nat /\ pending' >= pending
    BY <2>1 DEF Types, Owed
  <2>4. Outnumbered'
    BY <1>2, <2>1, <2>2, <2>3, NothingLeftOver DEF ForgottenInv
  <2> QED
    BY <1>2, <1>4, <2>1, <2>4 DEF ForgottenInv, Covering
<1> QED
  BY <1>5, <1>6

LEMMA ForgottenNext ==
  Types /\ ForgottenInv /\ [Next]_vars /\ [NothingWritten]_vars => ForgottenInv'
<1> SUFFICES ASSUME Types, ForgottenInv, [Next]_vars, [NothingWritten]_vars PROVE ForgottenInv'
  OBVIOUS
<1>1. CASE UNCHANGED vars
  <2>1. UNCHANGED <<src, gen, chunks, pending, step, removal>>
    BY <1>1 DEF vars, stored, index, underway
  <2>2. \A c : Cited(c)' = Cited(c)
    BY <2>1 DEF Cited
  <2>3. Outnumbered'
    BY <2>1, <2>2, NothingLeftOver DEF ForgottenInv, Types, Owed
  <2> QED
    BY <2>1, <2>2, <2>3 DEF ForgottenInv, Covering
<1>2. CASE vars' # vars
  BY <1>2, ProviderForgets, UserForgets, WorkerForgets DEF Next
<1> QED
  BY <1>1, <1>2

LEMMA ForgottenInit == Init => ForgottenInv
BY DEF Init, ForgottenInv, Outnumbered, Leftovers, NoRemoval

LEMMA ForgottenImplies == Types /\ ForgottenInv => RemovedIsForgotten
<1> SUFFICES ASSUME Types, ForgottenInv, pending = 0 PROVE Leftovers = {}
  BY DEF RemovedIsForgotten, Leftovers
<1>1. Cardinality(Stale) \in Nat
  BY FS_Subset, FS_CardinalityType DEF Types, Owed, Stale
<1> QED
  BY <1>1 DEF ForgottenInv, Outnumbered

\* Whatever rebuilds were under way when messages were removed, and however
\* many workers run them, once no rebuild is owed no chunk has the text of a
\* message that is gone.  The one gap is a chunk that is written over the
\* selected data while delete_provider_data is at it (app/ingest.py).
THEOREM RemovalsForget == Spec /\ [][NothingWritten]_vars => []RemovedIsForgotten
BY ForgottenInit, ForgottenNext, ForgottenImplies, TypesInit, TypesNext, PTL DEF Spec

\* Exclusions have no gap: each owes a rebuild of its own, under a fresh key.
THEOREM ExclusionsForget ==
  ASSUME "provider" \notin Removals
  PROVE  Spec => []RemovedIsForgotten
<1>1. Types => NothingWritten
  BY DEF Types, RemovalTyped, NothingWritten
<1>2. Types /\ ForgottenInv /\ [Next]_vars => ForgottenInv'
  BY <1>1, ForgottenNext
<1> QED
  BY <1>2, ForgottenInit, ForgottenImplies, TypesInit, TypesNext, PTL DEF Spec

-----------------------------------------------------------------------------
(* Every chunk that is right has its jobs, until one is made a second time *)

\* No chunk of messages as they are now is written whose jobs have rows already.
NoneMadeAgain ==
  \A j \in Kinds \X (chunks' \ chunks) : j[2].rows \subseteq Live => j \notin known

\* A chunk is cut from rows there have been.
Made(c) == c.rows # {} /\ \A r \in c.rows : r[2] <= gen[r[1]]

ServedInv ==
  /\ \A c \in chunks : Made(c)
  /\ \A w \in Doing("rebuild") : \A c \in step[w].plan : Made(c)
  /\ \A j \in Kinds \X chunks :
       j[2].rows \subseteq Live => j \in linked /\ j \in applied \cup open

\* Chunks that stay, and what they cite did not come back.
LEMMA ChunksServed ==
  ASSUME ServedInv, UNCHANGED <<known, open, step>>,
         \A m \in Messages : gen'[m] >= gen[m] /\ gen[m] \in Nat /\ gen'[m] \in Nat, Types,
         \A c \in chunks' : c \in chunks /\ (c.rows \subseteq Live' => c.rows \subseteq Live),
         \A j \in linked : j[2] \in chunks' => j \in linked',
         \A j \in applied : j[2] \in chunks' => j \in applied'
  PROVE  ServedInv'
<1>1. \A c \in ChunkType : Made(c) => Made(c)'
  <2> SUFFICES ASSUME NEW c \in ChunkType, Made(c) PROVE Made(c)'
    OBVIOUS
  <2>1. \A r \in c.rows : r[1] \in Messages /\ r[2] \in Nat
    BY DEF ChunkType, RowType
  <2> QED
    BY <2>1 DEF Made
<1>2. \A c \in chunks' : Made(c)'
  BY <1>1 DEF ServedInv, Types, IndexTyped
<1>3. \A w \in Doing("rebuild")' : \A c \in step'[w].plan : Made(c)'
  BY <1>1, StepParts DEF ServedInv, Doing, Types
<1>4. \A j \in Kinds \X chunks' :
        j[2].rows \subseteq Live' => j \in linked' /\ j \in applied' \cup open'
  BY DEF ServedInv
<1> QED
  BY <1>2, <1>3, <1>4 DEF ServedInv

\* The rows that live were there.
LEMMA LivePresent ==
  ASSUME NEW r
  PROVE  /\ r \in Live <=> /\ r[1] \in Messages /\ r = <<r[1], gen[r[1]], src[r[1]]>>
                           /\ src[r[1]] # "absent" /\ src[r[1]] # "deleted"
         /\ r \in Live' <=> /\ r[1] \in Messages /\ r = <<r[1], gen'[r[1]], src'[r[1]]>>
                            /\ src'[r[1]] # "absent" /\ src'[r[1]] # "deleted"
BY DEF Live, Rows

LEMMA InsertServes ==
  ASSUME Types, ServedInv, Insert
  PROVE  ServedInv'
<1> DEFINE m == import.msg
           c == import.says
<1>1. /\ src' = [src EXCEPT ![m] = c] /\ gen' = [gen EXCEPT ![m] = gen[m] + 1]
      /\ UNCHANGED <<chunks, applied, known, open, linked, step>>
  BY DEF Insert, index, work
<1> HIDE DEF m, c
<1>2. \A n \in Messages : gen'[n] >= gen[n] /\ gen[n] \in Nat /\ gen'[n] \in Nat
  BY <1>1 DEF Types, SourcesTyped
<1>3. ASSUME NEW d \in chunks, d.rows \subseteq Live'
      PROVE  d.rows \subseteq Live
  <2> SUFFICES ASSUME NEW r \in d.rows PROVE r \in Live
    OBVIOUS
  <2>1. r[2] <= gen[r[1]] /\ r \in Live'
    BY <1>3 DEF ServedInv, Made
  <2>2. r[1] \in Messages /\ r = <<r[1], gen'[r[1]], src'[r[1]]>>
    BY <2>1, LivePresent
  <2>3. r[2] = gen'[r[1]]
    BY <2>2
  <2>4. r[1] # m
    BY <1>1, <2>1, <2>2, <2>3 DEF Types, SourcesTyped
  <2>5. src'[r[1]] = src[r[1]] /\ gen'[r[1]] = gen[r[1]]
    BY <1>1, <2>2, <2>4 DEF Types, SourcesTyped
  <2> QED
    BY <2>1, <2>5, LivePresent
<1> QED
  BY <1>1, <1>2, <1>3, ChunksServed

\* A chunk that is kept cites nothing of the message that changed.
LEMMA InvalidateServes ==
  ASSUME Types, ServedInv, NEW m \in Messages, src[m] # "absent",
         NEW c, src' = [src EXCEPT ![m] = c], DropChunks(Covering({m})),
         UNCHANGED <<gen, known, open, step>>
  PROVE  ServedInv'
<1>1. \A n \in Messages : gen'[n] >= gen[n] /\ gen[n] \in Nat /\ gen'[n] \in Nat
  BY DEF Types, SourcesTyped
<1>2. /\ chunks' = chunks \ Covering({m})
      /\ applied' = {j \in applied : j[2] \notin Covering({m})}
      /\ linked' = {j \in linked : j[2] \notin Covering({m})}
  BY DEF DropChunks
<1>3. ASSUME NEW d \in chunks', d.rows \subseteq Live'
      PROVE  d.rows \subseteq Live
  <2> SUFFICES ASSUME NEW r \in d.rows PROVE r \in Live
    OBVIOUS
  <2>1. r \in Live' /\ d \in chunks /\ d \notin Covering({m})
    BY <1>2, <1>3
  <2>2. r[1] \in Messages /\ r = <<r[1], gen'[r[1]], src'[r[1]]>>
    BY <2>1, LivePresent
  <2>3. r[2] = gen[r[1]]
    BY <2>2
  <2>4. r[1] # m
    BY <2>1, <2>3 DEF Covering, Cited
  <2>5. src'[r[1]] = src[r[1]]
    BY <2>2, <2>4 DEF Types, SourcesTyped
  <2> QED
    BY <2>1, <2>5, LivePresent
<1> QED
  BY <1>1, <1>2, <1>3, ChunksServed

\* Steps that move a transaction on, or change what is neither.
LEMMA QuietServes ==
  ASSUME Types, ServedInv, UNCHANGED <<src, gen, chunks, applied, known, open, linked, step>>
  PROVE  ServedInv'
<1>1. Live' = Live
  BY LiveUnchanged
<1> QED
  BY <1>1, ChunksServed DEF Types, SourcesTyped

LEMMA ProviderServes ==
  ASSUME Types, ServedInv, Provider
  PROVE  ServedInv'
<1>1. CASE Insert
  BY <1>1, InsertServes
<1>2. CASE Edit \/ Delete
  <2>1. PICK m \in Messages : m = import.msg /\ src[m] # "absent"
    BY <1>2, ImportParts DEF Edit, Delete, Types, ImportTyped, Imports, Judged
  <2>2. /\ \E c : src' = [src EXCEPT ![m] = c]
        /\ DropChunks(Covering({m})) /\ UNCHANGED <<gen, known, open, step>>
    BY <1>2, <2>1 DEF Edit, Delete
  <2> QED
    BY <2>1, <2>2, InvalidateServes
<1>3. CASE \/ JudgeImport \/ DropImport
           \/ \E m \in Messages, says \in Contents \cup {"deleted"} : Look(m, says)
  <2>1. UNCHANGED <<src, gen, chunks, applied, known, open, linked, step>>
    BY <1>3 DEF Look, JudgeImport, DropImport, stored, index, work
  <2> QED
    BY <2>1, QuietServes
<1> QED
  BY <1>1, <1>2, <1>3 DEF Provider, Import

LEMMA UserServes ==
  ASSUME Types, ServedInv, User
  PROVE  ServedInv'
<1>1. CASE ~FinishRemoval
  <2>1. UNCHANGED <<src, gen, chunks, applied, known, open, linked, step>>
    BY <1>1 DEF User, BeginRemoval, JudgeRemoval, DropRemoval, Readmit, Confirm, Reject, Reword, stored,
                index, work
  <2> QED
    BY <2>1, QuietServes
<1>2. CASE FinishRemoval
  <2>1. UNCHANGED <<gen, known, open, step>>
    BY <1>2 DEF FinishRemoval
  <2>2. \A m \in Messages : src'[m] = src[m] \/ src'[m] = "absent"
    BY <1>2 DEF FinishRemoval
  <2>3. \A r : r \in Live' => r \in Live
    BY <2>1, <2>2, LivePresent
  <2>4. /\ chunks' \subseteq chunks
        /\ \A j \in linked : j[2] \in chunks' => j \in linked'
        /\ \A j \in applied : j[2] \in chunks' => j \in applied'
    BY <1>2 DEF FinishRemoval, DropChunks
  <2> QED
    BY <2>1, <2>3, <2>4, ChunksServed DEF Types, SourcesTyped
<1> QED
  BY <1>1, <1>2

\* Chunks are planned from the rows that are there.
LEMMA PlanMade ==
  ASSUME Types, NEW c \in Plan(Live)
  PROVE  Made(c)
<1>1. PICK i \in {Slot(r, Live) : r \in Live} :
        c = [n |-> i, rows |-> {r \in Live : Slot(r, Live) = i}]
  BY DEF Plan
<1>2. c.rows # {} /\ c.rows \subseteq Live
  BY <1>1
<1>3. ASSUME NEW r \in Live
      PROVE  r[2] <= gen[r[1]]
  <2>1. r[1] \in Messages /\ r = <<r[1], gen[r[1]], src[r[1]]>>
    BY LivePresent
  <2>2. r[2] = gen[r[1]]
    BY <2>1
  <2> QED
    BY <2>1, <2>2 DEF Types, SourcesTyped
<1> QED
  BY <1>2, <1>3 DEF Made

LEMMA WorkerServes ==
  ASSUME Types, ServedInv, NoneMadeAgain, NEW w \in Workers, Worker(w)
  PROVE  ServedInv'
<1>1. UNCHANGED <<src, gen>>
  BY DEF Worker, BeginRebuild, CommitRebuild, AbortRebuild, Interrupt, BeginIndex, FinishIndex,
         stored
<1>2. Live' = Live
  BY <1>1, LiveUnchanged
<1>3. \A c : Made(c)' <=> Made(c)
  BY <1>1 DEF Made
<1>4. \A v \in Doing("rebuild")' : \A c \in step'[v].plan : Made(c)
  <2>1. CASE BeginRebuild(w)
    <3>1. step' = [step EXCEPT ![w] = [do |-> "rebuild", plan |-> Plan(Live)]]
      BY <2>1 DEF BeginRebuild
    <3> QED
      BY <3>1, PlanMade DEF ServedInv, Doing, Types, WorkersTyped
  <2>2. CASE ~BeginRebuild(w)
    BY <2>2 DEF Worker, CommitRebuild, AbortRebuild, Interrupt, BeginIndex, FinishIndex, Types,
                WorkersTyped, Idle, ServedInv, Doing
  <2> QED
    BY <2>1, <2>2
<1>5. \A c \in chunks' : Made(c)
  BY DEF Worker, BeginRebuild, CommitRebuild, AbortRebuild, Interrupt, BeginIndex, FinishIndex,
         ServedInv, Doing, index
<1>6. ASSUME NEW j \in Kinds \X chunks', j[2].rows \subseteq Live
      PROVE  j \in linked' /\ j \in applied' \cup open'
  <2>1. CASE CommitRebuild(w)
    <3>1. CASE j[2] \in chunks
      <4>1. j \in Kinds \X chunks
        BY <3>1
      <4>2. j \in linked /\ j \in applied \cup open
        BY <4>1, <1>6 DEF ServedInv
      <4>3. j[2] \in step[w].plan
        BY <2>1 DEF CommitRebuild
      <4> QED
        BY <2>1, <4>2, <4>3 DEF CommitRebuild
    <3>2. CASE j[2] \notin chunks
      <4>1. j \in Kinds \X (chunks' \ chunks)
        BY <3>2
      <4>2. j \notin known
        BY <4>1, <1>6 DEF NoneMadeAgain
      <4>3. j \in (Kinds \X (step[w].plan \ chunks)) \ known
        BY <2>1, <4>1, <4>2 DEF CommitRebuild
      <4> QED
        BY <2>1, <4>3 DEF CommitRebuild
    <3> QED
      BY <3>1, <3>2
  <2>2. CASE \E k \in open : BeginIndex(w, k)
    <3>1. j \in linked /\ j \in applied \cup open
      BY <2>2, <1>6 DEF BeginIndex, index, ServedInv
    <3> QED
      BY <2>2, <3>1 DEF BeginIndex, index
  <2>3. CASE FinishIndex(w)
    <3>1. j \in linked /\ j \in applied \cup open
      BY <2>3, <1>6 DEF FinishIndex, ServedInv
    <3>2. /\ linked' = linked /\ open' = open \ {step[w].job}
          /\ applied' = IF StillValid(step[w].job) THEN applied \cup {step[w].job} ELSE applied
      BY <2>3 DEF FinishIndex
    <3>3. CASE j = step[w].job
      <4>1. j[2].rows # {}
        BY <2>3 DEF FinishIndex, ServedInv, Made
      <4>2. \A r \in j[2].rows : r \in Cited(j[2])
        <5> SUFFICES ASSUME NEW r \in j[2].rows PROVE r \in Cited(j[2])
          OBVIOUS
        <5>1. r \in Live
          BY <1>6
        <5>2. r = <<r[1], gen[r[1]], src[r[1]]>> /\ src[r[1]] # "absent"
          BY <5>1, LivePresent
        <5>3. gen[r[1]] = r[2]
          BY <5>2
        <5> QED
          BY <5>2, <5>3 DEF Cited
      <4>3. Cited(j[2]) # {} /\ Cited(j[2]) \subseteq Live
        BY <1>6, <4>1, <4>2 DEF Cited
      <4>4. StillValid(j)
        BY <3>1, <4>3 DEF StillValid
      <4> QED
        BY <3>1, <3>2, <3>3, <4>4
    <3>4. CASE j # step[w].job
      BY <3>1, <3>2, <3>4
    <3> QED
      BY <3>3, <3>4
  <2>4. CASE BeginRebuild(w) \/ AbortRebuild(w) \/ Interrupt(w)
    BY <2>4, <1>6 DEF BeginRebuild, AbortRebuild, Interrupt, index, work, ServedInv
  <2> QED
    BY <2>1, <2>2, <2>3, <2>4 DEF Worker
<1> QED
  BY <1>2, <1>3, <1>4, <1>5, <1>6 DEF ServedInv

LEMMA ServedNext ==
  Types /\ ServedInv /\ [Next]_vars /\ [NoneMadeAgain]_vars => ServedInv'
<1> SUFFICES ASSUME Types, ServedInv, [Next]_vars, [NoneMadeAgain]_vars PROVE ServedInv'
  OBVIOUS
<1>1. CASE UNCHANGED vars
  <2>1. UNCHANGED <<src, gen, chunks, applied, known, open, linked, step>>
    BY <1>1 DEF vars, stored, index, work
  <2> QED
    BY <2>1, QuietServes
<1>2. CASE vars' # vars
  BY <1>2, ProviderServes, UserServes, WorkerServes DEF Next
<1> QED
  BY <1>1, <1>2

\* With one worker, once the chunks are current each that lacks its embedding
\* or its claims has a job for it, as reconcile_ai promises: what breaks the
\* promise is only a chunk made a second time with the same messages, whose
\* jobs' keys have rows already (app/memory.py, app/jobs.py).
THEOREM MissingServed ==
  ASSUME NEW w \in Workers, OneWorker(w)
  PROVE  Spec /\ [][NoneMadeAgain]_vars => []MissingHasJob
<1>1. Init => ServedInv
  BY DEF Init, ServedInv, Doing, Idle
<1>2. IdleMeansCurrent /\ ServedInv => MissingHasJob
  <2> SUFFICES ASSUME IdleMeansCurrent, ServedInv, pending = 0, removal = NoRemoval,
                      NEW j \in Kinds \X chunks
               PROVE  j \in applied \cup open
    BY DEF MissingHasJob
  <2>1. j[2] \in Plan(Live)
    BY DEF IdleMeansCurrent
  <2>2. j[2].rows \subseteq Live
    BY <2>1 DEF Plan
  <2> QED
    BY <2>2 DEF ServedInv
<1>3. Spec => []IdleMeansCurrent
  BY ChunksCurrent
<1> QED
  BY <1>1, <1>2, <1>3, ServedNext, TypesInit, TypesNext, PTL DEF Spec

=============================================================================
