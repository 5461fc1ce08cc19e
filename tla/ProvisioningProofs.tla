------------------------- MODULE ProvisioningProofs -------------------------
(* Theorems about Provisioning, for any workspaces, slots and bounds.       *)
EXTENDS Provisioning, TLAPS, FiniteSetTheorems

USE ProvisioningAssumption

Desires == {"absent", "running", "stopped", "deleted"}
Entries == Desires \X (0..MaxKeys) \X {"current", "older"}

LEMMA TypeInit == Init => TypeOK
<1> SUFFICES ASSUME Init PROVE TypeOK
  OBVIOUS
<1>1. Cardinality({}) = 0
  BY FS_EmptySet
<1>2. /\ dir \in [Workspaces -> BOOLEAN] /\ asked \in [Workspaces -> BOOLEAN]
      /\ image \in [Workspaces -> BOOLEAN]
  <2>1. /\ dir = [w \in Workspaces |-> w \in Leftover] /\ asked = dir
        /\ image = [w \in Workspaces |-> TRUE]
    BY DEF Init
  <2>2. \A w \in Workspaces : (w \in Leftover) \in BOOLEAN /\ TRUE \in BOOLEAN
    OBVIOUS
  <2> QED  BY <2>1, <2>2, Zenon
<1>3. /\ row \in [Workspaces -> Desires] /\ key \in [Workspaces -> 0..MaxKeys]
      /\ file \in [Workspaces -> 0..MaxKeys] /\ read \in [Workspaces -> 0..MaxKeys]
      /\ seen \in [Workspaces -> 0..3] /\ listing \in [Workspaces -> Entries]
      /\ container \in [Workspaces -> {"none", "exited", "running"}]
      /\ late \in [Workspaces -> {"no", "waiting", "done"}]
  BY DEF Init, Nothing, Desires, Entries
<1>4. /\ account \subseteq Workspaces /\ cleanup = {} /\ counted = {} /\ todo = {} /\ at = {}
      /\ pc = "idle" /\ populated \in BOOLEAN
  BY DEF Init
<1> QED  BY <1>1, <1>2, <1>3, <1>4 DEF TypeOK, Desires, Entries

LEMMA RowTyped ==
  ASSUME TypeOK, NEW w \in Workspaces, NEW desired \in Desires, RowFor(w, desired)
  PROVE  row' \in [Workspaces -> Desires] /\ key' \in [Workspaces -> 0..MaxKeys]
<1>1. row' \in [Workspaces -> Desires]
  BY DEF RowFor, TypeOK, Desires
<1>2. CASE row[w] = "absent"
  <2>1. key[w] + 1 \in 0..MaxKeys /\ key' = [key EXCEPT ![w] = @ + 1]
    BY <1>2 DEF RowFor, TypeOK
  <2> QED  BY <1>1, <2>1 DEF TypeOK
<1>3. CASE row[w] # "absent"
  BY <1>1, <1>3 DEF RowFor, TypeOK
<1> QED  BY <1>2, <1>3

LEMMA UserTyped == ASSUME TypeOK, User PROVE TypeOK'
<1>1. ASSUME NEW w \in Workspaces, Count(w) PROVE TypeOK'
  <2>1. row' \in [Workspaces -> Desires] /\ key' \in [Workspaces -> 0..MaxKeys]
    <3>1. row[w] \in Desires /\ "stopped" \in Desires
      BY DEF TypeOK, Desires
    <3>2. CASE Cardinality(Active) >= Cap
      BY <1>1, <3>1, <3>2, RowTyped DEF Count
    <3>3. CASE ~(Cardinality(Active) >= Cap)
      BY <1>1, <3>3 DEF Count, TypeOK, Desires
    <3> QED  BY <3>2, <3>3
  <2> QED  BY <1>1, <2>1 DEF Count, TypeOK, Desires, host, cycle
<1>2. ASSUME NEW w \in Workspaces, Connect(w) PROVE TypeOK'
  <2>1. row' \in [Workspaces -> Desires] /\ key' \in [Workspaces -> 0..MaxKeys]
    BY <1>2, RowTyped DEF Connect, Desires
  <2> QED  BY <1>2, <2>1 DEF Connect, TypeOK, Desires, host, cycle
<1>3. ASSUME NEW w \in Workspaces, DeleteAccount(w) PROVE TypeOK'
  BY <1>3 DEF DeleteAccount, TypeOK, host, cycle
<1>4. ASSUME NEW w \in Workspaces, NEW remove \in BOOLEAN, Stop(w, remove) PROVE TypeOK'
  BY <1>4 DEF Stop, TypeOK, host, cycle
<1> QED  BY <1>1, <1>2, <1>3, <1>4 DEF User

LEMMA RemovedTyped ==
  ASSUME TypeOK, NEW w \in Workspaces, Removed(w)
  PROVE  /\ account' \subseteq Workspaces /\ cleanup' \subseteq Workspaces /\ counted' \subseteq Workspaces
         /\ row' \in [Workspaces -> Desires] /\ key' \in [Workspaces -> 0..MaxKeys]
BY DEF Removed, TypeOK, Desires

LEMMA ImageTyped ==
  ASSUME TypeOK, NEW w \in Workspaces
  PROVE  /\ image' = [image EXCEPT ![w] = Current(w)] => image' \in [Workspaces -> BOOLEAN]
         /\ image' = [image EXCEPT ![w] = @] => image' \in [Workspaces -> BOOLEAN]
<1> DEFINE now == Current(w)
<1>1. now \in BOOLEAN /\ image \in [Workspaces -> BOOLEAN]
  BY DEF TypeOK, Current
<1> HIDE DEF now
<1>2. image' = [image EXCEPT ![w] = now] => image' \in [Workspaces -> BOOLEAN]
  BY <1>1
<1>3. image' = [image EXCEPT ![w] = @] => image' \in [Workspaces -> BOOLEAN]
  BY <1>1
<1> QED  BY <1>2, <1>3 DEF now

LEMMA HostTyped ==
  ASSUME TypeOK, NEW w \in Workspaces, listing[w] \in Entries
  PROVE  /\ Prepared(w) => /\ dir' \in [Workspaces -> BOOLEAN] /\ file' \in [Workspaces -> 0..MaxKeys]
                           /\ asked' \in [Workspaces -> BOOLEAN]
         /\ Runs(w) => /\ container' \in [Workspaces -> {"none", "exited", "running"}]
                       /\ image' \in [Workspaces -> BOOLEAN] /\ read' \in [Workspaces -> 0..MaxKeys]
         /\ Delete(w) => /\ container' \in [Workspaces -> {"none", "exited", "running"}]
                         /\ image' \in [Workspaces -> BOOLEAN] /\ read' \in [Workspaces -> 0..MaxKeys]
                         /\ dir' \in [Workspaces -> BOOLEAN] /\ file' \in [Workspaces -> 0..MaxKeys]
<1>1. listing[w][2] \in 0..MaxKeys /\ 0 \in 0..MaxKeys
  BY DEF Entries
<1>2. Prepared(w) => /\ dir' \in [Workspaces -> BOOLEAN] /\ file' \in [Workspaces -> 0..MaxKeys]
                     /\ asked' \in [Workspaces -> BOOLEAN]
  BY <1>1 DEF Prepared, TypeOK
<1>3. Runs(w) => /\ container' \in [Workspaces -> {"none", "exited", "running"}]
                 /\ image' \in [Workspaces -> BOOLEAN] /\ read' \in [Workspaces -> 0..MaxKeys]
  <2>1. SUFFICES ASSUME NEW replace \in Another(w),
                        IF container[w] = "running" /\ ~replace
                        THEN UNCHANGED <<container, image, read>>
                        ELSE /\ container' = [container EXCEPT ![w] = "running"]
                             /\ read' = [read EXCEPT ![w] = listing[w][2]]
                             /\ image' = [image EXCEPT ![w] = IF container[w] = "none" \/ replace
                                                             THEN Current(w) ELSE @]
                 PROVE  /\ container' \in [Workspaces -> {"none", "exited", "running"}]
                        /\ image' \in [Workspaces -> BOOLEAN] /\ read' \in [Workspaces -> 0..MaxKeys]
    BY DEF Runs
  <2>2. CASE container[w] = "running" /\ ~replace
    BY <2>1, <2>2 DEF TypeOK
  <2>3. CASE ~(container[w] = "running" /\ ~replace)
    <3>1. /\ container' = [container EXCEPT ![w] = "running"]
          /\ read' = [read EXCEPT ![w] = listing[w][2]]
      BY <2>1, <2>3
    <3>2. \/ image' = [image EXCEPT ![w] = Current(w)]
          \/ image' = [image EXCEPT ![w] = @]
      BY <2>1, <2>3, Zenon
    <3>3. image' \in [Workspaces -> BOOLEAN]
      BY <3>2, ImageTyped
    <3> QED  BY <1>1, <3>1, <3>3 DEF TypeOK
  <2> QED  BY <2>2, <2>3
<1>4. Delete(w) => /\ container' \in [Workspaces -> {"none", "exited", "running"}]
                   /\ image' \in [Workspaces -> BOOLEAN] /\ read' \in [Workspaces -> 0..MaxKeys]
                   /\ dir' \in [Workspaces -> BOOLEAN] /\ file' \in [Workspaces -> 0..MaxKeys]
  BY <1>1 DEF Delete, TypeOK
<1> QED  BY <1>2, <1>3, <1>4

LEMMA WorksTyped == ASSUME TypeOK, Works PROVE TypeOK'
<1>0. \A w \in Workspaces : listing[w] \in Entries
  BY DEF TypeOK, Desires, Entries
<1>1. CASE Fetch
  <2>1. \A w \in Workspaces : Wanted(w) \in Desires /\ key[w] \in 0..MaxKeys
    BY DEF TypeOK, Wanted, Desires
  <2>2. listing' \in [Workspaces -> Entries]
    BY <1>1, <2>1 DEF Fetch, Entries
  <2> QED  BY <1>1, <2>2 DEF Fetch, TypeOK, Desires, Entries, web, host, Listed
<1>2. ASSUME NEW w \in Workspaces, EnsureRunning(w) PROVE TypeOK'
  <2>1. Prepared(w) /\ Runs(w)
    BY <1>2 DEF EnsureRunning
  <2> QED  BY <1>0, <1>2, <2>1, HostTyped DEF EnsureRunning, Row, TypeOK, web
<1>3. ASSUME NEW w \in Workspaces, StopRow(w) PROVE TypeOK'
  BY <1>3 DEF StopRow, Row, TypeOK, web
<1>4. ASSUME NEW w \in Workspaces, DeleteRow(w) PROVE TypeOK'
  <2>1. Delete(w) /\ Cardinality({w}) = 1
    BY <1>4, FS_Singleton DEF DeleteRow
  <2> QED  BY <1>0, <1>4, <2>1, HostTyped DEF DeleteRow, Row, TypeOK, web
<1>5. ASSUME NEW w \in Workspaces, Report(w) PROVE TypeOK'
  <2>1. Removed(w) /\ Cardinality({}) = 0
    BY <1>5, FS_EmptySet DEF Report
  <2> QED  BY <1>5, <2>1, RemovedTyped DEF Report, Reported, TypeOK, host, Desires
<1>6. CASE CountOrphans
  <2>1. \A w \in Workspaces : Min({seen[w] + 1, 3}) \in 0..3
    <3>1. SUFFICES ASSUME NEW w \in Workspaces PROVE Min({seen[w] + 1, 3}) \in 0..3
      OBVIOUS
    <3>2. seen[w] \in 0..3
      BY DEF TypeOK
    <3>3. \E x \in {seen[w] + 1, 3} : \A y \in {seen[w] + 1, 3} : x <= y
      BY <3>2
    <3>4. Min({seen[w] + 1, 3}) \in {seen[w] + 1, 3} /\ \A y \in {seen[w] + 1, 3} : Min({seen[w] + 1, 3}) <= y
      BY <3>3 DEF Min
    <3> QED  BY <3>2, <3>4
  <2>2. seen' \in [Workspaces -> 0..3]
    <3>1. CASE populated
      <4>1. seen' = [w \in Workspaces |-> IF w \in Orphans THEN Min({seen[w] + 1, 3}) ELSE 0]
        BY <1>6, <3>1 DEF CountOrphans
      <4> QED  BY <2>1, <4>1
    <3> QED  BY <1>6, <3>1 DEF CountOrphans, TypeOK
  <2>3. pc' \in {"idle", "orphans"}
    BY <1>6 DEF CountOrphans
  <2> QED  BY <1>6, <2>2, <2>3 DEF CountOrphans, TypeOK, web, host
<1>7. ASSUME NEW w \in Workspaces, DeleteOrphan(w) PROVE TypeOK'
  <2>1. Delete(w)
    BY <1>7 DEF DeleteOrphan
  <2> QED  BY <1>0, <1>7, <2>1, HostTyped DEF DeleteOrphan, TypeOK, web
<1>8. CASE EndCycle
  BY <1>8 DEF EndCycle, TypeOK, Nothing, web, host
<1> QED  BY <1>1, <1>2, <1>3, <1>4, <1>5, <1>6, <1>7, <1>8 DEF Works

LEMMA AmissTyped == ASSUME TypeOK, Amiss PROVE TypeOK'
<1>0. \A w \in Workspaces : listing[w] \in Entries
  BY DEF TypeOK, Desires, Entries
<1>1. CASE FetchEmpty
  BY <1>1 DEF FetchEmpty, TypeOK, Nothing, web, host
<1>2. CASE ReportLost
  <2>1. late' \in [Workspaces -> {"no", "waiting", "done"}]
    BY <1>2 DEF ReportLost, TypeOK
  <2>2. Cardinality({}) = 0
    BY FS_EmptySet
  <2> QED  BY <1>2, <2>1, <2>2 DEF ReportLost, Reported, TypeOK, web, host
<1>3. CASE Restart
  <2>1. Cardinality({}) = 0
    BY FS_EmptySet
  <2>2. seen' \in [Workspaces -> 0..3] /\ listing' \in [Workspaces -> Entries]
    BY <1>3 DEF Restart, Nothing, Desires, Entries
  <2>3. /\ pc' = "idle" /\ populated' \in BOOLEAN /\ todo' = {} /\ at' = {}
        /\ UNCHANGED <<web, host, late, asked>>
    BY <1>3 DEF Restart
  <2> QED  BY <2>1, <2>2, <2>3 DEF TypeOK, Desires, Entries, web, host
<1>4. ASSUME NEW w \in Workspaces, EnsureFails(w) PROVE TypeOK'
  <2>1. Prepared(w)
    BY <1>4 DEF EnsureFails
  <2>2. container' \in [Workspaces -> {"none", "exited", "running"}] /\ image' \in [Workspaces -> BOOLEAN]
    <3>1. UNCHANGED <<container, image>> => container' = container /\ image' = image
      OBVIOUS
    <3>2. ASSUME NEW left \in {"none", "exited"}, container' = [container EXCEPT ![w] = left]
          PROVE  container' \in [Workspaces -> {"none", "exited", "running"}]
      BY <3>2 DEF TypeOK
    <3>3. image' = [image EXCEPT ![w] = Current(w)] => image' \in [Workspaces -> BOOLEAN]
      BY ImageTyped
    <3>4. container' = [container EXCEPT ![w] = "exited"] => container' \in [Workspaces -> {"none", "exited", "running"}]
      BY DEF TypeOK
    <3> QED  BY <1>4, <3>1, <3>2, <3>3, <3>4 DEF EnsureFails, TypeOK
  <2> QED  BY <1>0, <1>4, <2>1, <2>2, HostTyped DEF EnsureFails, Row, TypeOK, web
<1>5. ASSUME NEW w \in Workspaces, DeleteFails(w) PROVE TypeOK'
  BY <1>5 DEF DeleteFails, Row, TypeOK, web
<1>6. ASSUME NEW w \in Workspaces, Exit(w) PROVE TypeOK'
  <2>1. container' \in [Workspaces -> {"none", "exited", "running"}] /\ read' \in [Workspaces -> 0..MaxKeys]
    <3>1. CASE container' = [container EXCEPT ![w] = "exited"] /\ UNCHANGED read
      BY <3>1 DEF TypeOK
    <3>2. CASE read' = [read EXCEPT ![w] = file[w]] /\ UNCHANGED container
      BY <3>2 DEF TypeOK
    <3> QED  BY <1>6, <3>1, <3>2 DEF Exit
  <2> QED  BY <1>6, <2>1 DEF Exit, TypeOK, web, cycle
<1> QED  BY <1>1, <1>2, <1>3, <1>4, <1>5, <1>6 DEF Amiss

LEMMA TypeNext == TypeOK /\ [Next]_vars => TypeOK'
<1> SUFFICES ASSUME TypeOK, [Next]_vars PROVE TypeOK'
  OBVIOUS
<1>1. CASE Release
  <2>1. listing' \in [Workspaces -> Entries]
    <3>1. \A w \in Workspaces : listing[w] \in Entries
      BY DEF TypeOK, Desires, Entries
    <3>2. \A w \in Workspaces : <<listing[w][1], listing[w][2], "older">> \in Entries
      BY <3>1 DEF Entries
    <3> QED  BY <1>1, <3>2 DEF Release
  <2>2. image' \in [Workspaces -> BOOLEAN]
    BY <1>1 DEF Release
  <2> QED  BY <1>1, <2>1, <2>2 DEF Release, TypeOK, Desires, Entries, web
<1>2. ASSUME NEW w \in Workspaces, LateReport(w) PROVE TypeOK'
  <2>1. Removed(w)
    BY <1>2 DEF LateReport
  <2> QED  BY <1>2, <2>1, RemovedTyped DEF LateReport, TypeOK, host, cycle, Desires
<1>3. CASE UNCHANGED vars
  BY <1>3 DEF vars, TypeOK, web, host, cycle
<1> QED  BY <1>1, <1>2, <1>3, UserTyped, WorksTyped, AmissTyped DEF Next

\* Whatever users, releases, faults and late reports do, what the application
\* records, the host holds and the provisioner remembers keep their types.
THEOREM TypeCorrect == Spec => []TypeOK
BY TypeInit, TypeNext, PTL DEF Spec
-----------------------------------------------------------------------------
(* The slots *)

\* While a request is between its count and its commit no other counts, and
\* the slot that it found is still free.
Counting ==
  /\ IsFiniteSet(Active) /\ Cardinality(Active) <= Cap
  /\ \/ counted = {}
     \/ \E w \in Workspaces : /\ counted = {w} /\ row[w] # "running"
                              /\ Cardinality(Active) < Cap

LEMMA CountingInit == Init => Counting
<1> SUFFICES ASSUME Init PROVE Counting
  OBVIOUS
<1>1. Active = {}
  BY DEF Init, Active
<1> QED  BY <1>1, FS_EmptySet DEF Counting, Init

LEMMA FewerActive ==
  ASSUME Counting, Active' \subseteq Active, counted' = counted,
         \A v \in counted : row'[v] = row[v]
  PROVE  Counting'
<1>1. /\ IsFiniteSet(Active') /\ Cardinality(Active') <= Cardinality(Active)
      /\ Cardinality(Active') \in Nat /\ Cardinality(Active) \in Nat
  BY FS_Subset, FS_CardinalityType DEF Counting
<1> QED  BY <1>1 DEF Counting

LEMMA OneMoreActive ==
  ASSUME Counting, TypeOK, NEW w \in counted, counted' = counted \ {w},
         row' = [row EXCEPT ![w] = "running"]
  PROVE  Counting'
<1>1. counted = {w} /\ w \in Workspaces /\ row[w] # "running" /\ Cardinality(Active) < Cap
  BY DEF Counting
<1>2. Active' = Active \cup {w} /\ w \notin Active
  BY <1>1 DEF Active, TypeOK
<1>3. IsFiniteSet(Active') /\ Cardinality(Active') = Cardinality(Active) + 1 /\ Cardinality(Active) \in Nat
  BY <1>2, FS_AddElement, FS_CardinalityType DEF Counting
<1>4. counted' = {}
  BY <1>1
<1> QED  BY <1>1, <1>3, <1>4 DEF Counting

LEMMA CountingNext == Counting /\ TypeOK /\ [Next]_vars => Counting'
<1> SUFFICES ASSUME Counting, TypeOK, [Next]_vars PROVE Counting'
  OBVIOUS
<1>1. ASSUME row' = row, counted' = counted PROVE Counting'
  BY <1>1, FewerActive DEF Active
<1>2. ASSUME NEW w \in Workspaces, NEW desired, desired # "running", w \notin counted,
             row' = [row EXCEPT ![w] = desired], counted' = counted
      PROVE  Counting'
  <2>1. Active' \subseteq Active /\ \A v \in counted : row'[v] = row[v]
    BY <1>2 DEF Active, TypeOK
  <2> QED  BY <1>2, <2>1, FewerActive
<1>3. ASSUME NEW w \in Workspaces, Count(w) PROVE Counting'
  <2>1. CASE Cardinality(Active) >= Cap
    BY <1>2, <1>3, <2>1 DEF Count, RowFor
  <2>2. CASE ~(Cardinality(Active) >= Cap)
    <3>1. counted' = {w} /\ row' = row /\ row[w] # "running" /\ Active' = Active
      BY <1>3, <2>2 DEF Count, Active
    <3>2. Cardinality(Active) \in Nat
      BY FS_CardinalityType DEF Counting
    <3> QED  BY <2>2, <3>1, <3>2 DEF Counting
  <2> QED  BY <2>1, <2>2
<1>4. ASSUME NEW w \in Workspaces, Connect(w) PROVE Counting'
  BY <1>4, OneMoreActive DEF Connect, RowFor
<1>5. ASSUME NEW w \in Workspaces, NEW remove \in BOOLEAN, Stop(w, remove) PROVE Counting'
  BY <1>2, <1>5 DEF Stop
<1>6. ASSUME NEW w \in Workspaces, DeleteAccount(w) PROVE Counting'
  BY <1>2, <1>6 DEF DeleteAccount
<1>7. ASSUME NEW w \in Workspaces, Removed(w) PROVE Counting'
  <2>1. CASE w \notin cleanup /\ row[w] = "deleted"
    BY <1>2, <1>7, <2>1 DEF Removed
  <2>2. CASE ~(w \notin cleanup /\ row[w] = "deleted")
    <3>1. row' = row /\ counted' = counted
      BY <1>7, <2>2 DEF Removed, TypeOK
    <3> QED  BY <1>1, <3>1
  <2> QED  BY <2>1, <2>2
<1>8. UNCHANGED web => Counting'
  BY <1>1 DEF web
<1>9. CASE User
  BY <1>3, <1>4, <1>5, <1>6, <1>9 DEF User
<1>10. CASE Release \/ UNCHANGED vars
  BY <1>8, <1>10 DEF Release, vars
<1>11. CASE Works
  BY <1>7, <1>8, <1>11 DEF Works, Fetch, EnsureRunning, StopRow, DeleteRow, Report, CountOrphans,
                           DeleteOrphan, EndCycle
<1>12. CASE Amiss
  BY <1>8, <1>12 DEF Amiss, FetchEmpty, ReportLost, Restart, EnsureFails, DeleteFails, Exit
<1>13. CASE \E w \in Workspaces : LateReport(w)
  BY <1>7, <1>13 DEF LateReport
<1> QED  BY <1>9, <1>10, <1>11, <1>12, <1>13 DEF Next

\* However requests, removals and reports interleave, the connectors wanted at
\* once are no more than the slots: the count is used before another is made.
THEOREM SlotsHold == Spec => []CapHolds
<1>1. Counting => CapHolds
  BY DEF Counting, CapHolds
<1> QED  BY <1>1, TypeCorrect, CountingInit, CountingNext, PTL DEF Spec
-----------------------------------------------------------------------------
(* What the host holds and what is wanted *)

\* Rows and cleanups: a workspace has one of them, and what was left behind by
\* accounts deleted long ago has neither.
Rows ==
  /\ account \cap Leftover = {} /\ cleanup \cap account = {} /\ counted \subseteq account
  /\ \A w \in Workspaces : row[w] # "absent" => w \in account
  /\ pc # "report" => at = {}

\* A workspace on the list of the cycle is wanted one way or another, one that
\* is not wanted is clean, and a row's key is the one in use and on the list.
Agrees(w) ==
  /\ w \in todo => Wanted(w) # "absent"
  /\ Wanted(w) = "absent" => Clean(w)
  /\ row[w] # "absent" =>
       /\ container[w] = "running" => read[w] = key[w] /\ file[w] = key[w]
       /\ w \in todo /\ listing[w][1] = "running" => listing[w][2] = key[w]

\* What is reported as removed is, until the report was made.
Gone(w) == w \in at => Clean(w) /\ w \notin todo

Agreed(w) == Gone(w) /\ (w \notin Leftover /\ Timely(w) => Agrees(w))

Agreement == Rows /\ \A w \in Workspaces : Agreed(w)

\* The workspace is left alone.
Alone(w) ==
  /\ row'[w] = row[w] /\ key'[w] = key[w] /\ (w \in cleanup' <=> w \in cleanup)
  /\ (w \in account' <=> w \in account)
  /\ container'[w] = container[w] /\ dir'[w] = dir[w] /\ asked'[w] = asked[w]
  /\ file'[w] = file[w] /\ read'[w] = read[w] /\ late'[w] = late[w]
  /\ listing'[w] = listing[w] /\ (w \in todo' <=> w \in todo)
  /\ (w \in at' => w \in at) /\ seen'[w] = seen[w]

LEMMA AloneAgreed == ASSUME NEW w \in Workspaces, Agreed(w), Alone(w) PROVE Agreed(w)'
BY DEF Agreed, Agrees, Gone, Alone, Wanted, Clean, Timely

LEMMA AgreementInit == Init => Agreement
BY DEF Init, Agreement, Rows, Agreed, Agrees, Gone, Wanted, Clean

LEMMA RowsNext == Rows /\ TypeOK /\ [Next]_vars => Rows'
<1> SUFFICES ASSUME Rows, TypeOK, [Next]_vars PROVE Rows'
  OBVIOUS
<1>1. ASSUME NEW w \in Workspaces, Count(w) PROVE Rows'
  BY <1>1 DEF Count, RowFor, Rows, TypeOK, cycle
<1>2. ASSUME NEW w \in Workspaces, Connect(w) PROVE Rows'
  BY <1>2 DEF Connect, RowFor, Rows, TypeOK, cycle
<1>3. ASSUME NEW w \in Workspaces, NEW remove \in BOOLEAN, Stop(w, remove) PROVE Rows'
  BY <1>3 DEF Stop, Rows, TypeOK, cycle
<1>4. ASSUME NEW w \in Workspaces, DeleteAccount(w) PROVE Rows'
  BY <1>4 DEF DeleteAccount, Rows, TypeOK, cycle
<1>5. ASSUME NEW w \in Workspaces, Removed(w), pc' # "report" => at' = {} PROVE Rows'
  BY <1>5 DEF Removed, Rows, TypeOK
<1>6. ASSUME UNCHANGED web, pc' # "report" => at' = {} PROVE Rows'
  BY <1>6 DEF web, Rows
<1>7. CASE User
  BY <1>1, <1>2, <1>3, <1>4, <1>7 DEF User
<1>8. CASE Release \/ UNCHANGED vars
  BY <1>6, <1>8 DEF Release, vars, cycle, Rows
<1>9. CASE Works
  BY <1>5, <1>6, <1>9 DEF Works, Fetch, EnsureRunning, StopRow, DeleteRow, Report, Reported, Row,
                          CountOrphans, DeleteOrphan, EndCycle, Rows
<1>10. CASE Amiss
  BY <1>6, <1>10 DEF Amiss, FetchEmpty, ReportLost, Reported, Restart, EnsureFails, DeleteFails, Exit,
                     Row, cycle, Rows
<1>11. CASE \E w \in Workspaces : LateReport(w)
  BY <1>5, <1>11 DEF LateReport, cycle, Rows
<1> QED  BY <1>7, <1>8, <1>9, <1>10, <1>11 DEF Next

LEMMA UserAgreed == ASSUME Agreement, TypeOK, User, NEW v \in Workspaces PROVE Agreed(v)'
<1>0. Agreed(v)
  BY DEF Agreement
<1>1. ASSUME NEW w \in Workspaces, NEW desired \in Desires \ {"absent"}, w \in account, RowFor(w, desired),
             UNCHANGED <<account, cleanup, host, cycle, late, asked>>
      PROVE  Agreed(v)'
  <2>1. CASE v # w
    <3>1. Alone(v)
      BY <1>1, <2>1 DEF RowFor, Alone, TypeOK, host, cycle
    <3> QED  BY <1>0, <3>1, AloneAgreed
  <2>2. CASE v = w /\ row[w] = "absent"
    <3>1. row'[w] = desired /\ w \notin cleanup /\ w \notin Leftover
      BY <1>1 DEF RowFor, TypeOK, Agreement, Rows
    <3>2. Wanted(w) = "absent"
      BY <2>2, <3>1 DEF Wanted
    <3> QED  BY <1>0, <1>1, <2>2, <3>1, <3>2 DEF Agreed, Agrees, Gone, Wanted, Clean, Timely, host, cycle
  <2>3. CASE v = w /\ row[w] # "absent"
    <3>1. row'[w] = desired /\ key' = key /\ w \notin cleanup
      BY <1>1, <2>3 DEF RowFor, TypeOK, Agreement, Rows
    <3> QED  BY <1>0, <1>1, <2>3, <3>1 DEF Agreed, Agrees, Gone, Wanted, Clean, Timely, host, cycle
  <2> QED  BY <2>1, <2>2, <2>3
<1>2. ASSUME NEW w \in Workspaces, Count(w) PROVE Agreed(v)'
  <2>1. CASE Cardinality(Active) >= Cap
    <3>1. (IF row[w] = "absent" THEN "stopped" ELSE row[w]) \in Desires \ {"absent"}
      BY DEF TypeOK, Desires
    <3> QED  BY <1>1, <1>2, <2>1, <3>1 DEF Count
  <2>2. CASE ~(Cardinality(Active) >= Cap)
    <3>1. Alone(v)
      BY <1>2, <2>2 DEF Count, Alone, host, cycle
    <3> QED  BY <1>0, <3>1, AloneAgreed
  <2> QED  BY <2>1, <2>2
<1>3. ASSUME NEW w \in Workspaces, Connect(w) PROVE Agreed(v)'
  BY <1>1, <1>3 DEF Connect, Desires, Agreement, Rows
<1>4. ASSUME NEW w \in Workspaces, NEW remove \in BOOLEAN, Stop(w, remove) PROVE Agreed(v)'
  <2>1. CASE v # w
    <3>1. Alone(v)
      BY <1>4, <2>1 DEF Stop, Alone, TypeOK, host, cycle
    <3> QED  BY <1>0, <3>1, AloneAgreed
  <2>2. CASE v = w
    <3>1. row[w] # "absent" /\ row'[w] \in {"deleted", "stopped"}
      BY <1>4 DEF Stop, TypeOK
    <3>2. UNCHANGED <<account, key, cleanup, host, cycle, late>>
      BY <1>4 DEF Stop
    <3> QED  BY <1>0, <2>2, <3>1, <3>2 DEF Agreed, Agrees, Gone, Wanted, Clean, Timely, host, cycle
  <2> QED  BY <2>1, <2>2
<1>5. ASSUME NEW w \in Workspaces, DeleteAccount(w) PROVE Agreed(v)'
  <2>1. CASE v # w
    <3>1. Alone(v)
      BY <1>5, <2>1 DEF DeleteAccount, Alone, TypeOK, host, cycle
    <3> QED  BY <1>0, <3>1, AloneAgreed
  <2>2. CASE v = w
    <3>1. row'[w] = "absent" /\ (w \in cleanup' <=> w \in cleanup \/ row[w] # "absent")
      BY <1>5 DEF DeleteAccount, TypeOK
    <3>2. UNCHANGED <<key, host, cycle, late>>
      BY <1>5 DEF DeleteAccount
    <3> QED  BY <1>0, <2>2, <3>1, <3>2 DEF Agreed, Agrees, Gone, Wanted, Clean, Timely, host, cycle
  <2> QED  BY <2>1, <2>2
<1> QED  BY <1>2, <1>3, <1>4, <1>5 DEF User

LEMMA ReportAgreed ==
  ASSUME Agreement, TypeOK, NEW w \in Workspaces, Report(w), NEW v \in Workspaces
  PROVE  Agreed(v)'
<1>0. Agreed(v) /\ Agreed(w)
  BY DEF Agreement
<1>1. /\ Removed(w) /\ UNCHANGED <<host, listing, todo, late>>
      /\ at = {w} /\ at' = {}
  BY DEF Report, Reported
<1>2. CASE v # w
  <2>1. row'[v] = row[v] /\ key' = key /\ (v \in cleanup' <=> v \in cleanup)
    BY <1>1, <1>2 DEF Removed, TypeOK
  <2> QED  BY <1>0, <1>1, <2>1 DEF Agreed, Agrees, Gone, Wanted, Clean, Timely, host
<1>3. CASE v = w
  <2>1. Clean(w)' /\ w \notin todo' /\ w \notin at'
    BY <1>0, <1>1 DEF Agreed, Gone, Clean, host
  <2> QED  BY <1>3, <2>1 DEF Agreed, Agrees, Gone, Clean
<1> QED  BY <1>2, <1>3

LEMMA WorksAgreed == ASSUME Agreement, TypeOK, Works, NEW v \in Workspaces PROVE Agreed(v)'
<1>0. Agreed(v) /\ Rows
  BY DEF Agreement
<1>1. CASE Fetch
  <2>1. /\ listing'[v] = <<Wanted(v), key[v], "current">> /\ (v \in todo' => Wanted(v) # "absent")
        /\ at = {} /\ UNCHANGED <<web, host, at, late>>
    BY <1>0, <1>1 DEF Fetch, Listed, Rows
  <2>2. listing'[v][1] = Wanted(v) /\ listing'[v][2] = key[v]
    BY <2>1
  <2> QED  BY <1>0, <2>1, <2>2 DEF Agreed, Agrees, Gone, Wanted, Clean, Timely, host, web
<1>2. ASSUME NEW w \in Workspaces, EnsureRunning(w) PROVE Agreed(v)'
  <2>1. CASE v # w
    <3>1. Alone(v)
      BY <1>2, <2>1 DEF EnsureRunning, Prepared, Runs, Row, Alone, TypeOK, web
    <3> QED  BY <1>0, <3>1, AloneAgreed
  <2>2. CASE v = w
    <3>1. /\ w \in todo /\ w \notin todo' /\ listing[w][1] = "running" /\ at' = at
          /\ UNCHANGED <<web, late>> /\ file'[w] = listing[w][2]
      BY <1>2 DEF EnsureRunning, Prepared, Row, TypeOK
    <3>2. \/ read'[w] = listing[w][2]
          \/ container[w] = "running" /\ read'[w] = read[w]
      BY <1>2 DEF EnsureRunning, Runs, TypeOK
    <3> QED  BY <1>0, <2>2, <3>1, <3>2 DEF Agreed, Agrees, Gone, Wanted, Clean, Timely, web
  <2> QED  BY <2>1, <2>2
<1>3. ASSUME NEW w \in Workspaces, StopRow(w) PROVE Agreed(v)'
  <2>1. CASE v # w
    <3>1. Alone(v)
      BY <1>3, <2>1 DEF StopRow, Row, Alone, TypeOK, web
    <3> QED  BY <1>0, <3>1, AloneAgreed
  <2>2. CASE v = w
    <3>1. w \in todo /\ container'[w] = "none" /\ w \notin todo' /\ at' = at /\ UNCHANGED <<web, dir, late>>
      BY <1>3 DEF StopRow, Row, TypeOK
    <3> QED  BY <1>0, <2>2, <3>1 DEF Agreed, Agrees, Gone, Wanted, Clean, Timely, web
  <2> QED  BY <2>1, <2>2
<1>4. ASSUME NEW w \in Workspaces, DeleteRow(w) PROVE Agreed(v)'
  <2>0. at = {} /\ at' = {w}
    BY <1>0, <1>4 DEF DeleteRow, Row, Rows
  <2>1. CASE v # w
    <3>1. Alone(v)
      BY <1>4, <2>0, <2>1 DEF DeleteRow, Delete, Row, Alone, TypeOK, web
    <3> QED  BY <1>0, <3>1, AloneAgreed
  <2>2. CASE v = w
    <3>1. container'[w] = "none" /\ ~dir'[w] /\ w \notin todo' /\ UNCHANGED <<web, late>>
      BY <1>4 DEF DeleteRow, Delete, Row, TypeOK
    <3> QED  BY <2>2, <3>1 DEF Agreed, Agrees, Gone, Wanted, Clean, Timely, web
  <2> QED  BY <2>1, <2>2
<1>5. ASSUME NEW w \in Workspaces, Report(w) PROVE Agreed(v)'
  BY <1>5, ReportAgreed
<1>6. CASE CountOrphans
  BY <1>0, <1>6 DEF CountOrphans, Agreed, Agrees, Gone, Wanted, Clean, Timely, web, host
<1>7. ASSUME NEW w \in Workspaces, DeleteOrphan(w) PROVE Agreed(v)'
  <2>1. CASE v # w
    <3>1. Alone(v)
      BY <1>7, <2>1 DEF DeleteOrphan, Delete, Alone, TypeOK, web
    <3> QED  BY <1>0, <3>1, AloneAgreed
  <2>2. CASE v = w
    <3>1. container'[w] = "none" /\ ~dir'[w] /\ UNCHANGED <<web, todo, at, late, listing>>
      BY <1>7 DEF DeleteOrphan, Delete, TypeOK
    <3> QED  BY <1>0, <2>2, <3>1 DEF Agreed, Agrees, Gone, Wanted, Clean, Timely, web
  <2> QED  BY <2>1, <2>2
<1>8. CASE EndCycle
  <2>1. UNCHANGED <<web, host, todo, at, late>> /\ listing'[v][1] = "absent"
    BY <1>8 DEF EndCycle, Nothing
  <2> QED  BY <1>0, <2>1 DEF Agreed, Agrees, Gone, Wanted, Clean, Timely, web, host
<1> QED  BY <1>1, <1>2, <1>3, <1>4, <1>5, <1>6, <1>7, <1>8 DEF Works

LEMMA AmissAgreed == ASSUME Agreement, TypeOK, Amiss, NEW v \in Workspaces PROVE Agreed(v)'
<1>0. Agreed(v) /\ Rows
  BY DEF Agreement
<1>1. CASE FetchEmpty
  BY <1>0, <1>1 DEF FetchEmpty, Agreed, Agrees, Gone, Wanted, Clean, Timely, web, host
<1>2. CASE ReportLost
  <2>1. /\ at' = {} /\ UNCHANGED <<web, host, listing, todo>>
        /\ late'[v] = late[v] \/ v \in at
    BY <1>2 DEF ReportLost, Reported, TypeOK
  <2> QED  BY <1>0, <2>1 DEF Agreed, Agrees, Gone, Wanted, Clean, Timely, web, host
<1>3. CASE Restart
  BY <1>0, <1>3 DEF Restart, Agreed, Agrees, Gone, Wanted, Clean, Timely, web, host
<1>4. ASSUME NEW w \in Workspaces, EnsureFails(w) PROVE Agreed(v)'
  <2>0. \/ container' = container
        \/ \E left \in {"none", "exited"} : container' = [container EXCEPT ![w] = left]
    BY <1>4 DEF EnsureFails
  <2>1. CASE v # w
    <3>1. container'[v] = container[v]
      BY <2>0, <2>1 DEF TypeOK
    <3> QED  BY <1>0, <1>4, <2>1, <3>1 DEF EnsureFails, Prepared, Row, TypeOK, web, Agreed, Agrees, Gone,
                                           Wanted, Clean, Timely
  <2>2. CASE v = w
    <3>1. /\ w \in todo /\ w \notin todo' /\ listing[w][1] = "running" /\ at' = at
          /\ UNCHANGED <<web, late, read>> /\ file'[w] = listing[w][2]
      BY <1>4 DEF EnsureFails, Prepared, Row, TypeOK
    <3>2. container'[w] = "running" => container[w] = "running"
      BY <2>0 DEF TypeOK
    <3> QED  BY <1>0, <2>2, <3>1, <3>2 DEF Agreed, Agrees, Gone, Wanted, Clean, Timely, web
  <2> QED  BY <2>1, <2>2
<1>5. ASSUME NEW w \in Workspaces, DeleteFails(w) PROVE Agreed(v)'
  <2>1. container'[v] \in {container[v], "none"} /\ (v # w => container'[v] = container[v])
    BY <1>5 DEF DeleteFails, TypeOK
  <2>2. /\ todo' = todo \ {w} /\ w \in todo /\ at' = at /\ UNCHANGED <<web, dir, file, read, listing, late>>
    BY <1>5 DEF DeleteFails, Row
  <2> QED  BY <1>0, <2>1, <2>2 DEF Agreed, Agrees, Gone, Wanted, Clean, Timely, web
<1>6. ASSUME NEW w \in Workspaces, Exit(w) PROVE Agreed(v)'
  <2>1. /\ container[w] = "running" /\ UNCHANGED <<web, image, dir, file, cycle, late>>
        /\ \/ container' = [container EXCEPT ![w] = "exited"] /\ read' = read
           \/ read' = [read EXCEPT ![w] = file[w]] /\ container' = container
    BY <1>6 DEF Exit
  <2> QED  BY <1>0, <2>1 DEF Agreed, Agrees, Gone, Wanted, Clean, Timely, web, cycle, TypeOK
<1> QED  BY <1>1, <1>2, <1>3, <1>4, <1>5, <1>6 DEF Amiss

\* A release changes nothing else of the listing.
LEMMA Relisted ==
  ASSUME Release, NEW w \in Workspaces
  PROVE  listing'[w][1] = listing[w][1] /\ listing'[w][2] = listing[w][2]
<1>1. listing'[w] = <<listing[w][1], listing[w][2], "older">>
  BY DEF Release
<1> QED  BY <1>1

LEMMA AgreementNext == Agreement /\ TypeOK /\ [Next]_vars => Agreement'
<1> SUFFICES ASSUME Agreement, TypeOK, [Next]_vars, NEW v \in Workspaces PROVE Agreed(v)'
  BY RowsNext DEF Agreement
<1>0. Agreed(v)
  BY DEF Agreement
<1>1. CASE Release
  <2>1. listing'[v][1] = listing[v][1] /\ listing'[v][2] = listing[v][2]
    BY <1>1, Relisted
  <2> QED  BY <1>0, <1>1, <2>1 DEF Release, Agreed, Agrees, Gone, Wanted, Clean, Timely, web
<1>2. ASSUME NEW w \in Workspaces, LateReport(w) PROVE Agreed(v)'
  <2>1. /\ Removed(w) /\ UNCHANGED <<host, cycle>> /\ late' = [late EXCEPT ![w] = "done"]
    BY <1>2 DEF LateReport
  <2>2. v # w => late'[v] = late[v]
    BY <2>1 DEF TypeOK
  <2>3. ~Timely(w)'
    BY <2>1 DEF TypeOK, Timely
  <2>4. CASE v # w
    <3>1. /\ row'[v] = row[v] /\ key' = key /\ (v \in cleanup' <=> v \in cleanup)
      BY <2>1, <2>4 DEF Removed, TypeOK
    <3> QED  BY <1>0, <2>1, <2>2, <2>4, <3>1 DEF Agreed, Agrees, Gone, Wanted, Clean, Timely, host, cycle
  <2>5. CASE v = w
    BY <1>0, <2>1, <2>3, <2>5 DEF Agreed, Gone, Clean, host, cycle
  <2> QED  BY <2>4, <2>5
<1>3. CASE UNCHANGED vars
  BY <1>0, <1>3 DEF vars, Agreed, Agrees, Gone, Wanted, Clean, Timely, web, host, cycle
<1> QED  BY <1>1, <1>2, <1>3, UserAgreed, WorksAgreed, AmissAgreed DEF Next

\* What a workspace forgets is gone from the host: whatever the provisioner has
\* still on its list, and wherever it failed or was stopped, as long as no
\* report about the workspace is carried out after its time.
THEOREM ForgottenIsGone == Spec => []NothingForgotten
<1>1. Agreement => NothingForgotten
  BY DEF Agreement, Agreed, Agrees, NothingForgotten
<1> QED  BY <1>1, TypeCorrect, AgreementInit, AgreementNext, PTL DEF Spec

\* A connector that runs for a workspace that wants it has read the key of its
\* present row, through rows removed and made anew and stale lists.
THEOREM KeysAgree == Spec => []KeyCurrent
<1>1. Agreement => KeyCurrent
  <2> SUFFICES ASSUME Agreement, NEW w \in Workspaces, row[w] = "running",
                      container[w] = "running", Timely(w)
               PROVE  read[w] = key[w]
    BY DEF KeyCurrent
  <2>1. w \notin Leftover
    BY DEF Agreement, Rows
  <2> QED  BY <2>1 DEF Agreement, Agreed, Agrees
<1> QED  BY <1>1, TypeCorrect, AgreementInit, AgreementNext, PTL DEF Spec
-----------------------------------------------------------------------------
(* Sessions *)

\* The user asked for the removal of what is being removed.  A workspace that
\* nobody wants any more was removed on request, and so was its directory.
Asks(w) ==
  /\ w \notin account => asked[w]
  /\ Wanted(w) = "deleted" => asked[w]
  /\ Wanted(w) = "absent" /\ (dir[w] \/ w \in todo) => asked[w]
  /\ w \in todo /\ listing[w][1] = "deleted" => asked[w]

\* A session that nobody asked to remove is taken for an orphan only on a wrong
\* listing: once for each.
Sweeps(w) ==
  /\ pc \in {"rows", "report"} /\ listing[w][1] # "absent" /\ w \in account => populated
  /\ dir[w] /\ ~asked[w] =>
       /\ pc \in {"rows", "report"} /\ listing[w][1] = "absent" => seen[w] < broken
       /\ pc \notin {"rows", "report"} => seen[w] <= broken

Sessions == /\ Rows /\ broken \in 0..MaxBroken
            /\ \A w \in Workspaces : Asks(w) /\ Sweeps(w)

LEMMA SessionsInit == Init => Sessions
<1> SUFFICES ASSUME Init PROVE Sessions
  OBVIOUS
<1>1. Rows /\ broken \in 0..MaxBroken
  BY AgreementInit DEF Init, Agreement
<1>2. ASSUME NEW w \in Workspaces PROVE Asks(w) /\ Sweeps(w)
  <2>1. (w \notin account <=> w \in Leftover) /\ (dir[w] <=> w \in Leftover) /\ (asked[w] <=> w \in Leftover)
    BY DEF Init
  <2>2. row[w] = "absent" /\ cleanup = {} /\ todo = {} /\ pc = "idle" /\ seen[w] = 0 /\ broken = 0
    BY DEF Init
  <2> QED  BY <2>1, <2>2 DEF Asks, Sweeps, Wanted
<1> QED  BY <1>1, <1>2 DEF Sessions

LEMMA UserSessions == ASSUME Sessions, TypeOK, User, NEW v \in Workspaces PROVE (Asks(v) /\ Sweeps(v))'
<1>0. Asks(v) /\ Sweeps(v) /\ Rows
  BY DEF Sessions
<1>1. ASSUME NEW w \in Workspaces, NEW desired \in {"running", "stopped"}, w \in account,
             row' = [row EXCEPT ![w] = desired], UNCHANGED <<account, cleanup, host, cycle, asked, broken>>
      PROVE  (Asks(v) /\ Sweeps(v))'
  <2>1. (v # w => row'[v] = row[v]) /\ row'[w] = desired
    BY <1>1 DEF TypeOK
  <2> QED  BY <1>0, <1>1, <2>1 DEF Asks, Sweeps, Rows, Wanted, host, cycle
<1>2. ASSUME UNCHANGED <<account, row, cleanup, host, cycle, asked, broken>> PROVE (Asks(v) /\ Sweeps(v))'
  BY <1>0, <1>2 DEF Asks, Sweeps, Wanted, host, cycle
<1>3. ASSUME NEW w \in Workspaces, Count(w) PROVE (Asks(v) /\ Sweeps(v))'
  <2>1. CASE Cardinality(Active) >= Cap /\ row[w] \in {"absent", "stopped"}
    BY <1>1, <1>3, <2>1 DEF Count, RowFor, Request
  <2>2. CASE Cardinality(Active) >= Cap /\ row[w] \notin {"absent", "stopped"}
    <3>1. row' = row
      BY <1>3, <2>2 DEF Count, RowFor, TypeOK
    <3> QED  BY <1>2, <1>3, <3>1 DEF Count, Request
  <2>3. CASE ~(Cardinality(Active) >= Cap)
    BY <1>2, <1>3, <2>3 DEF Count, Request
  <2> QED  BY <2>1, <2>2, <2>3
<1>4. ASSUME NEW w \in Workspaces, Connect(w) PROVE (Asks(v) /\ Sweeps(v))'
  BY <1>0, <1>1, <1>4 DEF Connect, RowFor, Rows, bounds
<1>5. ASSUME NEW w \in Workspaces, NEW remove \in BOOLEAN, Stop(w, remove)
      PROVE  (Asks(v) /\ Sweeps(v))'
  <2>1. CASE remove
    <3>1. /\ row' = [row EXCEPT ![w] = "deleted"]
          /\ (v # w => asked'[v] = asked[v]) /\ asked'[w]
      BY <1>5, <2>1 DEF Stop, TypeOK
    <3>2. (v # w => row'[v] = row[v]) /\ row'[w] = "deleted"
      BY <3>1 DEF TypeOK
    <3>3. UNCHANGED <<account, cleanup, host, cycle, broken>>
      BY <1>5 DEF Stop, Request
    <3> QED  BY <1>0, <3>1, <3>2, <3>3 DEF Asks, Sweeps, Wanted, host, cycle
  <2>2. CASE ~remove
    <3>1. row' = [row EXCEPT ![w] = "stopped"] /\ asked' = asked /\ w \in account
      BY <1>0, <1>5, <2>2 DEF Stop, TypeOK, Rows
    <3> QED  BY <1>1, <1>5, <3>1 DEF Stop, Request
  <2> QED  BY <2>1, <2>2
<1>6. ASSUME NEW w \in Workspaces, DeleteAccount(w) PROVE (Asks(v) /\ Sweeps(v))'
  <2>1. /\ (v # w => asked'[v] = asked[v] /\ row'[v] = row[v] /\ (v \in cleanup' <=> v \in cleanup))
        /\ asked'[w] /\ account' = account \ {w}
    BY <1>6 DEF DeleteAccount, TypeOK
  <2>2. UNCHANGED <<host, cycle, broken>>
    BY <1>6 DEF DeleteAccount, Request
  <2> QED  BY <1>0, <2>1, <2>2 DEF Asks, Sweeps, Wanted, host, cycle
<1> QED  BY <1>3, <1>4, <1>5, <1>6 DEF User

\* What a report removes, its user asked to be removed.
LEMMA RemovedAsked ==
  ASSUME Sessions, TypeOK, NEW w \in Workspaces, Removed(w), asked' = asked, UNCHANGED <<dir, listing, todo>>,
         NEW v \in Workspaces
  PROVE  Asks(v)' /\ account' = account
<1>1. /\ account' = account /\ cleanup' = cleanup \ {w} /\ (v # w => row'[v] = row[v])
      /\ row'[w] = row[w] \/ (row[w] = "deleted" /\ row'[w] = "absent")
  <2>1. row' = [row EXCEPT ![w] = IF w \notin cleanup /\ row[w] = "deleted" THEN "absent" ELSE row[w]]
    BY DEF Removed
  <2> QED  BY <2>1 DEF Removed, TypeOK
<1>2. Asks(v) /\ (w \in cleanup => w \notin account)
  BY DEF Sessions, Rows
<1> QED  BY <1>1, <1>2 DEF Asks, Wanted, Sessions, Rows

LEMMA WorksSessions ==
  ASSUME Sessions, TypeOK, MaxBroken <= 2, Works, NEW v \in Workspaces
  PROVE  (Asks(v) /\ Sweeps(v))' /\ (dir[v] /\ ~dir'[v] => asked[v])
<1>0. Asks(v) /\ Sweeps(v) /\ Rows /\ broken \in Nat /\ broken <= 2 /\ seen[v] \in Nat
  BY DEF Sessions, TypeOK
<1>1. CASE Fetch
  <2>1. /\ listing'[v] = <<Wanted(v), key[v], "current">> /\ (v \in todo' => Wanted(v) # "absent")
        /\ pc = "idle" /\ pc' = "rows" /\ populated' = (account # {})
        /\ UNCHANGED <<web, host, seen, asked, broken>>
    BY <1>1 DEF Fetch, Listed, bounds
  <2>2. listing'[v][1] = Wanted(v)
    BY <2>1
  <2> QED  BY <1>0, <2>1, <2>2 DEF Asks, Sweeps, Wanted, host, web
<1>2. ASSUME NEW w \in Workspaces, EnsureRunning(w) PROVE (Asks(v) /\ Sweeps(v))' /\ (dir[v] => dir'[v])
  <2>1. /\ Prepared(w) /\ w \in todo /\ todo' = todo \ {w} /\ listing[w][1] = "running" /\ pc = "rows"
        /\ UNCHANGED <<web, pc, listing, populated, seen, broken>>
    BY <1>2 DEF EnsureRunning, Row, bounds
  <2>2. (v # w => dir'[v] = dir[v] /\ asked'[v] = asked[v]) /\ dir'[w]
    BY <2>1 DEF Prepared, TypeOK
  <2>3. asked'[w] <=> asked[w] /\ (dir[w] \/ row[w] # "running")
    BY <2>1 DEF Prepared, TypeOK
  <2> QED  BY <1>0, <2>1, <2>2, <2>3 DEF Asks, Sweeps, Wanted, Rows, web
<1>3. ASSUME NEW w \in Workspaces, StopRow(w) PROVE (Asks(v) /\ Sweeps(v))' /\ dir' = dir
  BY <1>0, <1>3 DEF StopRow, Row, Asks, Sweeps, Wanted, web, bounds
<1>4. ASSUME NEW w \in Workspaces, DeleteRow(w)
      PROVE  (Asks(v) /\ Sweeps(v))' /\ (dir[v] /\ ~dir'[v] => asked[v])
  <2>1. /\ w \in todo /\ todo' = todo \ {w} /\ listing[w][1] = "deleted" /\ pc = "rows" /\ pc' = "report"
        /\ UNCHANGED <<web, listing, populated, seen, asked, broken>>
        /\ dir' = [dir EXCEPT ![w] = FALSE]
    BY <1>4 DEF DeleteRow, Delete, Row, bounds
  <2>2. (v # w => dir'[v] = dir[v]) /\ ~dir'[w]
    BY <2>1 DEF TypeOK
  <2> QED  BY <1>0, <2>1, <2>2 DEF Asks, Sweeps, Wanted, web
<1>5. ASSUME NEW w \in Workspaces, Report(w) PROVE (Asks(v) /\ Sweeps(v))' /\ dir' = dir
  <2>1. /\ Removed(w) /\ pc = "report" /\ pc' = "rows"
        /\ UNCHANGED <<host, listing, populated, todo, seen, asked, broken>>
    BY <1>5 DEF Report, Reported, bounds
  <2>2. Asks(v)' /\ account' = account
    BY <2>1, RemovedAsked DEF host
  <2> QED  BY <1>0, <2>1, <2>2 DEF Sweeps, host
<1>6. CASE CountOrphans
  <2>1. /\ pc = "rows" /\ UNCHANGED <<web, host, listing, populated, todo, asked, broken>>
        /\ \/ ~populated /\ pc' = "idle" /\ seen' = seen
           \/ populated /\ pc' = "orphans"
              /\ seen' = [w \in Workspaces |-> IF w \in Orphans THEN Min({seen[w] + 1, 3}) ELSE 0]
    BY <1>6 DEF CountOrphans, bounds
  <2>2. Asks(v)' /\ dir' = dir
    BY <1>0, <2>1 DEF Asks, Wanted, web, host
  <2>3. CASE ~populated /\ pc' = "idle" /\ seen' = seen
    <3>1. v \notin account => asked[v]
      BY <1>0 DEF Asks
    <3> QED  BY <1>0, <2>1, <2>2, <2>3, <3>1 DEF Sweeps, host
  <2>4. CASE populated /\ pc' = "orphans" /\ seen' = [w \in Workspaces |-> IF w \in Orphans THEN Min({seen[w] + 1, 3}) ELSE 0]
    <3>1. seen'[v] = IF v \in Orphans THEN Min({seen[v] + 1, 3}) ELSE 0
      BY <2>4
    <3>2. Min({seen[v] + 1, 3}) <= seen[v] + 1 /\ Min({seen[v] + 1, 3}) \in Nat
      <4>1. \E x \in {seen[v] + 1, 3} : \A y \in {seen[v] + 1, 3} : x <= y
        BY <1>0
      <4>2. /\ Min({seen[v] + 1, 3}) \in {seen[v] + 1, 3}
            /\ \A y \in {seen[v] + 1, 3} : Min({seen[v] + 1, 3}) <= y
        BY <4>1 DEF Min
      <4> QED  BY <1>0, <4>2
    <3>3. dir[v] /\ ~asked[v] => seen'[v] <= broken
      <4>1. CASE v \in Orphans
        <5>1. dir[v] /\ ~asked[v] => seen[v] < broken
          BY <1>0, <2>1, <4>1 DEF Orphans, Sweeps
        <5> QED  BY <1>0, <3>1, <3>2, <4>1, <5>1
      <4>2. CASE v \notin Orphans
        BY <1>0, <3>1, <4>2
      <4> QED  BY <4>1, <4>2
    <3> QED  BY <2>1, <2>2, <2>4, <3>3 DEF Sweeps
  <2> QED  BY <2>1, <2>2, <2>3, <2>4
<1>7. ASSUME NEW w \in Workspaces, DeleteOrphan(w)
      PROVE  (Asks(v) /\ Sweeps(v))' /\ (dir[v] /\ ~dir'[v] => asked[v])
  <2>1. /\ pc = "orphans" /\ seen[w] >= 3 /\ UNCHANGED <<web, pc, listing, populated, todo, asked, broken>>
        /\ dir' = [dir EXCEPT ![w] = FALSE] /\ seen' = [seen EXCEPT ![w] = 0]
    BY <1>7 DEF DeleteOrphan, Delete, Doomed, bounds
  <2>2. (v # w => dir'[v] = dir[v] /\ seen'[v] = seen[v]) /\ ~dir'[w]
    BY <2>1 DEF TypeOK
  <2>3. v = w /\ dir[v] => asked[v]
    BY <1>0, <2>1 DEF Sweeps
  <2> QED  BY <1>0, <2>1, <2>2, <2>3 DEF Asks, Sweeps, Wanted, web
<1>8. CASE EndCycle
  <2>1. /\ UNCHANGED <<web, host, populated, todo, seen, asked, broken>> /\ listing'[v][1] = "absent"
        /\ pc = "orphans" /\ pc' = "idle"
    BY <1>8 DEF EndCycle, Nothing, Fault, bounds
  <2> QED  BY <1>0, <2>1 DEF Asks, Sweeps, Wanted, web, host
<1> QED  BY <1>1, <1>2, <1>3, <1>4, <1>5, <1>6, <1>7, <1>8 DEF Works, host

LEMMA AmissSessions ==
  ASSUME Sessions, TypeOK, Amiss, NEW v \in Workspaces
  PROVE  (Asks(v) /\ Sweeps(v))' /\ broken' \in 0..MaxBroken /\ (dir[v] => dir'[v])
<1>0. Asks(v) /\ Sweeps(v) /\ Rows /\ broken \in 0..MaxBroken /\ seen[v] \in Nat
  BY DEF Sessions, TypeOK
<1>1. CASE FetchEmpty
  <2>1. /\ pc = "idle" /\ pc' = "rows" /\ broken' = broken + 1 /\ broken < MaxBroken
        /\ listing'[v][1] = "absent" /\ todo' = {} /\ UNCHANGED <<web, host, seen, asked>>
    BY <1>1 DEF FetchEmpty, Nothing
  <2> QED  BY <1>0, <2>1 DEF Asks, Sweeps, Wanted, web, host
<1>2. CASE ReportLost
  BY <1>0, <1>2 DEF ReportLost, Reported, Fault, Asks, Sweeps, Wanted, web, host
<1>3. CASE Restart
  BY <1>0, <1>3 DEF Restart, Fault, Nothing, Asks, Sweeps, Wanted, web, host
<1>4. ASSUME NEW w \in Workspaces, EnsureFails(w)
      PROVE  (Asks(v) /\ Sweeps(v))' /\ broken' = broken /\ (dir[v] => dir'[v])
  <2>1. /\ Prepared(w) /\ w \in todo /\ todo' = todo \ {w} /\ listing[w][1] = "running" /\ pc = "rows"
        /\ UNCHANGED <<web, pc, listing, populated, seen, broken>>
    BY <1>4 DEF EnsureFails, Row, Fault
  <2>2. (v # w => dir'[v] = dir[v] /\ asked'[v] = asked[v]) /\ dir'[w]
    BY <2>1 DEF Prepared, TypeOK
  <2>3. asked'[w] <=> asked[w] /\ (dir[w] \/ row[w] # "running")
    BY <2>1 DEF Prepared, TypeOK
  <2> QED  BY <1>0, <2>1, <2>2, <2>3 DEF Asks, Sweeps, Wanted, Rows, web
<1>5. ASSUME NEW w \in Workspaces, DeleteFails(w) PROVE (Asks(v) /\ Sweeps(v))' /\ UNCHANGED <<broken, dir>>
  BY <1>0, <1>5 DEF DeleteFails, Row, Fault, Asks, Sweeps, Wanted, web
<1>6. ASSUME NEW w \in Workspaces, Exit(w) PROVE (Asks(v) /\ Sweeps(v))' /\ UNCHANGED <<broken, dir>>
  BY <1>0, <1>6 DEF Exit, Fault, Asks, Sweeps, Wanted, web, cycle
<1> QED  BY <1>0, <1>1, <1>2, <1>3, <1>4, <1>5, <1>6 DEF Amiss, ReportLost, Restart, FetchEmpty, Fault, host

LEMMA SessionsNext ==
  ASSUME Sessions, TypeOK, MaxBroken <= 2, [Next]_vars
  PROVE  Sessions' /\ \A v \in Workspaces : dir[v] /\ ~dir'[v] => asked[v]
<1>0. Rows'
  BY RowsNext DEF Sessions
<1>1. broken' \in 0..MaxBroken
  <2>1. CASE Amiss
    BY <2>1 DEF Amiss, FetchEmpty, ReportLost, Restart, EnsureFails, DeleteFails, Exit, Fault, Sessions
  <2>2. CASE User \/ Release \/ Works \/ UNCHANGED vars \/ \E w \in Workspaces : LateReport(w)
    BY <2>2 DEF User, Count, Connect, DeleteAccount, Stop, Release, Request, Works, Fetch, EnsureRunning,
                StopRow, DeleteRow, Report, CountOrphans, DeleteOrphan, EndCycle, Fault, LateReport,
                vars, bounds, Sessions
  <2> QED  BY <2>1, <2>2 DEF Next
<1>2. SUFFICES ASSUME NEW v \in Workspaces
               PROVE  (Asks(v) /\ Sweeps(v))' /\ (dir[v] /\ ~dir'[v] => asked[v])
  BY <1>0, <1>1 DEF Sessions
<1>3. Asks(v) /\ Sweeps(v)
  BY DEF Sessions
<1>4. CASE User
  BY <1>4, UserSessions DEF User, Count, Connect, DeleteAccount, Stop, host
<1>5. CASE Release
  <2>1. listing'[v][1] = listing[v][1]
    BY <1>5, Relisted
  <2> QED  BY <1>3, <1>5, <2>1 DEF Release, Request, Asks, Sweeps, Wanted, web
<1>6. ASSUME NEW w \in Workspaces, LateReport(w) PROVE (Asks(v) /\ Sweeps(v))' /\ dir' = dir
  <2>1. Removed(w) /\ UNCHANGED <<host, cycle, asked, broken>>
    BY <1>6 DEF LateReport, bounds
  <2>2. Asks(v)' /\ account' = account
    BY <2>1, RemovedAsked DEF host, cycle
  <2> QED  BY <1>3, <2>1, <2>2 DEF Sweeps, host, cycle
<1>7. CASE UNCHANGED vars
  BY <1>3, <1>7 DEF vars, Asks, Sweeps, Wanted, web, host, cycle, bounds
<1> QED  BY <1>4, <1>5, <1>6, <1>7, WorksSessions, AmissSessions DEF Next

\* No session is deleted that its user did not ask to be removed since it
\* began, whatever lists the provisioner fetched and whatever it still had to
\* do, as long as fewer of them are wrong than the sweep of orphans waits for.
THEOREM SessionsSafe == ASSUME MaxBroken <= 2 PROVE Spec => SessionSafe
<1>1. Sessions /\ TypeOK /\ [Next]_vars => Sessions'
  BY SessionsNext
<1>2. Sessions /\ TypeOK /\ [Next]_vars
        => [\A w \in Workspaces : dir[w] /\ ~dir'[w] => asked[w]]_vars
  BY SessionsNext
<1> QED  BY <1>1, <1>2, TypeCorrect, SessionsInit, PTL DEF Spec, SessionSafe
=============================================================================
