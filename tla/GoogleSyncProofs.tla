-------------------------- MODULE GoogleSyncProofs --------------------------
(* Theorems about GoogleSync, for every mailbox, page size and bound.       *)
EXTENDS GoogleSync, TLAPS, FiniteSetTheorems, SequenceTheorems,
        WellFoundedInduction

-----------------------------------------------------------------------------
(* What an import lists *)

\* A set of numbers that is not empty has a least element.
LEMMA LeastExists ==
  ASSUME NEW S \in SUBSET Nat, S # {}
  PROVE  \E m \in S : \A k \in S : m <= k
<1>1. PICK m \in S : \A k \in S : ~(<<k, m>> \in OpToRel(<, Nat))
  BY NatLessThanWellFounded, WFMin
<1>2. \A k \in S : ~(k < m)
  BY <1>1 DEF OpToRel
<1> QED
  BY <1>2

LEMMA OldestIsListed ==
  ASSUME NEW S \in SUBSET Nat, S # {}
  PROVE  Oldest(S) \in S /\ \A k \in S : Oldest(S) <= k
BY LeastExists DEF Oldest

\* A finite one has a greatest.
LEMMA GreatestExists ==
  ASSUME NEW S \in SUBSET Nat, IsFiniteSet(S), S # {}
  PROVE  \E m \in S : \A k \in S : k <= m
<1> DEFINE above(m) == {k \in S : k > m}
           sizes    == {Cardinality(above(m)) : m \in S}
<1>1. \A m \in S : IsFiniteSet(above(m)) /\ Cardinality(above(m)) \in Nat
  BY FS_Subset, FS_CardinalityType
<1>2. PICK n \in sizes : \A k \in sizes : n <= k
  <2>1. sizes \subseteq Nat /\ sizes # {}
    BY <1>1
  <2> HIDE DEF sizes
  <2> QED
    BY <2>1, LeastExists
<1>3. PICK m \in S : n = Cardinality(above(m))
  BY <1>2
<1>4. ASSUME NEW k \in S, k > m PROVE FALSE
  <2>1. above(k) \subseteq above(m) /\ k \in above(m) /\ k \notin above(k)
    <3>1. k \in Nat /\ m \in Nat /\ \A j \in S : j \in Nat
      OBVIOUS
    <3>2. \A j \in S : j > k => j > m
      BY <1>4, <3>1
    <3>3. ~(k > k)
      BY <3>1
    <3> QED
      BY <1>4, <3>2, <3>3
  <2>2. above(k) # above(m)
    BY <2>1
  <2> HIDE DEF above
  <2>3. Cardinality(above(k)) < Cardinality(above(m))
    BY <1>1, <2>1, <2>2, FS_Subset
  <2>4. Cardinality(above(k)) \in sizes
    OBVIOUS
  <2> QED
    BY <1>1, <1>2, <1>3, <2>3, <2>4
<1>5. \A k \in S : k <= m
  <2>1. \A k \in S : k \in Nat /\ m \in Nat
    OBVIOUS
  <2> QED
    BY <1>4, <2>1
<1> QED
  BY <1>5

\* A page of at least one message lists something when there is something.
LEMMA PageIsNotEmpty ==
  ASSUME NEW S \in SUBSET Messages, S # {}, NEW n \in Nat \ {0}
  PROVE  Newest(S, n) # {}
<1>1. IsFiniteSet(S) /\ S \subseteq Nat
  BY GoogleSyncAssumption, FS_Subset
<1>2. PICK m \in S : \A k \in S : k <= m
  BY <1>1, GreatestExists
<1>3. {k \in S : k > m} = {}
  <2>1. \A k \in S : ~(k > m)
    BY <1>1, <1>2
  <2> QED
    BY <2>1
<1>4. Cardinality({k \in S : k > m}) = 0
  BY <1>3, FS_EmptySet
<1> QED
  BY <1>4 DEF Newest

-----------------------------------------------------------------------------
(* Types *)

PageType == [touched : SUBSET Messages, fetch : SUBSET Messages,
             next : Positions, seen : Nat]

RunType == [tok  : BOOLEAN,
            err  : {"none", "auth", "forbidden", "outage"},
            prog : ProgressType,
            page : PageType]

RemoteOK == mailbox \subseteq Messages /\ history \in Seq([id : Messages, in : BOOLEAN])

StreamOK ==
  /\ local \subseteq Messages
  /\ cursor \in Positions /\ progress \in ProgressType /\ truncated \in BOOLEAN

GrantOK ==
  /\ disabled \in BOOLEAN /\ next \in {"none", "later", "due"} /\ keyed \in BOOLEAN
  /\ conn \in {"active", "reconnect_required", "disconnected"}
  /\ scoped \in BOOLEAN
  /\ refresh \in {"none", "valid", "dead"}
  /\ access \in {"none", "fresh", "old", "void"}

QueueOK ==
  /\ job \in {"none", "queued", "running"} /\ attempts \in Nat
  /\ pc \in {"idle", "start", "token", "read", "profile", "begin", "list", "import",
             "imported", "done", "history", "apply", "applied", "finish", "failing", "close"}
  /\ requests \in Nat /\ faults \in Nat

RunOK == run \in RunType

LEMMA TypeParts == TypeOK <=> RemoteOK /\ StreamOK /\ GrantOK /\ QueueOK /\ RunOK
BY DEF TypeOK, RemoteOK, StreamOK, GrantOK, QueueOK, RunOK, RunType, PageType

\* The fields a step may change.
LEMMA RunFields ==
  ASSUME NEW r \in RunType
  PROVE  /\ \A b \in BOOLEAN : [r EXCEPT !.tok = b] \in RunType
         /\ \A e \in {"none", "auth", "forbidden", "outage"} : [r EXCEPT !.err = e] \in RunType
         /\ \A q \in ProgressType : [r EXCEPT !.prog = q] \in RunType
         /\ \A q \in PageType : [r EXCEPT !.page = q] \in RunType
         /\ r.prog \in ProgressType /\ r.page \in PageType
BY DEF RunType

LEMMA IdleTyped == Idle \in RunType /\ NoProgress \in ProgressType
BY DEF Idle, NoProgress, NoPage, RunType, PageType, ProgressType, Positions, None

LEMMA TypeInit == Init => TypeOK
<1> SUFFICES ASSUME Init PROVE TypeOK
  OBVIOUS
<1>1. RemoteOK
  BY DEF Init, RemoteOK
<1>2. StreamOK /\ RunOK
  BY IdleTyped DEF Init, StreamOK, RunOK, Positions
<1>3. GrantOK /\ QueueOK
  BY DEF Init, GrantOK, QueueOK
<1> QED
  BY <1>1, <1>2, <1>3, TypeParts

LEMMA RemoteNext == TypeOK /\ [Next]_vars => RemoteOK'
<1> SUFFICES ASSUME RemoteOK, [Next]_vars PROVE RemoteOK'
  BY TypeParts
<1>1. ASSUME NEW m \in Messages, Change(m) PROVE RemoteOK'
  <2>1. mailbox' \subseteq Messages
    BY <1>1 DEF Change, RemoteOK
  <2>2. [id |-> m, in |-> m \notin mailbox] \in [id : Messages, in : BOOLEAN]
    OBVIOUS
  <2>3. history' \in Seq([id : Messages, in : BOOLEAN])
    BY <1>1, <2>2, AppendProperties DEF Change, RemoteOK
  <2> QED
    BY <2>1, <2>3 DEF RemoteOK
<1>2. (\E m \in Messages : Change(m)) \/ UNCHANGED remote
  BY DEF Next, Provider, User, Ask, AskAmiss, Work, vars, BecomeDue, TokenAges, TokenExpires,
         StoreGrant, Disconnect, RevokeAtGoogle, SyncNow, DeleteData, StoredToken, RefreshToken,
         AskProfile, AskList, AskHistory, RefreshFails, AskFails, CursorRefused, Schedule, Claim,
         Start, Read, Stop, Beat, LeaseLost, ApplyBegin, ApplyImport, ListFull, ApplyDone,
         ApplyHistory, Finish, RecordFailure, Close, Fault
<1> QED
  BY <1>1, <1>2 DEF remote, RemoteOK

\* What a page in memory adds to the messages and to the progress.
LEMMA PageApplied ==
  ASSUME TypeOK, NEW found \in Found(run.page.fetch, run.page.seen),
         NEW trashed \in SUBSET (run.page.fetch \ found)
  PROVE  /\ found \subseteq Messages
         /\ [run.prog EXCEPT !.page = run.page.next] \in ProgressType
         /\ [run.prog EXCEPT !.page = run.page.next,
                             !.fetched = @ + Cardinality(found \cup trashed)] \in ProgressType
<1>1. run.prog \in ProgressType /\ run.page \in PageType
  BY TypeParts, RunFields DEF RunOK
<1>2. run.page.next \in Positions /\ run.page.fetch \subseteq Messages /\ run.prog.fetched \in Nat
  BY <1>1 DEF PageType, ProgressType
<1>3. found \subseteq Messages /\ found \cup trashed \subseteq Messages
  BY <1>2 DEF Found
<1>4. Cardinality(found \cup trashed) \in Nat
  BY <1>3, GoogleSyncAssumption, FS_Subset, FS_CardinalityType
<1>5. run.prog.fetched + Cardinality(found \cup trashed) \in Nat
  BY <1>2, <1>4
<1> HIDE DEF Found
<1> QED
  BY <1>1, <1>2, <1>3, <1>5 DEF ProgressType

LEMMA StreamNext == TypeOK /\ [Next]_vars => StreamOK'
<1> SUFFICES ASSUME TypeOK, [Next]_vars PROVE StreamOK'
  OBVIOUS
<1>0. /\ StreamOK
      /\ run.prog \in ProgressType /\ run.page \in PageType
      /\ NoProgress \in ProgressType
      /\ None \in Positions
  BY TypeParts, RunFields, IdleTyped DEF RunOK, Positions
<1>1. CASE DeleteData
  BY <1>0, <1>1 DEF DeleteData, StreamOK
<1>2. CASE ApplyBegin
  BY <1>0, <1>2 DEF ApplyBegin, StreamOK
<1>3. CASE ApplyImport
  <2>0. PICK found \in Found(run.page.fetch, run.page.seen) :
          \E trashed \in SUBSET (run.page.fetch \ found) :
            /\ local' = (local \cup found) \ trashed
            /\ progress' = [run.prog EXCEPT !.page = run.page.next,
                                            !.fetched = @ + Cardinality(found \cup trashed)]
    BY <1>3 DEF ApplyImport
  <2>1. PICK trashed \in SUBSET (run.page.fetch \ found) :
          /\ local' = (local \cup found) \ trashed
          /\ progress' = [run.prog EXCEPT !.page = run.page.next,
                                          !.fetched = @ + Cardinality(found \cup trashed)]
    BY <2>0
  <2>2. found \subseteq Messages /\ progress' \in ProgressType
    BY <2>1, PageApplied
  <2>3. local' \subseteq Messages
    BY <1>0, <2>1, <2>2 DEF StreamOK
  <2>4. UNCHANGED <<cursor, truncated>>
    BY <1>3 DEF ApplyImport
  <2> QED
    BY <1>0, <2>2, <2>3, <2>4 DEF StreamOK
<1>4. CASE ApplyDone
  <2>1. run.prog.start \in Positions
    BY <1>0 DEF ProgressType
  <2> QED
    BY <1>0, <1>4, <2>1 DEF ApplyDone, StreamOK
<1>5. CASE ApplyHistory
  <2>1. PICK found \in Found(run.page.fetch, run.page.seen) :
          local' = (local \ run.page.touched) \cup found
    BY <1>5 DEF ApplyHistory
  <2>2. {} \in SUBSET (run.page.fetch \ found)
    OBVIOUS
  <2>3. found \subseteq Messages /\ [run.prog EXCEPT !.page = run.page.next] \in ProgressType
    BY <2>2, PageApplied
  <2>4. run.page.seen \in Positions
    BY <1>0 DEF PageType, Positions
  <2>5. Advance(run.page, [run.prog EXCEPT !.page = run.page.next])
    BY <1>5 DEF ApplyHistory
  <2>6. cursor' \in Positions /\ progress' \in ProgressType
    BY <1>0, <2>3, <2>4, <2>5 DEF Advance, StreamOK
  <2>7. local' \subseteq Messages
    BY <1>0, <2>1, <2>3 DEF StreamOK
  <2> QED
    BY <1>0, <1>5, <2>6, <2>7 DEF ApplyHistory, StreamOK
<1>6. UNCHANGED <<local, stream>> \/ DeleteData
        \/ ApplyBegin \/ ApplyImport \/ ApplyDone \/ ApplyHistory
  BY DEF Next, Provider, User, Ask, AskAmiss, Work, vars, Change, BecomeDue, TokenAges,
         TokenExpires, StoreGrant, Disconnect, RevokeAtGoogle, SyncNow, StoredToken,
         RefreshToken, AskProfile, AskList, AskHistory, RefreshFails, AskFails, CursorRefused,
         Schedule, Claim, Start, Read, Stop, Beat, LeaseLost, ListFull, Finish, RecordFailure,
         Close, Fault
<1> QED
  BY <1>0, <1>1, <1>2, <1>3, <1>4, <1>5, <1>6 DEF stream, StreamOK

LEMMA GrantNext == TypeOK /\ [Next]_vars => GrantOK'
<1> SUFFICES ASSUME GrantOK, [Next]_vars PROVE GrantOK'
  BY TypeParts
<1> USE DEF GrantOK, poll, grant
<1>1. CASE Provider
  BY <1>1 DEF Provider, Change, BecomeDue, TokenAges, TokenExpires
<1>2. ASSUME NEW scope \in Consents, NEW offline \in BOOLEAN, StoreGrant(scope, offline)
      PROVE  GrantOK'
  BY <1>2, GoogleSyncAssumption DEF StoreGrant
<1>3. CASE Disconnect \/ RevokeAtGoogle \/ SyncNow \/ DeleteData
  BY <1>3 DEF Disconnect, RevokeAtGoogle, SyncNow, DeleteData
<1>4. CASE Ask \/ AskAmiss
  <2>1. ASSUME NEW scope \in Consents, RefreshToken(scope) PROVE GrantOK'
    BY <2>1, GoogleSyncAssumption DEF RefreshToken
  <2> QED
    BY <1>4, <2>1 DEF Ask, AskAmiss, StoredToken, AskProfile, AskList, AskHistory, RefreshFails,
                      AskFails, CursorRefused
<1>5. CASE Schedule \/ Start \/ Finish \/ RecordFailure
  BY <1>5 DEF Schedule, Start, Finish, RecordFailure
<1>6. CASE Claim \/ Read \/ Stop \/ Beat \/ LeaseLost \/ Close \/ Fault
  BY <1>6 DEF Claim, Read, Stop, Beat, LeaseLost, Close, Fault
<1>7. CASE ApplyBegin \/ ApplyImport \/ ListFull \/ ApplyDone \/ ApplyHistory
  BY <1>7 DEF ApplyBegin, ApplyImport, ListFull, ApplyDone, ApplyHistory
<1>8. CASE UNCHANGED vars
  BY <1>8 DEF vars
<1> QED
  BY <1>1, <1>2, <1>3, <1>4, <1>5, <1>6, <1>7, <1>8 DEF Next, User, Work

LEMMA QueueNext == TypeOK /\ [Next]_vars => QueueOK'
<1> SUFFICES ASSUME QueueOK, [Next]_vars PROVE QueueOK'
  BY TypeParts
<1> USE DEF QueueOK, queue, worker, bounds
<1>1. CASE Provider
  BY <1>1 DEF Provider, Change, BecomeDue, TokenAges, TokenExpires
<1>2. CASE User
  BY <1>2 DEF User, StoreGrant, Disconnect, RevokeAtGoogle, SyncNow, DeleteData, Request
<1>3. CASE Ask \/ AskAmiss
  BY <1>3 DEF Ask, AskAmiss, StoredToken, RefreshToken, AskProfile, AskList, AskHistory,
              RefreshFails, AskFails, CursorRefused
<1>4. CASE Schedule \/ Claim \/ Start \/ Fault
  BY <1>4 DEF Schedule, Claim, Start, Fault, Retried
<1>5. CASE Read \/ Stop \/ Beat \/ LeaseLost
  BY <1>5 DEF Read, Stop, Beat, LeaseLost
<1>6. CASE ApplyBegin \/ ApplyImport \/ ListFull \/ ApplyDone \/ ApplyHistory
  BY <1>6 DEF ApplyBegin, ApplyImport, ListFull, ApplyDone, ApplyHistory
<1>7. CASE Finish \/ RecordFailure \/ Close
  BY <1>7 DEF Finish, RecordFailure, Close
<1>8. CASE UNCHANGED vars
  BY <1>8 DEF vars
<1> QED
  BY <1>1, <1>2, <1>3, <1>4, <1>5, <1>6, <1>7, <1>8 DEF Next, Work

\* The pages Google answers with are typed.
LEMMA ListTyped == TypeOK /\ AskList => run'.page \in PageType /\ RunOK'
<1> SUFFICES ASSUME TypeOK, AskList PROVE run'.page \in PageType /\ RunOK'
  OBVIOUS
<1> DEFINE older  == Older(run.prog.page)
           listed == Newest(older, ListSize)
           page   == [touched |-> {}, fetch |-> listed,
                      next |-> IF listed = older THEN None ELSE Oldest(listed),
                      seen |-> Len(history)]
<1>1. run \in RunType /\ history \in Seq([id : Messages, in : BOOLEAN]) /\ mailbox \subseteq Messages
  BY TypeParts DEF RunOK, RemoteOK
<1>2. older \subseteq Messages /\ listed \subseteq older
  BY <1>1 DEF Older, Newest
<1>3. ListSize \in Nat \ {0}
  <2>1. run.prog.fetched \in Nat
    BY <1>1 DEF RunType, ProgressType
  <2> QED
    BY <2>1, GoogleSyncAssumption DEF ListSize, Remaining, AskList
<1>4. listed # older => Oldest(listed) \in Nat
  <2> SUFFICES ASSUME listed # older PROVE Oldest(listed) \in Nat
    OBVIOUS
  <2>1. older # {}
    BY <1>2
  <2>2. listed # {} /\ listed \subseteq Nat
    BY <1>2, <1>3, <2>1, PageIsNotEmpty, GoogleSyncAssumption
  <2> HIDE DEF listed
  <2> QED
    BY <2>2, OldestIsListed
<1>5. run' = [run EXCEPT !.page = page]
  BY DEF AskList
<1>6. Len(history) \in Nat
  BY <1>1, LenProperties
<1> HIDE DEF listed, older
<1>7. page \in PageType
  BY <1>2, <1>4, <1>6 DEF PageType, Positions
<1> HIDE DEF page
<1>8. run' \in RunType
  BY <1>1, <1>5, <1>7, RunFields
<1> QED
  BY <1>8, RunFields DEF RunOK

\* A run that reads the history knows from where: a record before the first
\* would have no type.
HistoryStarts == pc \in {"history", "apply", "applied"} => run.prog.start \in Nat

TypeInv == TypeOK /\ HistoryStarts

LEMMA HistoryTyped == TypeInv /\ AskHistory => RunOK' /\ run'.prog = run.prog
<1> SUFFICES ASSUME TypeInv, AskHistory PROVE RunOK' /\ run'.prog = run.prog
  OBVIOUS
<1> DEFINE from == IF run.prog.page = None THEN run.prog.start ELSE run.prog.page
           upto == Upto(from)
           page == [touched |-> Touched(from, upto), fetch |-> Came(from, upto),
                    next |-> IF upto < Len(history) THEN upto ELSE None,
                    seen |-> Len(history)]
<1>1. /\ run \in RunType /\ history \in Seq([id : Messages, in : BOOLEAN])
      /\ Len(history) \in Nat /\ PageSize \in Nat \ {0}
  BY TypeParts, LenProperties, GoogleSyncAssumption DEF TypeInv, RunOK, RemoteOK
<1>2. from \in Nat
  BY <1>1 DEF TypeInv, HistoryStarts, AskHistory, RunType, ProgressType, Positions, None
<1>3. upto \in Nat /\ upto <= Len(history)
  BY <1>1, <1>2 DEF Upto
<1>4. run' = [run EXCEPT !.page = page]
  BY DEF AskHistory
<1> HIDE DEF from, upto
<1>5. Touched(from, upto) \subseteq Messages
  <2>1. ASSUME NEW i \in (from + 1)..upto PROVE history[i].id \in Messages
    <3>1. i \in 1..Len(history)
      BY <1>1, <1>2, <1>3
    <3>2. history[i] \in [id : Messages, in : BOOLEAN]
      BY <1>1, <3>1, ElementOfSeq
    <3> QED
      BY <3>2
  <2> QED
    BY <2>1 DEF Touched
<1>6. Came(from, upto) \subseteq Messages
  BY <1>5 DEF Came
<1>7. page \in PageType
  BY <1>1, <1>3, <1>5, <1>6 DEF PageType, Positions
<1> HIDE DEF page
<1> QED
  BY <1>1, <1>4, <1>7, RunFields DEF RunOK, RunType

LEMMA RunNext == TypeInv /\ [Next]_vars => RunOK'
<1> SUFFICES ASSUME TypeInv, [Next]_vars PROVE RunOK'
  OBVIOUS
<1>0. /\ TypeOK /\ run \in RunType
      /\ progress \in ProgressType /\ cursor \in Positions
      /\ Idle \in RunType
  BY TypeParts, IdleTyped DEF TypeInv, StreamOK, RunOK
<1> USE DEF RunOK
<1>1. CASE TokenExpires \/ RevokeAtGoogle \/ Disconnect \/ StoredToken
  <2>1. \E b \in BOOLEAN : run' = [run EXCEPT !.tok = b]
    <3>1. run.tok \in BOOLEAN
      BY <1>0 DEF RunType
    <3> QED
      BY <1>1, <3>1 DEF TokenExpires, RevokeAtGoogle, Disconnect, StoredToken
  <2> QED
    BY <1>0, <2>1, RunFields
<1>2. ASSUME NEW scope \in Consents, RefreshToken(scope) PROVE RunOK'
  BY <1>0, <1>2, RunFields DEF RefreshToken
<1>3. ASSUME NEW err \in {"auth", "forbidden", "outage"}, RefreshFails(err) \/ AskFails(err)
      PROVE  RunOK'
  BY <1>0, <1>3, RunFields DEF RefreshFails, AskFails
<1>4. CASE Read
  <2>1. HistoryProgress \in ProgressType
    BY <1>0 DEF HistoryProgress, ProgressType, Positions
  <2>2. \/ run' = run
        \/ run' = [run EXCEPT !.prog = progress]
        \/ run' = [run EXCEPT !.prog = HistoryProgress]
    BY <1>4 DEF Read
  <2> QED
    BY <1>0, <2>1, <2>2, RunFields
<1>5. CASE AskProfile
  <2> DEFINE prog == [phase |-> "initial", start |-> Len(history), page |-> None, fetched |-> 0]
  <2>1. Len(history) \in Nat
    BY <1>0, TypeParts, LenProperties DEF RemoteOK
  <2>2. prog \in ProgressType
    BY <2>1 DEF ProgressType, Positions
  <2>3. run' = [run EXCEPT !.prog = prog]
    BY <1>5 DEF AskProfile
  <2> HIDE DEF prog
  <2> QED
    BY <1>0, <2>2, <2>3, RunFields
<1>6. CASE AskList
  BY <1>0, <1>6, ListTyped
<1>7. CASE AskHistory
  BY <1>7, HistoryTyped
<1>8. CASE ListFull
  <2>1. run' = [run EXCEPT !.page = [@ EXCEPT !.next = run.prog.page]]
    BY <1>8 DEF ListFull
  <2>2. [run.page EXCEPT !.next = run.prog.page] \in PageType
    BY <1>0 DEF RunType, PageType, ProgressType
  <2> QED
    BY <1>0, <2>1, <2>2, RunFields
<1>9. CASE ApplyImport
  <2>0. PICK found \in Found(run.page.fetch, run.page.seen) :
          \E trashed \in SUBSET (run.page.fetch \ found) :
            run' = [run EXCEPT !.prog =
                      [run.prog EXCEPT !.page = run.page.next,
                                       !.fetched = @ + Cardinality(found \cup trashed)]]
    BY <1>9 DEF ApplyImport
  <2>1. PICK trashed \in SUBSET (run.page.fetch \ found) :
          run' = [run EXCEPT !.prog =
                    [run.prog EXCEPT !.page = run.page.next,
                                     !.fetched = @ + Cardinality(found \cup trashed)]]
    BY <2>0
  <2> QED
    BY <1>0, <2>1, PageApplied, RunFields
<1>10. CASE ApplyHistory
  <2>1. PICK found \in Found(run.page.fetch, run.page.seen) :
          run' = [run EXCEPT !.prog = [run.prog EXCEPT !.page = run.page.next]]
    BY <1>10 DEF ApplyHistory
  <2>2. {} \in SUBSET (run.page.fetch \ found)
    OBVIOUS
  <2> QED
    BY <1>0, <2>1, <2>2, PageApplied, RunFields
<1>11. CASE run' \in {run, Idle}
  BY <1>0, <1>11
<1>12. \/ TokenExpires \/ RevokeAtGoogle \/ Disconnect \/ StoredToken
       \/ \E scope \in Consents : RefreshToken(scope)
       \/ \E err \in {"auth", "forbidden", "outage"} : RefreshFails(err) \/ AskFails(err)
       \/ Read \/ AskProfile \/ AskList \/ AskHistory \/ ListFull \/ ApplyImport \/ ApplyHistory
       \/ run' \in {run, Idle}
  BY DEF Next, Provider, User, Ask, AskAmiss, Work, vars, worker, Change, BecomeDue, TokenAges,
         StoreGrant, SyncNow, DeleteData, CursorRefused, Schedule, Claim, Start, Stop, Beat,
         LeaseLost, ApplyBegin, ApplyDone, Finish, RecordFailure, Close, Fault
<1> QED
  BY <1>1, <1>2, <1>3, <1>4, <1>5, <1>6, <1>7, <1>8, <1>9, <1>10, <1>11, <1>12

LEMMA StartsNext == TypeInv /\ [Next]_vars => HistoryStarts'
<1> SUFFICES ASSUME TypeInv, [Next]_vars PROVE HistoryStarts'
  OBVIOUS
<1>0. cursor \in Positions /\ run \in RunType
  BY TypeParts DEF TypeInv, StreamOK, RunOK
<1> USE DEF TypeInv, HistoryStarts
<1>1. CASE Read
  <2>1. run'.prog = progress \/ run'.prog = HistoryProgress \/ pc' # "history"
    BY <1>0, <1>1 DEF Read, RunType
  <2>2. pc' = "history" => cursor # None /\ run'.prog = HistoryProgress
    BY <1>0, <1>1 DEF Read, RunType
  <2>3. pc' \in {"list", "history", "profile"}
    BY <1>1 DEF Read
  <2> QED
    BY <1>0, <2>2, <2>3 DEF HistoryProgress, Positions
<1>2. CASE AskHistory
  BY <1>2, HistoryTyped DEF AskHistory
<1>3. CASE ApplyHistory
  <2>1. run'.prog.start = run.prog.start
    BY <1>0, <1>3 DEF ApplyHistory, RunType, ProgressType
  <2> QED
    BY <1>3, <2>1 DEF ApplyHistory
<1>4. CASE TokenExpires \/ RevokeAtGoogle \/ Disconnect
  <2>1. run'.prog = run.prog /\ pc' = pc
    BY <1>0, <1>4 DEF TokenExpires, RevokeAtGoogle, Disconnect, RunType
  <2> QED
    BY <2>1
<1>5. CASE Beat
  BY <1>5 DEF Beat
<1>6. \/ pc' \notin {"history", "apply", "applied"}
      \/ UNCHANGED worker
      \/ Read \/ AskHistory \/ ApplyHistory \/ TokenExpires \/ RevokeAtGoogle \/ Disconnect \/ Beat
  BY DEF Next, Provider, User, Ask, AskAmiss, Work, vars, worker, Change, BecomeDue, TokenAges,
         StoreGrant, SyncNow, DeleteData, StoredToken, RefreshToken, AskProfile, AskList,
         RefreshFails, AskFails, CursorRefused, Schedule, Claim, Start, Stop, LeaseLost,
         ApplyBegin, ApplyImport, ListFull, ApplyDone, Finish, RecordFailure, Close, Fault
<1> QED
  BY <1>1, <1>2, <1>3, <1>4, <1>5, <1>6 DEF worker

LEMMA TypeInvInductive ==
  /\ Init => TypeInv
  /\ TypeInv /\ [Next]_vars => TypeInv'
<1>1. Init => TypeInv
  BY TypeInit DEF Init, TypeInv, HistoryStarts
<1>2. TypeInv /\ [Next]_vars => TypeInv'
  <2> SUFFICES ASSUME TypeInv, [Next]_vars PROVE TypeInv'
    OBVIOUS
  <2>1. TypeOK
    BY DEF TypeInv
  <2>2. RemoteOK' /\ StreamOK' /\ GrantOK' /\ QueueOK' /\ RunOK' /\ HistoryStarts'
    BY <2>1, RemoteNext, StreamNext, GrantNext, QueueNext, RunNext, StartsNext
  <2>3. TypeOK'
    BY <2>2 DEF TypeOK, RemoteOK, StreamOK, GrantOK, QueueOK, RunOK, RunType, PageType
  <2> QED
    BY <2>2, <2>3 DEF TypeInv
<1> QED
  BY <1>1, <1>2

\* The rows, the grant and what a run holds in memory keep their types: a page
\* of an import that ends before the mailbox does has a last message, and a
\* page of history is only read from a position that exists.
THEOREM TypeCorrect == Spec => []TypeOK
<1>1. TypeInv => TypeOK
  BY DEF TypeInv
<1> QED
  BY <1>1, TypeInvInductive, PTL DEF Spec

-----------------------------------------------------------------------------
(* A stream that is on is polled again, while crashes leave a job attempts *)

FewCrashes == MaxFaults < MaxAttempts

JobTyped ==
  /\ job \in {"none", "queued", "running"}
  /\ attempts \in Nat /\ faults \in 0..MaxFaults
  /\ job = "queued" => pc = "idle"

\* Once the key of a poll is used, its job is live and every attempt of it but
\* the running one has ended in a crash.
KeyServed ==
  Loadable /\ next # "none" /\ keyed =>
    /\ next = "due"
    /\ pc # "close"
    /\ \/ job = "queued" /\ attempts <= faults
       \/ job = "running" /\ pc # "idle" /\ attempts <= faults + 1

PollInv == JobTyped /\ KeyServed

LEMMA PollInit == Init => PollInv
BY GoogleSyncAssumption DEF Init, PollInv, JobTyped, KeyServed

LEMMA PollUser == PollInv /\ User => PollInv'
<1> SUFFICES ASSUME PollInv, User PROVE PollInv'
  OBVIOUS
<1> USE DEF PollInv, JobTyped, KeyServed, Loadable, Request, queue, worker
<1>1. ASSUME NEW scope \in Consents, NEW offline \in BOOLEAN, StoreGrant(scope, offline)
      PROVE  PollInv'
  <2>1. UNCHANGED <<job, attempts, faults, pc>>
    BY <1>1 DEF StoreGrant
  <2>2. JobTyped'
    BY <2>1
  <2>3. ~(Loadable /\ next # "none" /\ keyed)'
    <3>1. scoped' = scope /\ scope \in BOOLEAN
      BY <1>1, GoogleSyncAssumption DEF StoreGrant
    <3>2. CASE scope /\ conn' = "active"
      BY <1>1, <3>2 DEF StoreGrant
    <3>3. CASE ~(scope /\ conn' = "active")
      BY <3>1, <3>3
    <3> QED BY <3>2, <3>3
  <2> QED BY <2>2, <2>3
<1>2. CASE Disconnect
  BY <1>2 DEF Disconnect
<1>3. CASE RevokeAtGoogle
  BY <1>3 DEF RevokeAtGoogle, poll
<1>4. CASE SyncNow
  BY <1>4 DEF SyncNow, grant
<1>5. CASE DeleteData
  BY <1>5 DEF DeleteData, grant
<1> QED
  BY <1>1, <1>2, <1>3, <1>4, <1>5 DEF User

LEMMA PollAsk == PollInv /\ (Ask \/ AskAmiss) => PollInv'
<1> SUFFICES ASSUME PollInv, Ask \/ AskAmiss PROVE PollInv'
  OBVIOUS
<1> USE DEF PollInv, JobTyped, KeyServed, Loadable, poll, grant, queue, bounds
<1>1. CASE StoredToken
  BY <1>1 DEF StoredToken
<1>2. ASSUME NEW scope \in Consents, RefreshToken(scope) PROVE PollInv'
  BY <1>2, GoogleSyncAssumption DEF RefreshToken
<1>3. CASE AskProfile \/ AskList \/ AskHistory \/ CursorRefused
  BY <1>3 DEF AskProfile, AskList, AskHistory, CursorRefused
<1>4. ASSUME NEW err, RefreshFails(err) \/ AskFails(err) PROVE PollInv'
  BY <1>4 DEF RefreshFails, AskFails, Asking
<1> QED
  BY <1>1, <1>2, <1>3, <1>4 DEF Ask, AskAmiss

LEMMA PollWork == PollInv /\ Work => PollInv'
<1> SUFFICES ASSUME PollInv, Work PROVE PollInv'
  OBVIOUS
<1> USE DEF PollInv, JobTyped, KeyServed, Loadable, poll, grant, queue, bounds
<1>1. CASE Schedule
  BY <1>1 DEF Schedule, worker
<1>2. CASE Claim
  BY <1>2 DEF Claim
<1>3. CASE Start
  <2>1. CASE Loadable
    BY <1>3, <2>1 DEF Start
  <2>2. CASE ~Loadable
    BY <1>3, <2>2 DEF Start, Retried
  <2> QED BY <2>1, <2>2
<1>4. CASE Read \/ Stop \/ Beat \/ LeaseLost
  BY <1>4 DEF Read, Stop, Beat, LeaseLost
<1>5. CASE ApplyBegin \/ ApplyImport \/ ListFull \/ ApplyDone \/ ApplyHistory
  <2>1. /\ UNCHANGED <<next, keyed, conn, scoped, job, attempts, faults>>
        /\ pc \notin {"idle", "close"} /\ pc' \notin {"idle", "close"}
    <3>1. CASE ApplyBegin   BY <3>1 DEF ApplyBegin
    <3>2. CASE ApplyImport  BY <3>2 DEF ApplyImport
    <3>3. CASE ListFull     BY <3>3 DEF ListFull
    <3>4. CASE ApplyDone    BY <3>4 DEF ApplyDone
    <3>5. CASE ApplyHistory BY <3>5 DEF ApplyHistory
    <3> QED BY <1>5, <3>1, <3>2, <3>3, <3>4, <3>5
  <2> QED BY <2>1
<1>6. CASE Finish
  BY <1>6 DEF Finish
<1>7. CASE RecordFailure
  BY <1>7 DEF RecordFailure
<1>8. CASE Close
  BY <1>8 DEF Close
<1> QED
  BY <1>1, <1>2, <1>3, <1>4, <1>5, <1>6, <1>7, <1>8 DEF Work

\* The only place the bounds matter: a crash that used up the attempts of a job
\* would leave its key behind.
LEMMA PollFault == FewCrashes /\ PollInv /\ Fault => PollInv'
<1> SUFFICES ASSUME FewCrashes, PollInv, Fault PROVE PollInv'
  OBVIOUS
<1> USE GoogleSyncAssumption DEF FewCrashes, PollInv, JobTyped, KeyServed, Loadable,
        poll, grant, Retried, Fault
<1>1. JobTyped'
  OBVIOUS
<1>2. KeyServed'
  OBVIOUS
<1> QED
  BY <1>1, <1>2

LEMMA PollNext == FewCrashes /\ PollInv /\ [Next]_vars => PollInv'
<1> SUFFICES ASSUME FewCrashes, PollInv, [Next]_vars PROVE PollInv'
  OBVIOUS
<1>1. CASE Provider
  <2> USE DEF PollInv, JobTyped, KeyServed, Loadable, poll, grant, queue, worker, bounds
  <2>1. CASE BecomeDue     BY <2>1 DEF BecomeDue
  <2>2. CASE TokenAges     BY <2>2 DEF TokenAges
  <2>3. CASE TokenExpires  BY <2>3 DEF TokenExpires
  <2>4. ASSUME NEW m \in Messages, Change(m) PROVE PollInv'
    <3>1. UNCHANGED <<poll, grant, queue, pc, faults>>
      BY <2>4 DEF Change
    <3> QED BY <3>1
  <2> QED BY <1>1, <2>1, <2>2, <2>3, <2>4 DEF Provider
<1>2. CASE UNCHANGED vars
  BY <1>2 DEF vars, PollInv, JobTyped, KeyServed, Loadable, poll, grant, queue, worker, bounds
<1> QED
  BY <1>1, <1>2, PollUser, PollAsk, PollWork, PollFault DEF Next

\* A stream that is on is polled again, whatever the user, Google and the clock
\* do, unless a job can crash as often as it may be tried (worker/main.py
\* schedule, google_sync.py run and _record_failure).
THEOREM StreamsPolled == ASSUME FewCrashes PROVE Spec => []KeepsPolling
<1>1. PollInv => KeepsPolling
  BY DEF PollInv, KeyServed, KeepsPolling, JobTyped
<1> QED
  BY <1>1, PollInit, PollNext, PTL DEF Spec
-----------------------------------------------------------------------------
(* What a resumed run skips is here, when the imported data is not deleted  *)
(* under it                                                                 *)

\* The last record of a message in the history says whether it is there.
Told ==
  \A i \in 1..Len(history) :
    history[i].id \notin ChangedSince(i) => (history[i].in <=> history[i].id \in mailbox)

\* The messages that have not changed since: they are here as they are there,
\* those there are here, those here are there.
AgreeSince(n) == Agree(Messages \ ChangedSince(n))
All(n)        == \A m \in mailbox \ ChangedSince(n) : m \in local
Pure(n)       == ~HistoryExpires => \A m \in local \ ChangedSince(n) : m \in mailbox

\* What an import has passed is here: down to its page, and when it has been to
\* the end and begins again, everything.
Importing(prog) ==
  /\ prog.start \in 0..Len(history)
  /\ prog.page # None => \A m \in mailbox \ ChangedSince(prog.start) : m >= prog.page => m \in local
  /\ prog.page = None /\ prog.fetched > 0 => All(prog.start)
  /\ Pure(prog.start)

\* A new import has an older cursor beside it only if that one expired.
Renewed(prog) == cursor # None => HistoryExpires /\ cursor <= prog.start

Stored ==
  /\ cursor # None => cursor \in 0..Len(history) /\ AgreeSince(cursor)
  /\ progress.phase = "history" =>
       /\ cursor # None /\ progress.start = cursor
       /\ progress.page \in cursor..Len(history) /\ AgreeSince(progress.page)
  /\ progress.phase = "initial" => Importing(progress) /\ Renewed(progress)
  /\ cursor = None /\ progress.phase = "none" /\ ~HistoryExpires => local = {}

\* A page of the list in memory has the messages between the last page and it.
Listed(page, prog) ==
  /\ page.seen \in prog.start..Len(history)
  /\ \A m \in mailbox \ ChangedSince(page.seen) :
       (prog.page = None \/ m < prog.page) /\ (page.next = None \/ m >= page.next) => m \in page.fetch

From(prog) == IF prog.page = None THEN prog.start ELSE prog.page

\* A page of the history in memory has its records from there to `upto`.
Recorded(page, from, upto) ==
  /\ upto \in from..Len(history) /\ page.seen \in upto..Len(history)
  /\ page.touched = Touched(from, upto) /\ page.fetch = Came(from, upto)
  /\ page.next = None => upto = page.seen
  /\ page.next # None => upto = page.next

HeldImport ==
  /\ pc \in {"profile", "begin"} /\ ~HistoryExpires => local = {} /\ cursor = None
  /\ pc = "begin" => /\ run.prog.phase = "initial" /\ run.prog.page = None /\ run.prog.fetched = 0
                     /\ run.prog.start \in 0..Len(history) /\ Renewed(run.prog)
  /\ pc \in {"list", "import", "imported", "done"} => run.prog = progress /\ progress.phase = "initial"
  /\ pc = "import" => Listed(run.page, run.prog)
  /\ pc \in {"imported", "done"} /\ run.page.next = None => All(progress.start)

HeldHistory ==
  /\ pc \in {"history", "apply"} =>
       /\ cursor # None /\ run.prog.phase = "history" /\ run.prog.start = cursor
       /\ run.prog.page # None => progress.phase = "history" /\ progress.page = run.prog.page
  /\ pc = "apply" => \E upto \in 0..Len(history) : Recorded(run.page, From(run.prog), upto)
  /\ pc = "applied" /\ run.page.next # None => progress.phase = "history" /\ run.prog = progress

Kept == Told /\ Stored /\ HeldImport /\ HeldHistory

LEMMA HistoryParts ==
  ASSUME TypeOK
  PROVE  /\ Len(history) \in Nat
         /\ \A i \in 1..Len(history) : history[i].id \in Messages /\ history[i].in \in BOOLEAN
         /\ mailbox \subseteq Messages /\ local \subseteq Messages /\ Messages \subseteq Nat \ {0}
<1>1. history \in Seq([id : Messages, in : BOOLEAN]) /\ mailbox \subseteq Messages /\ local \subseteq Messages
  BY DEF TypeOK
<1>2. Len(history) \in Nat
  BY <1>1, LenProperties
<1>3. \A i \in 1..Len(history) : history[i] \in [id : Messages, in : BOOLEAN]
  BY <1>1, <1>2, ElementOfSeq
<1>4. \A i \in 1..Len(history) : history[i].id \in Messages /\ history[i].in \in BOOLEAN
  BY <1>3
<1> QED
  BY <1>1, <1>2, <1>4, GoogleSyncAssumption

\* What changed since a later position has changed since an earlier one: the
\* rest is on the pages between them.
LEMMA SinceSplit ==
  ASSUME TypeOK, NEW a \in Nat, NEW b \in Nat, a <= b, b <= Len(history)
  PROVE  ChangedSince(a) = Touched(a, b) \cup ChangedSince(b)
<1>1. Len(history) \in Nat
  BY HistoryParts
<1>2. (a + 1)..Len(history) = (a + 1)..b \cup (b + 1)..Len(history)
  BY <1>1
<1> QED
  BY <1>2 DEF ChangedSince, Touched

LEMMA NothingSinceNow == TypeOK => ChangedSince(Len(history)) = {}
<1> SUFFICES ASSUME TypeOK PROVE ChangedSince(Len(history)) = {}
  OBVIOUS
<1>1. Len(history) \in Nat
  BY HistoryParts
<1>2. (Len(history) + 1)..Len(history) = {}
  BY <1>1
<1> QED
  BY <1>2 DEF ChangedSince

\* A message on a page has a last record there.
LEMMA LastRecord ==
  ASSUME TypeOK, NEW a \in Nat, NEW b \in Nat, b <= Len(history), NEW m \in Touched(a, b)
  PROVE  \E i \in (a + 1)..b : history[i].id = m /\ \A k \in (i + 1)..b : history[k].id # m
<1> DEFINE S == {i \in (a + 1)..b : history[i].id = m}
<1>1. (a + 1)..b \subseteq Nat /\ IsFiniteSet((a + 1)..b)
  BY FS_Interval
<1>2. S # {} /\ S \in SUBSET Nat /\ IsFiniteSet(S)
  BY <1>1, FS_Subset DEF Touched
<1>3. PICK i \in S : \A k \in S : k <= i
  <2> HIDE DEF S
  <2> QED
    BY <1>2, GreatestExists
<1>4. ASSUME NEW k \in (i + 1)..b, history[k].id = m PROVE FALSE
  <2>1. i \in Nat /\ i >= a + 1 /\ k \in (a + 1)..b /\ k > i
    OBVIOUS
  <2> QED
    BY <1>3, <1>4, <2>1
<1> QED
  BY <1>4

-----------------------------------------------------------------------------
(* A change of the mailbox *)

LEMMA HistoryGrows ==
  ASSUME TypeOK, NEW m \in Messages, Change(m)
  PROVE  /\ Len(history') = Len(history) + 1
         /\ \A i \in 1..Len(history) : history'[i] = history[i]
         /\ history'[Len(history) + 1] = [id |-> m, in |-> m \notin mailbox]
         /\ \A n \in 0..Len(history) : ChangedSince(n)' = ChangedSince(n) \cup {m}
         /\ \A k \in Messages : k # m => (k \in mailbox' <=> k \in mailbox)
         /\ m \in mailbox' <=> m \notin mailbox
         /\ UNCHANGED <<local, cursor, progress, truncated, pc, run>>
<1>1. history \in Seq([id : Messages, in : BOOLEAN]) /\ Len(history) \in Nat
  BY HistoryParts DEF TypeOK
<1> DEFINE r == [id |-> m, in |-> m \notin mailbox]
<1>2. history' = Append(history, r) /\ r \in [id : Messages, in : BOOLEAN]
  BY DEF Change
<1> HIDE DEF r
<1>3. /\ Len(history') = Len(history) + 1
      /\ \A i \in 1..Len(history) : history'[i] = history[i]
      /\ history'[Len(history) + 1] = r
  BY <1>1, <1>2, AppendProperties
<1>4. r.id = m
  BY DEF r
<1>5. ASSUME NEW n \in 0..Len(history) PROVE ChangedSince(n)' = ChangedSince(n) \cup {m}
  <2>1. (n + 1)..Len(history') = (n + 1)..Len(history) \cup {Len(history) + 1}
    BY <1>1, <1>3
  <2>2. (n + 1)..Len(history) \subseteq 1..Len(history)
    BY <1>1
  <2>3. ChangedSince(n)' = {history'[i].id : i \in (n + 1)..Len(history')}
    BY DEF ChangedSince
  <2>4. {history'[i].id : i \in (n + 1)..Len(history)} = {history[i].id : i \in (n + 1)..Len(history)}
    BY <1>3, <2>2
  <2>5. {history'[i].id : i \in (n + 1)..Len(history')}
          = {history'[i].id : i \in (n + 1)..Len(history)} \cup {history'[Len(history) + 1].id}
    BY <2>1
  <2> QED
    BY <1>3, <1>4, <2>3, <2>4, <2>5 DEF ChangedSince
<1>6. /\ \A k \in Messages : k # m => (k \in mailbox' <=> k \in mailbox)
      /\ m \in mailbox' <=> m \notin mailbox
      /\ UNCHANGED <<local, cursor, progress, truncated, pc, run>>
  BY DEF Change, stream, worker
<1> QED
  BY <1>3, <1>5, <1>6 DEF r

\* The pages that were read keep their records.
LEMMA PagesKept ==
  ASSUME TypeOK, NEW m \in Messages, Change(m), NEW a \in Nat, NEW b \in Nat, b <= Len(history)
  PROVE  Touched(a, b)' = Touched(a, b) /\ Came(a, b)' = Came(a, b)
<1>1. Len(history) \in Nat /\ \A i \in 1..Len(history) : history'[i] = history[i]
  BY HistoryParts, HistoryGrows
<1>2. (a + 1)..b \subseteq 1..Len(history)
  BY <1>1
<1>3. \A i \in (a + 1)..b : history'[i] = history[i]
  BY <1>1, <1>2
<1>4. Touched(a, b)' = Touched(a, b)
  BY <1>3 DEF Touched
<1> DEFINE says(i, x) == /\ history[i].id = x /\ history[i].in
                         /\ \A k \in (i + 1)..b : history[k].id # x
<1>5. ASSUME NEW x, NEW i \in (a + 1)..b PROVE says(i, x)' <=> says(i, x)
  <2>1. \A k \in (i + 1)..b : history'[k] = history[k]
    <3>1. \A k \in (i + 1)..b : k \in (a + 1)..b
      OBVIOUS
    <3> QED
      BY <1>3, <3>1
  <2>2. history'[i] = history[i]
    BY <1>3
  <2> QED
    BY <2>1, <2>2
<1>6. ASSUME NEW x PROVE x \in Came(a, b)' <=> x \in Came(a, b)
  <2>1. x \in Came(a, b)' <=> x \in Touched(a, b)' /\ \E i \in (a + 1)..b : says(i, x)'
    BY Zenon DEF Came
  <2>2. x \in Came(a, b) <=> x \in Touched(a, b) /\ \E i \in (a + 1)..b : says(i, x)
    BY Zenon DEF Came
  <2>3. (\E i \in (a + 1)..b : says(i, x)') <=> \E i \in (a + 1)..b : says(i, x)
    <3> HIDE DEF says
    <3> QED
      BY <1>5
  <2> QED
    BY <1>4, <2>1, <2>2, <2>3, Zenon
<1>7. Came(a, b)' = Came(a, b)
  BY <1>6
<1> QED
  BY <1>4, <1>7

LEMMA ToldChange ==
  ASSUME TypeOK, Told, NEW m \in Messages, Change(m)
  PROVE  Told'
<1>1. /\ Len(history) \in Nat
      /\ \A i \in 1..Len(history) : history[i].id \in Messages /\ history'[i] = history[i]
      /\ Len(history') = Len(history) + 1
      /\ history'[Len(history) + 1] = [id |-> m, in |-> m \notin mailbox]
      /\ \A n \in 0..Len(history) : ChangedSince(n)' = ChangedSince(n) \cup {m}
      /\ \A k \in Messages : k # m => (k \in mailbox' <=> k \in mailbox)
      /\ m \in mailbox' <=> m \notin mailbox
  BY HistoryParts, HistoryGrows
<1>2. ASSUME NEW i \in 1..Len(history), history'[i].id \notin ChangedSince(i)'
      PROVE  history'[i].in <=> history'[i].id \in mailbox'
  <2>1. i \in 0..Len(history) /\ history'[i] = history[i] /\ history[i].id \in Messages
    BY <1>1
  <2>2. history[i].id # m /\ history[i].id \notin ChangedSince(i)
    BY <1>1, <1>2, <2>1
  <2> QED
    BY <1>1, <2>1, <2>2 DEF Told
<1>3. history'[Len(history) + 1].in <=> history'[Len(history) + 1].id \in mailbox'
  <2> DEFINE r == [id |-> m, in |-> m \notin mailbox]
  <2>0. r.id = m /\ (r.in <=> m \notin mailbox)
    BY Zenon
  <2>1. history'[Len(history) + 1].id = m /\ (history'[Len(history) + 1].in <=> m \notin mailbox)
    BY <1>1, <2>0, Zenon
  <2> QED
    BY <1>1, <2>1
<1>4. 1..Len(history') = 1..Len(history) \cup {Len(history) + 1}
  BY <1>1
<1> QED
  BY <1>2, <1>3, <1>4 DEF Told

\* What agreed goes on to agree but for the message that changed.
LEMMA AgreeChange ==
  ASSUME TypeOK, NEW m \in Messages, Change(m), NEW n \in 0..Len(history)
  PROVE  /\ AgreeSince(n) => AgreeSince(n)'
         /\ All(n) => All(n)'
         /\ Pure(n) => Pure(n)'
<1>1. /\ ChangedSince(n)' = ChangedSince(n) \cup {m}
      /\ \A k \in Messages : k # m => (k \in mailbox' <=> k \in mailbox)
      /\ local' = local /\ truncated' = truncated
      /\ mailbox \subseteq Messages /\ local \subseteq Messages
      /\ mailbox' \subseteq Messages
  <2>1. mailbox' \subseteq Messages
    BY HistoryParts DEF Change
  <2> QED
    BY <2>1, HistoryParts, HistoryGrows
<1> QED
  BY <1>1 DEF AgreeSince, Agree, All, Pure

LEMMA StoredChange ==
  ASSUME TypeOK, Stored, NEW m \in Messages, Change(m)
  PROVE  Stored'
<1>1. /\ Len(history) \in Nat /\ Len(history') = Len(history) + 1
      /\ UNCHANGED <<local, cursor, progress, truncated>>
      /\ \A n \in 0..Len(history) : ChangedSince(n)' = ChangedSince(n) \cup {m}
      /\ \A k \in Messages : k # m => (k \in mailbox' <=> k \in mailbox)
      /\ mailbox' \subseteq Messages
  BY HistoryParts, HistoryGrows DEF Change
<1>2. \A n \in 0..Len(history) : n \in 0..Len(history')
  BY <1>1
<1>3. cursor # None => cursor \in 0..Len(history') /\ AgreeSince(cursor)'
  <2> SUFFICES ASSUME cursor # None PROVE cursor \in 0..Len(history') /\ AgreeSince(cursor)'
    OBVIOUS
  <2>1. cursor \in 0..Len(history) /\ AgreeSince(cursor)
    BY DEF Stored
  <2>2. \A n \in 0..Len(history) : AgreeSince(n) => AgreeSince(n)'
    BY AgreeChange
  <2> QED
    BY <1>1, <1>2, <2>1, <2>2 DEF AgreeSince, Agree, ChangedSince
<1>4. progress.phase = "history" =>
        progress.page \in cursor..Len(history') /\ AgreeSince(progress.page)'
  <2> SUFFICES ASSUME progress.phase = "history"
               PROVE  progress.page \in cursor..Len(history') /\ AgreeSince(progress.page)'
    OBVIOUS
  <2>1. /\ progress.page \in cursor..Len(history) /\ AgreeSince(progress.page)
        /\ cursor \in 0..Len(history)
    BY DEF Stored
  <2>2. progress.page \in 0..Len(history) /\ progress.page \in cursor..Len(history')
    BY <1>1, <2>1
  <2>3. \A n \in 0..Len(history) : AgreeSince(n) => AgreeSince(n)'
    BY AgreeChange
  <2> QED
    BY <1>1, <2>1, <2>2, <2>3 DEF AgreeSince, Agree, ChangedSince
<1>5. progress.phase = "initial" => Importing(progress)' /\ Renewed(progress)'
  <2> SUFFICES ASSUME progress.phase = "initial" PROVE Importing(progress)' /\ Renewed(progress)'
    OBVIOUS
  <2> DEFINE s == progress.start
  <2>1. Importing(progress) /\ Renewed(progress) /\ s \in 0..Len(history)
    BY DEF Stored, Importing
  <2>2. (All(s) => All(s)') /\ (Pure(s) => Pure(s)')
    <3>1. \A n \in 0..Len(history) : (All(n) => All(n)') /\ (Pure(n) => Pure(n)')
      BY AgreeChange
    <3> QED
      BY <1>1, <2>1, <3>1 DEF All, Pure, ChangedSince
  <2>3. ChangedSince(s)' = ChangedSince(s) \cup {m}
    BY <1>1, <2>1 DEF ChangedSince
  <2>4. progress.page # None =>
          \A k \in mailbox' \ ChangedSince(s)' : k >= progress.page => k \in local
    BY <1>1, <2>1, <2>3 DEF Importing
  <2> QED
    BY <1>1, <1>2, <2>1, <2>2, <2>4 DEF Importing, Renewed
<1> QED
  BY <1>1, <1>3, <1>4, <1>5 DEF Stored

\* A run reads the history on from a position it agrees with.
LEMMA FromKnown ==
  ASSUME TypeOK, Stored, HeldHistory, pc \in {"history", "apply"}
  PROVE  /\ cursor \in 0..Len(history)
         /\ From(run.prog) \in cursor..Len(history)
         /\ AgreeSince(From(run.prog))
<1>1. Len(history) \in Nat /\ cursor # None /\ cursor \in 0..Len(history) /\ AgreeSince(cursor)
  BY HistoryParts DEF Stored, HeldHistory
<1>2. CASE run.prog.page = None
  <2>1. From(run.prog) = cursor
    BY <1>2 DEF From, HeldHistory
  <2>2. cursor \in cursor..Len(history)
    BY <1>1
  <2> QED
    BY <1>1, <2>1, <2>2 DEF AgreeSince
<1>3. CASE run.prog.page # None
  <2>1. progress.phase = "history" /\ progress.page = run.prog.page /\ From(run.prog) = progress.page
    BY <1>3 DEF From, HeldHistory
  <2> QED
    BY <1>1, <2>1 DEF Stored, AgreeSince
<1> QED
  BY <1>2, <1>3

LEMMA HeldChange ==
  ASSUME TypeOK, Stored, HeldImport, HeldHistory, NEW m \in Messages, Change(m)
  PROVE  HeldImport' /\ HeldHistory'
<1>1. /\ Len(history) \in Nat /\ Len(history') = Len(history) + 1
      /\ UNCHANGED <<local, cursor, progress, truncated, pc, run>>
      /\ \A n \in 0..Len(history) : ChangedSince(n)' = ChangedSince(n) \cup {m}
      /\ \A k \in Messages : k # m => (k \in mailbox' <=> k \in mailbox)
      /\ mailbox' \subseteq Messages
  BY HistoryParts, HistoryGrows DEF Change
<1>2. \A n \in 0..Len(history) : n \in 0..Len(history')
  BY <1>1
<1>3. pc = "begin" => run.prog.start \in 0..Len(history') /\ Renewed(run.prog)'
  BY <1>1, <1>2 DEF HeldImport, Renewed
<1>4. pc = "import" => Listed(run.page, run.prog)'
  <2> SUFFICES ASSUME pc = "import" PROVE Listed(run.page, run.prog)'
    OBVIOUS
  <2>1. Listed(run.page, run.prog) /\ run.prog = progress /\ Importing(progress)
    BY DEF HeldImport, Stored
  <2>2. run.page.seen \in 0..Len(history) /\ run.page.seen \in run.prog.start..Len(history')
    BY <1>1, <2>1 DEF Listed, Importing
  <2>3. ChangedSince(run.page.seen)' = ChangedSince(run.page.seen) \cup {m}
    BY <1>1, <2>2 DEF ChangedSince
  <2> QED
    BY <1>1, <2>1, <2>2, <2>3 DEF Listed
<1>5. pc \in {"imported", "done"} /\ run.page.next = None => All(progress.start)'
  <2> SUFFICES ASSUME pc \in {"imported", "done"}, run.page.next = None PROVE All(progress.start)'
    OBVIOUS
  <2>1. progress.start \in 0..Len(history) /\ All(progress.start)
    BY DEF HeldImport, Stored, Importing
  <2>2. ChangedSince(progress.start)' = ChangedSince(progress.start) \cup {m}
    BY <1>1, <2>1 DEF ChangedSince
  <2> QED
    BY <1>1, <2>1, <2>2 DEF All
<1>6. HeldImport'
  BY <1>1, <1>3, <1>4, <1>5 DEF HeldImport
<1>7. pc = "apply" => \E upto \in 0..Len(history') : Recorded(run.page, From(run.prog), upto)'
  <2> SUFFICES ASSUME pc = "apply"
               PROVE  \E upto \in 0..Len(history') : Recorded(run.page, From(run.prog), upto)'
    OBVIOUS
  <2>1. PICK upto \in 0..Len(history) : Recorded(run.page, From(run.prog), upto)
    BY DEF HeldHistory
  <2>2. From(run.prog) \in Nat /\ upto \in Nat /\ upto <= Len(history)
    BY <1>1, FromKnown
  <2>3. /\ Touched(From(run.prog), upto)' = Touched(From(run.prog), upto)
        /\ Came(From(run.prog), upto)' = Came(From(run.prog), upto)
    <3>1. PICK from \in Nat : from = From(run.prog)
      BY <2>2
    <3>2. from = From(run.prog)'
      BY <1>1, <3>1 DEF From
    <3>3. Touched(from, upto)' = Touched(from, upto) /\ Came(from, upto)' = Came(from, upto)
      BY <2>2, PagesKept
    <3>4. Touched(From(run.prog), upto)' = Touched(from, upto)'
      BY <3>2 DEF Touched
    <3>5. Came(From(run.prog), upto)' = Came(from, upto)'
      BY <3>2, <3>4 DEF Came
    <3> QED
      BY <3>1, <3>3, <3>4, <3>5
  <2>4. Recorded(run.page, From(run.prog), upto)'
    BY <1>1, <2>1, <2>2, <2>3 DEF Recorded, From
  <2> QED
    BY <1>2, <2>4
<1>8. HeldHistory'
  BY <1>1, <1>7 DEF HeldHistory
<1> QED
  BY <1>6, <1>8

-----------------------------------------------------------------------------
(* Steps that leave the mailbox, the messages and the stream alone *)

LEMMA Unmoved ==
  ASSUME UNCHANGED <<remote, local, stream>>
  PROVE  (Told => Told') /\ (Stored => Stored')
<1>1. UNCHANGED <<mailbox, history, local, cursor, progress, truncated>>
  BY DEF remote, stream
<1>2. Told => Told'
  BY <1>1 DEF Told, ChangedSince
<1>3. Stored => Stored'
  BY <1>1 DEF Stored, AgreeSince, Agree, Importing, Renewed, All, Pure, ChangedSince
<1> QED
  BY <1>2, <1>3

\* A worker that goes nowhere holds what it held.
LEMMA HeldQuiet ==
  ASSUME HeldImport, HeldHistory, UNCHANGED <<remote, local, stream>>,
         pc' = pc, run'.prog = run.prog, run'.page = run.page
  PROVE  HeldImport' /\ HeldHistory'
<1>1. UNCHANGED <<mailbox, history, local, cursor, progress, truncated>>
  BY DEF remote, stream
<1>2. HeldImport'
  BY <1>1 DEF HeldImport, Listed, Renewed, All, ChangedSince
<1>3. HeldHistory'
  BY <1>1 DEF HeldHistory, Recorded, From, Touched, Came
<1> QED
  BY <1>2, <1>3

\* One that is between runs, or at the ends of one, holds nothing.
LEMMA HeldNothing ==
  ASSUME pc' \in {"idle", "start", "token", "read", "failing", "close", "finish"}
  PROVE  HeldImport' /\ HeldHistory'
BY DEF HeldImport, HeldHistory

Aside ==
  \/ BecomeDue \/ TokenAges \/ TokenExpires
  \/ \E scope \in Consents, offline \in BOOLEAN : StoreGrant(scope, offline)
  \/ Disconnect \/ RevokeAtGoogle \/ SyncNow \/ Schedule

LEMMA KeptAside == TypeOK /\ Kept /\ Aside => Kept'
<1> SUFFICES ASSUME TypeOK, Kept, Aside PROVE Kept'
  OBVIOUS
<1>1. UNCHANGED <<remote, local, stream>> /\ pc' = pc
  BY DEF Aside, BecomeDue, TokenAges, TokenExpires, StoreGrant, Disconnect, RevokeAtGoogle, SyncNow,
         Schedule, worker
<1>2. run' = run \/ \E b \in BOOLEAN : run' = [run EXCEPT !.tok = b]
  <2>1. run.tok \in BOOLEAN
    BY TypeParts DEF RunOK, RunType
  <2> QED
    BY <2>1 DEF Aside, BecomeDue, TokenAges, TokenExpires, StoreGrant, Disconnect, RevokeAtGoogle, SyncNow,
                Schedule, worker
<1>3. run'.prog = run.prog /\ run'.page = run.page
  BY <1>2, TypeParts DEF RunOK, RunType
<1> QED
  BY <1>1, <1>3, Unmoved, HeldQuiet DEF Kept

\* Begins, ends and failures of a run.
Ending ==
  \/ Claim \/ Fault \/ Close \/ LeaseLost \/ Start \/ Stop \/ StoredToken
  \/ \E scope \in Consents : RefreshToken(scope)
  \/ \E err \in {"auth", "forbidden", "outage"} : RefreshFails(err) \/ AskFails(err)
  \/ Finish \/ RecordFailure

LEMMA KeptEnding == Kept /\ Ending => Kept'
<1> SUFFICES ASSUME Kept, Ending PROVE Kept'
  OBVIOUS
<1>1. UNCHANGED <<remote, local, stream>>
  BY DEF Ending, Claim, Fault, Close, LeaseLost, Start, Stop, StoredToken, RefreshToken, RefreshFails,
         AskFails, Finish, RecordFailure
<1>2. pc' \in {"idle", "start", "token", "read", "failing", "close", "finish"}
  BY DEF Ending, Claim, Fault, Close, LeaseLost, Start, Stop, StoredToken, RefreshToken, RefreshFails,
         AskFails, Finish, RecordFailure
<1> QED
  BY <1>1, <1>2, Unmoved, HeldNothing DEF Kept

-----------------------------------------------------------------------------
(* What a run takes into its memory *)

\* It resumes what the stream has stored.
LEMMA KeptRead == TypeOK /\ Kept /\ Read => Kept'
<1> SUFFICES ASSUME TypeOK, Kept, Read PROVE Kept'
  OBVIOUS
<1>1. UNCHANGED <<remote, local, stream>> /\ Told' /\ Stored'
  BY Unmoved DEF Read, Kept
<1>2. UNCHANGED <<mailbox, history, local, cursor, progress, truncated>>
  BY <1>1 DEF remote, stream
<1>3. /\ run \in RunType /\ progress \in ProgressType
      /\ \A q \in ProgressType : [run EXCEPT !.prog = q].prog = q
  BY TypeParts DEF RunOK, StreamOK, RunType
<1>4. CASE progress.phase = "initial"
  <2>1. pc' = "list" /\ run'.prog = progress
    BY <1>3, <1>4 DEF Read
  <2> QED
    BY <1>1, <1>2, <1>4, <2>1 DEF Kept, HeldImport, HeldHistory
<1>5. CASE progress.phase # "initial" /\ cursor # None
  <2>1. pc' = "history" /\ run' = [run EXCEPT !.prog = HistoryProgress]
    BY <1>5 DEF Read
  <2>2. run'.prog = HistoryProgress
    BY <1>3, <2>1 DEF RunType
  <2>3. /\ run'.prog.phase = "history" /\ run'.prog.start = cursor
        /\ run'.prog.page # None => progress.phase = "history" /\ progress.page = run'.prog.page
    BY <2>2 DEF HistoryProgress
  <2> QED
    BY <1>1, <1>2, <1>5, <2>1, <2>3 DEF Kept, HeldImport, HeldHistory
<1>6. CASE progress.phase # "initial" /\ cursor = None
  <2>1. pc' = "profile"
    BY <1>6 DEF Read
  <2>2. progress.phase = "none"
    BY <1>3, <1>6 DEF Kept, Stored, ProgressType
  <2>3. ~HistoryExpires => local = {}
    BY <1>6, <2>2 DEF Kept, Stored
  <2> QED
    BY <1>1, <1>2, <1>6, <2>1, <2>3 DEF Kept, HeldImport, HeldHistory
<1> QED
  BY <1>4, <1>5, <1>6

\* The position an import starts from is taken before anything is listed.
LEMMA KeptProfile == TypeOK /\ Kept /\ AskProfile => Kept'
<1> SUFFICES ASSUME TypeOK, Kept, AskProfile PROVE Kept'
  OBVIOUS
<1>1. UNCHANGED <<remote, local, stream>> /\ Told' /\ Stored'
  BY Unmoved DEF AskProfile, Kept
<1>2. UNCHANGED <<mailbox, history, local, cursor, progress, truncated>>
  BY <1>1 DEF remote, stream
<1>3. pc = "profile" /\ pc' = "begin"
  BY DEF AskProfile
<1>4. run'.prog = [phase |-> "initial", start |-> Len(history), page |-> None, fetched |-> 0]
  BY TypeParts DEF AskProfile, RunOK, RunType
<1>5. Len(history) \in 0..Len(history) /\ (cursor # None => HistoryExpires /\ cursor <= Len(history))
  <2>1. Len(history) \in Nat /\ HistoryExpires \in BOOLEAN
    BY HistoryParts, GoogleSyncAssumption
  <2> QED
    BY <1>3, <2>1 DEF Kept, HeldImport, Stored
<1> QED
  BY <1>1, <1>2, <1>3, <1>4, <1>5 DEF Kept, HeldImport, HeldHistory, Renewed

\* A page lists every message between the last one and its oldest.
LEMMA PageIsComplete ==
  ASSUME NEW S \in SUBSET Messages, NEW n \in Nat \ {0}, NEW m \in S,
         Newest(S, n) # S => m >= Oldest(Newest(S, n))
  PROVE  m \in Newest(S, n)
<1> DEFINE listed == Newest(S, n)
<1> SUFFICES ASSUME listed # S PROVE m \in listed
  OBVIOUS
<1>1. S \subseteq Nat /\ IsFiniteSet(S) /\ S # {}
  BY GoogleSyncAssumption, FS_Subset
<1>2. listed # {} /\ listed \in SUBSET Nat /\ listed \subseteq S
  BY <1>1, PageIsNotEmpty DEF Newest
<1>3. PICK o \in listed : o = Oldest(listed)
  <2> HIDE DEF listed
  <2> QED
    BY <1>2, OldestIsListed
<1>4. Cardinality({k \in S : k > o}) < n
  BY <1>3 DEF Newest
<1>5. {k \in S : k > m} \subseteq {k \in S : k > o}
  <2>1. m >= o /\ o \in Nat /\ m \in Nat
    BY <1>1, <1>2, <1>3
  <2>2. \A k \in S : k > m => k > o
    BY <1>1, <2>1
  <2> QED
    BY <2>2
<1>6. IsFiniteSet({k \in S : k > o})
  BY <1>1, FS_Subset
<1>7. /\ Cardinality({k \in S : k > m}) \in Nat
      /\ Cardinality({k \in S : k > m}) <= Cardinality({k \in S : k > o})
      /\ Cardinality({k \in S : k > o}) \in Nat
  BY <1>5, <1>6, FS_Subset, FS_CardinalityType
<1>8. Cardinality({k \in S : k > m}) < n
  BY <1>4, <1>7
<1> QED
  BY <1>8 DEF Newest

LEMMA KeptList == TypeOK /\ Kept /\ AskList => Kept'
<1> SUFFICES ASSUME TypeOK, Kept, AskList PROVE Kept'
  OBVIOUS
<1> DEFINE older  == Older(run.prog.page)
           listed == Newest(older, ListSize)
           page   == [touched |-> {}, fetch |-> listed,
                      next |-> IF listed = older THEN None ELSE Oldest(listed),
                      seen |-> Len(history)]
<1>1. UNCHANGED <<remote, local, stream>> /\ Told' /\ Stored'
  BY Unmoved DEF AskList, Kept
<1>2. UNCHANGED <<mailbox, history, local, cursor, progress, truncated>>
  BY <1>1 DEF remote, stream
<1>3. pc = "list" /\ pc' = "import" /\ run.prog = progress /\ progress.phase = "initial"
  BY DEF AskList, Kept, HeldImport
<1>4. run'.prog = run.prog /\ run'.page = page
  <2>1. run \in RunType
    BY TypeParts DEF RunOK
  <2>2. run' = [run EXCEPT !.page = page]
    BY DEF AskList
  <2> HIDE DEF page
  <2> QED
    BY <2>1, <2>2 DEF RunType
<1>5. older \in SUBSET Messages /\ ListSize \in Nat \ {0} /\ Len(history) \in Nat
  <2>1. run.prog.fetched \in Nat
    BY TypeParts DEF RunOK, RunType, ProgressType
  <2> QED
    BY <2>1, HistoryParts, GoogleSyncAssumption DEF Older, ListSize, Remaining, AskList
<1>6. ASSUME NEW m \in mailbox, run.prog.page = None \/ m < run.prog.page,
             page.next = None \/ m >= page.next
      PROVE  m \in page.fetch
  <2>1. m \in older
    BY <1>6 DEF Older
  <2>2. listed # older => Oldest(listed) \in Nat
    <3> SUFFICES ASSUME listed # older PROVE Oldest(listed) \in Nat
      OBVIOUS
    <3>1. listed # {} /\ listed \in SUBSET Nat
      <4>1. listed # {}
        BY <1>5, <2>1, PageIsNotEmpty
      <4>2. older \subseteq Nat
        BY <1>5, GoogleSyncAssumption
      <4> QED
        BY <4>1, <4>2 DEF Newest
    <3> HIDE DEF listed
    <3> QED
      BY <3>1, OldestIsListed
  <2>3. listed # older => m >= Oldest(listed)
    <3> HIDE DEF listed, older
    <3> QED
      BY <1>6, <2>2 DEF None
  <2> QED
    BY <1>5, <2>1, <2>3, PageIsComplete
<1>7. run.prog.start \in 0..Len(history)
  BY <1>3 DEF Kept, Stored, Importing
<1>8. page.seen = Len(history) /\ page.seen \in run.prog.start..Len(history)
  BY <1>5, <1>7
<1> HIDE DEF page
<1>9. Listed(run.page, run.prog)'
  BY <1>2, <1>4, <1>6, <1>8 DEF Listed
<1> QED
  BY <1>1, <1>2, <1>3, <1>4, <1>9 DEF Kept, HeldImport, HeldHistory

\* An import that stops at its limit has been to the end if it would begin again.
LEMMA KeptFull == TypeOK /\ Kept /\ ListFull => Kept'
<1> SUFFICES ASSUME TypeOK, Kept, ListFull PROVE Kept'
  OBVIOUS
<1>1. UNCHANGED <<remote, local, stream>> /\ Told' /\ Stored'
  BY Unmoved DEF ListFull, Kept
<1>2. UNCHANGED <<mailbox, history, local, cursor, progress, truncated>>
  BY <1>1 DEF remote, stream
<1>3. pc = "list" /\ pc' = "done" /\ run.prog = progress /\ progress.phase = "initial"
  BY DEF ListFull, Kept, HeldImport
<1>4. run'.prog = run.prog /\ run'.page.next = run.prog.page
  BY TypeParts DEF ListFull, RunOK, RunType, PageType
<1>5. run.prog.fetched > 0
  <2>1. run.prog.fetched \in Nat
    BY TypeParts DEF RunOK, RunType, ProgressType
  <2> QED
    BY <2>1, GoogleSyncAssumption DEF ListFull, Remaining
<1>6. run.prog.page = None => All(progress.start)
  BY <1>3, <1>5 DEF Kept, Stored, Importing
<1>7. All(progress.start) => All(progress.start)'
  BY <1>2 DEF All, ChangedSince
<1> QED
  BY <1>1, <1>2, <1>3, <1>4, <1>6, <1>7 DEF Kept, HeldImport, HeldHistory

LEMMA KeptHistory == TypeOK /\ Kept /\ AskHistory => Kept'
<1> SUFFICES ASSUME TypeOK, Kept, AskHistory PROVE Kept'
  OBVIOUS
<1> DEFINE from == From(run.prog)
           upto == Upto(from)
           page == [touched |-> Touched(from, upto), fetch |-> Came(from, upto),
                    next |-> IF upto < Len(history) THEN upto ELSE None,
                    seen |-> Len(history)]
<1>1. UNCHANGED <<remote, local, stream>> /\ Told' /\ Stored'
  BY Unmoved DEF AskHistory, Kept
<1>2. UNCHANGED <<mailbox, history, local, cursor, progress, truncated>>
  BY <1>1 DEF remote, stream
<1>3. pc = "history" /\ pc' = "apply"
  BY DEF AskHistory
<1>4. run'.prog = run.prog /\ run'.page = page
  <2>1. run \in RunType
    BY TypeParts DEF RunOK
  <2>2. run' = [run EXCEPT !.page = page]
    BY DEF AskHistory, From
  <2> HIDE DEF page
  <2> QED
    BY <2>1, <2>2 DEF RunType
<1>5. from \in 0..Len(history) /\ Len(history) \in Nat
  BY <1>3, FromKnown, HistoryParts DEF Kept
<1>6. upto \in from..Len(history) /\ upto \in 0..Len(history) /\ Len(history) \in upto..Len(history)
  BY <1>5, GoogleSyncAssumption DEF Upto
<1>7. Recorded(page, from, upto)
  <2>1. upto \in Nat /\ ~(upto < Len(history)) => upto = Len(history)
    BY <1>5, <1>6
  <2> HIDE DEF upto, from
  <2> QED
    BY <1>5, <1>6, <2>1 DEF Recorded, None
<1> HIDE DEF page
<1>8. Recorded(run.page, from, upto)'
  BY <1>2, <1>4, <1>7 DEF Recorded, From, Upto, Touched, Came
<1>9. upto' \in 0..Len(history')
  BY <1>2, <1>4, <1>6 DEF From, Upto
<1> HIDE DEF upto
<1>10. HeldHistory'
  BY <1>2, <1>3, <1>4, <1>8, <1>9 DEF Kept, HeldHistory
<1> QED
  BY <1>1, <1>3, <1>10 DEF Kept, HeldImport

LEMMA KeptRefused == Kept /\ CursorRefused => Kept'
<1> SUFFICES ASSUME Kept, CursorRefused PROVE Kept'
  OBVIOUS
<1>1. UNCHANGED <<remote, local, stream>> /\ Told' /\ Stored'
  BY Unmoved DEF CursorRefused, Kept
<1>2. HistoryExpires /\ pc' = "profile"
  BY DEF CursorRefused
<1> QED
  BY <1>1, <1>2 DEF Kept, HeldImport, HeldHistory

\* The next page, or the end, after the heartbeat.
LEMMA KeptBeat == Kept /\ Beat => Kept'
<1> SUFFICES ASSUME Kept, Beat PROVE Kept'
  OBVIOUS
<1>1. UNCHANGED <<remote, local, stream>> /\ Told' /\ Stored'
  BY Unmoved DEF Beat, Kept
<1>2. UNCHANGED <<mailbox, history, local, cursor, progress, truncated, run>>
  BY <1>1 DEF remote, stream, Beat
<1>3. CASE pc = "imported" /\ run.page.next # None
  BY <1>1, <1>2, <1>3 DEF Beat, Kept, HeldImport, HeldHistory
<1>4. CASE pc = "imported" /\ run.page.next = None
  <2>1. pc' = "done" /\ All(progress.start)
    BY <1>4 DEF Beat, Kept, HeldImport
  <2>2. All(progress.start)'
    BY <1>2, <2>1 DEF All, ChangedSince
  <2> QED
    BY <1>1, <1>2, <1>4, <2>1, <2>2 DEF Kept, HeldImport, HeldHistory
<1>5. CASE pc = "applied" /\ run.page.next # None
  <2>1. pc' = "history" /\ progress.phase = "history" /\ run.prog = progress
    BY <1>5 DEF Beat, Kept, HeldHistory
  <2>2. cursor # None /\ progress.start = cursor
    BY <2>1 DEF Kept, Stored
  <2> QED
    BY <1>1, <1>2, <2>1, <2>2 DEF Kept, HeldImport, HeldHistory
<1>6. CASE pc = "applied" /\ run.page.next = None
  <2>1. pc' = "finish"
    BY <1>6 DEF Beat
  <2> QED
    BY <1>1, <2>1, HeldNothing DEF Kept
<1> QED
  BY <1>3, <1>4, <1>5, <1>6 DEF Beat

-----------------------------------------------------------------------------
(* What a page does to the messages *)

LEMMA KeptBegin == TypeOK /\ Kept /\ ApplyBegin => Kept'
<1> SUFFICES ASSUME TypeOK, Kept, ApplyBegin PROVE Kept'
  OBVIOUS
<1>1. /\ UNCHANGED <<mailbox, history, local, cursor, truncated, run>>
      /\ pc = "begin" /\ pc' = "list" /\ progress' = run.prog
  BY DEF ApplyBegin, remote
<1>2. Told'
  BY <1>1 DEF Kept, Told, ChangedSince
<1>3. /\ run.prog.phase = "initial" /\ run.prog.page = None /\ run.prog.fetched = 0
      /\ run.prog.start \in 0..Len(history) /\ Renewed(run.prog)
      /\ ~HistoryExpires => local = {}
  BY <1>1 DEF Kept, HeldImport
<1>4. Importing(progress)' /\ Renewed(progress)'
  BY <1>1, <1>3 DEF Importing, Renewed, Pure
<1>5. (cursor # None => cursor \in 0..Len(history) /\ AgreeSince(cursor))'
  BY <1>1 DEF Kept, Stored, AgreeSince, Agree, ChangedSince
<1>6. Stored'
  BY <1>1, <1>3, <1>4, <1>5 DEF Stored
<1> QED
  BY <1>1, <1>2, <1>3, <1>6 DEF Kept, HeldImport, HeldHistory

\* A page of the import is stored with every message on it that is there still;
\* none that has not changed is removed.
LEMMA KeptImport == TypeOK /\ Kept /\ ApplyImport => Kept'
<1> SUFFICES ASSUME TypeOK, Kept, ApplyImport PROVE Kept'
  OBVIOUS
<1>1. /\ UNCHANGED <<mailbox, history, cursor, truncated>>
      /\ pc = "import" /\ pc' = "imported"
  BY DEF ApplyImport, remote
<1>2. PICK found \in Found(run.page.fetch, run.page.seen) :
        \E trashed \in SUBSET (run.page.fetch \ found) :
          LET prog == [run.prog EXCEPT !.page = run.page.next,
                                       !.fetched = @ + Cardinality(found \cup trashed)]
          IN  /\ local' = (local \cup found) \ trashed
              /\ progress' = prog /\ run' = [run EXCEPT !.prog = prog]
  BY DEF ApplyImport
<1>3. PICK trashed \in SUBSET (run.page.fetch \ found) :
        LET prog == [run.prog EXCEPT !.page = run.page.next,
                                     !.fetched = @ + Cardinality(found \cup trashed)]
        IN  /\ local' = (local \cup found) \ trashed
            /\ progress' = prog /\ run' = [run EXCEPT !.prog = prog]
  BY <1>2
<1>4. /\ run.prog = progress /\ progress.phase = "initial"
      /\ Listed(run.page, progress) /\ Importing(progress) /\ Renewed(progress)
  BY <1>1 DEF Kept, HeldImport, Stored
<1>5. /\ run' = [run EXCEPT !.prog = progress'] /\ run'.prog = progress' /\ run'.page = run.page
      /\ progress'.phase = "initial" /\ progress'.start = progress.start
      /\ progress'.page = run.page.next
  <2>1. run \in RunType /\ progress \in ProgressType
    BY TypeParts DEF RunOK, StreamOK
  <2> QED
    BY <1>3, <1>4, <2>1 DEF RunType, ProgressType
<1>6. /\ Len(history) \in Nat /\ mailbox \subseteq Messages /\ Messages \subseteq Nat
      /\ progress.start \in 0..Len(history)
      /\ run.page.seen \in progress.start..Len(history)
  BY <1>4, HistoryParts DEF Listed, Importing
<1>7. ChangedSince(run.page.seen) \subseteq ChangedSince(progress.start)
  <2>1. /\ progress.start \in Nat /\ run.page.seen \in Nat
        /\ progress.start <= run.page.seen /\ run.page.seen <= Len(history)
    BY <1>6
  <2> QED
    BY <2>1, SinceSplit
<1>8. /\ found \subseteq run.page.fetch
      /\ \A m \in run.page.fetch \ ChangedSince(run.page.seen) : m \in found <=> m \in mailbox
  BY DEF Found
<1>9. \A m \in mailbox \ ChangedSince(run.page.seen) : m \in local => m \in local'
  BY <1>3, <1>8
<1>10. \A m \in mailbox \ ChangedSince(run.page.seen) : m \in run.page.fetch => m \in local'
  BY <1>3, <1>8
<1>11. \A m \in mailbox \ ChangedSince(progress.start) :
         run.page.next = None \/ m >= run.page.next => m \in local'
  <2> SUFFICES ASSUME NEW m \in mailbox \ ChangedSince(progress.start),
                      run.page.next = None \/ m >= run.page.next
               PROVE  m \in local'
    OBVIOUS
  <2>1. m \in mailbox \ ChangedSince(run.page.seen)
    BY <1>7
  <2>2. CASE progress.page = None \/ m < progress.page
    BY <1>4, <1>10, <2>1, <2>2 DEF Listed
  <2>3. CASE progress.page # None /\ ~(m < progress.page)
    <3>1. progress.page \in Nat /\ m \in Nat
      BY <1>6, <2>3, TypeParts DEF StreamOK, ProgressType, Positions
    <3>2. m >= progress.page
      BY <2>3, <3>1
    <3>3. m \in local
      BY <1>4, <2>3, <3>2 DEF Importing
    <3> QED
      BY <1>9, <2>1, <3>3
  <2> QED
    BY <2>2, <2>3
<1>12. run.page.next = None => All(progress.start)'
  BY <1>1, <1>5, <1>11 DEF All, ChangedSince
<1>13. Pure(progress.start)'
  <2>1. ~HistoryExpires => \A m \in local' \ ChangedSince(progress.start) : m \in mailbox
    <3> SUFFICES ASSUME ~HistoryExpires, NEW m \in local' \ ChangedSince(progress.start)
                 PROVE  m \in mailbox
      OBVIOUS
    <3>1. CASE m \in local
      BY <1>4, <3>1 DEF Importing, Pure
    <3>2. CASE m \in found
      BY <1>7, <1>8, <3>2
    <3> QED
      BY <1>3, <3>1, <3>2
  <2> QED
    BY <1>1, <1>5, <2>1 DEF Pure, ChangedSince
<1>14. Importing(progress)' /\ Renewed(progress)'
  BY <1>1, <1>4, <1>5, <1>6, <1>11, <1>12, <1>13 DEF Importing, Renewed, ChangedSince, All, Pure
<1>15. (cursor # None => cursor \in 0..Len(history) /\ AgreeSince(cursor))'
  <2> SUFFICES ASSUME cursor # None
               PROVE  cursor \in 0..Len(history) /\ AgreeSince(cursor)'
    BY <1>1 DEF AgreeSince, Agree, ChangedSince
  <2>1. cursor \in 0..Len(history) /\ AgreeSince(cursor) /\ HistoryExpires /\ cursor <= progress.start
    BY <1>4 DEF Kept, Stored, Renewed
  <2>2. ChangedSince(run.page.seen) \subseteq ChangedSince(cursor)
    <3>1. /\ cursor \in Nat /\ run.page.seen \in Nat
          /\ cursor <= run.page.seen /\ run.page.seen <= Len(history)
      BY <1>6, <2>1
    <3> QED
      BY <3>1, SinceSplit
  <2>3. \A m \in mailbox \ ChangedSince(cursor) : ~truncated => m \in local'
    BY <1>6, <1>9, <2>1, <2>2 DEF AgreeSince, Agree
  <2> QED
    BY <1>1, <2>1, <2>3 DEF AgreeSince, Agree, ChangedSince
<1>16. Told'
  BY <1>1 DEF Kept, Told, ChangedSince
<1>17. Stored'
  BY <1>5, <1>14, <1>15 DEF Stored
<1> QED
  BY <1>1, <1>5, <1>12, <1>16, <1>17 DEF Kept, HeldImport, HeldHistory, All, ChangedSince

\* The cursor an import ends with: what it has passed is everything unless it
\* was cut short, and then it is said to be truncated.
LEMMA KeptDone == TypeOK /\ Kept /\ ApplyDone => Kept'
<1> SUFFICES ASSUME TypeOK, Kept, ApplyDone PROVE Kept'
  OBVIOUS
<1>1. /\ UNCHANGED <<mailbox, history, local, run>>
      /\ pc = "done" /\ pc' = "finish"
      /\ cursor' = run.prog.start /\ progress' = NoProgress
      /\ truncated' = (run.page.next # None)
  BY DEF ApplyDone, remote
<1>2. /\ run.prog = progress /\ Importing(progress)
      /\ run.page.next = None => All(progress.start)
  BY <1>1 DEF Kept, HeldImport, Stored
<1>3. cursor' \in 0..Len(history) /\ cursor' # None /\ cursor' = progress.start
  <2>1. Len(history) \in Nat
    BY HistoryParts
  <2> QED
    BY <1>1, <1>2, <2>1 DEF Importing, None
<1>4. AgreeSince(cursor)'
  <2>1. ASSUME NEW m \in Messages \ ChangedSince(progress.start)
        PROVE  /\ m \in mailbox /\ ~truncated' => m \in local
               /\ m \in local /\ ~HistoryExpires => m \in mailbox
    BY <1>1, <1>2 DEF All, Importing, Pure
  <2> QED
    BY <1>1, <1>3, <2>1 DEF AgreeSince, Agree, ChangedSince
<1>5. Told' /\ Stored'
  <2>1. Told'
    BY <1>1 DEF Kept, Told, ChangedSince
  <2>2. Stored'
    BY <1>1, <1>3, <1>4 DEF Stored, NoProgress
  <2> QED
    BY <2>1, <2>2
<1> QED
  BY <1>1, <1>5, HeldNothing DEF Kept

\* After a page of the history, the messages agree up to its end.
LEMMA PageAgrees ==
  ASSUME TypeOK, Told, NEW from \in 0..Len(history), AgreeSince(from),
         NEW upto \in from..Len(history), Recorded(run.page, from, upto),
         NEW found \in Found(run.page.fetch, run.page.seen),
         NEW m \in Messages \ ChangedSince(upto)
  PROVE  LET there == (local \ run.page.touched) \cup found
         IN  /\ m \in mailbox /\ ~truncated => m \in there
             /\ m \in there /\ ~HistoryExpires => m \in mailbox
<1>1. /\ Len(history) \in Nat
      /\ from \in Nat /\ upto \in Nat /\ from <= upto /\ upto <= Len(history)
      /\ run.page.seen \in Nat /\ upto <= run.page.seen /\ run.page.seen <= Len(history)
  <2>1. Len(history) \in Nat
    BY HistoryParts
  <2> QED
    BY <2>1 DEF Recorded
<1>2. /\ run.page.touched = Touched(from, upto) /\ run.page.fetch = Came(from, upto)
      /\ Came(from, upto) \subseteq Touched(from, upto)
      /\ found \subseteq run.page.fetch
      /\ \A k \in run.page.fetch \ ChangedSince(run.page.seen) : k \in found <=> k \in mailbox
  BY DEF Recorded, Found, Came
<1>3. CASE m \notin Touched(from, upto)
  <2>1. m \notin ChangedSince(from)
    BY <1>1, <1>3, SinceSplit
  <2>2. /\ m \in mailbox /\ ~truncated => m \in local
        /\ m \in local /\ ~HistoryExpires => m \in mailbox
    BY <2>1 DEF AgreeSince, Agree
  <2> QED
    BY <1>2, <1>3, <2>2
<1>4. CASE m \in Touched(from, upto)
  <2>1. PICK i \in (from + 1)..upto :
          history[i].id = m /\ \A k \in (i + 1)..upto : history[k].id # m
    BY <1>1, <1>4, LastRecord
  <2>2. i \in 1..Len(history) /\ i \in Nat /\ i <= upto
    BY <1>1
  <2>3. m \notin ChangedSince(i)
    <3>1. ChangedSince(i) = Touched(i, upto) \cup ChangedSince(upto)
      BY <1>1, <2>2, SinceSplit
    <3>2. m \notin Touched(i, upto)
      BY <2>1 DEF Touched
    <3> QED
      BY <3>1, <3>2
  <2>4. history[i].in <=> m \in mailbox
    BY <2>1, <2>2, <2>3 DEF Told
  <2>5. m \in Came(from, upto) <=> history[i].in
    <3>1. ASSUME NEW j \in (from + 1)..upto, history[j].id = m,
                 \A k \in (j + 1)..upto : history[k].id # m
          PROVE  j = i
      <4>1. ~(j \in (i + 1)..upto) /\ ~(i \in (j + 1)..upto)
        BY <2>1, <3>1
      <4> QED
        BY <1>1, <4>1
    <3>2. m \in Came(from, upto)
            <=> \E j \in (from + 1)..upto : /\ history[j].id = m /\ history[j].in
                                            /\ \A k \in (j + 1)..upto : history[k].id # m
      BY <1>4 DEF Came
    <3> QED
      BY <2>1, <3>1, <3>2
  <2>6. m \notin ChangedSince(run.page.seen)
    BY <1>1, SinceSplit
  <2>7. m \in found <=> m \in mailbox
    BY <1>2, <2>4, <2>5, <2>6
  <2> QED
    BY <1>2, <1>4, <2>7
<1> QED
  BY <1>3, <1>4

LEMMA KeptApply == TypeOK /\ Kept /\ ApplyHistory => Kept'
<1> SUFFICES ASSUME TypeOK, Kept, ApplyHistory PROVE Kept'
  OBVIOUS
<1> DEFINE prog == [run.prog EXCEPT !.page = run.page.next]
<1>1. /\ UNCHANGED <<mailbox, history, truncated>>
      /\ pc = "apply" /\ pc' = "applied"
      /\ Advance(run.page, prog) /\ run' = [run EXCEPT !.prog = prog]
  BY DEF ApplyHistory, remote
<1>2. PICK found \in Found(run.page.fetch, run.page.seen) :
        local' = (local \ run.page.touched) \cup found
  BY DEF ApplyHistory
<1>3. PICK from \in Nat : from = From(run.prog) /\ from \in cursor..Len(history) /\ AgreeSince(from)
  <2>1. Len(history) \in Nat
    BY HistoryParts
  <2> QED
    BY <1>1, <2>1, FromKnown DEF Kept
<1>4. /\ Len(history) \in Nat /\ cursor \in 0..Len(history) /\ cursor # None
      /\ run.prog.phase = "history" /\ run.prog.start = cursor
  BY <1>1, FromKnown, HistoryParts DEF Kept, HeldHistory
<1>5. PICK upto \in 0..Len(history) : Recorded(run.page, from, upto)
  BY <1>1, <1>3 DEF Kept, HeldHistory
<1>6. /\ from \in 0..Len(history) /\ upto \in from..Len(history)
      /\ upto \in cursor..Len(history)
  BY <1>3, <1>4, <1>5 DEF Recorded
<1>7. ASSUME NEW m \in Messages \ ChangedSince(upto)
      PROVE  /\ m \in mailbox /\ ~truncated => m \in local'
             /\ m \in local' /\ ~HistoryExpires => m \in mailbox
  BY <1>2, <1>3, <1>5, <1>6, <1>7, PageAgrees DEF Kept
<1>8. ASSUME NEW n \in 0..upto PROVE ChangedSince(upto) \subseteq ChangedSince(n)
  <2>1. n \in Nat /\ upto \in Nat /\ n <= upto /\ upto <= Len(history)
    BY <1>4, <1>6
  <2> QED
    BY <2>1, SinceSplit
<1>9. \A n \in 0..upto : AgreeSince(n)'
  <2>1. ASSUME NEW n \in 0..upto PROVE AgreeSince(n)'
    BY <1>1, <1>7, <1>8 DEF AgreeSince, Agree, ChangedSince
  <2> QED
    BY <2>1
<1>10. prog.phase = "history" /\ prog.start = cursor /\ prog.page = run.page.next /\ run'.prog = prog
       /\ run'.page = run.page
  BY <1>1, <1>4, TypeParts DEF RunOK, RunType, ProgressType
<1> HIDE DEF prog
<1>11. Told'
  BY <1>1 DEF Kept, Told, ChangedSince
<1>12. CASE run.page.next # None
  <2>1. progress' = prog /\ cursor' = cursor /\ run.page.next = upto
    BY <1>1, <1>5, <1>12 DEF Advance, Recorded
  <2>2. AgreeSince(cursor)' /\ AgreeSince(progress.page)'
    <3>1. cursor \in 0..upto /\ upto \in 0..upto
      BY <1>4, <1>6
    <3>2. cursor' = cursor /\ progress'.page = upto
      BY <1>10, <2>1
    <3> QED
      BY <1>9, <3>1, <3>2 DEF AgreeSince, Agree, ChangedSince
  <2>3. Stored'
    BY <1>1, <1>4, <1>6, <1>10, <2>1, <2>2 DEF Stored
  <2> QED
    BY <1>1, <1>10, <1>11, <2>1, <2>3 DEF Kept, HeldImport, HeldHistory
<1>13. CASE run.page.next = None
  <2>1. progress' = NoProgress /\ cursor' = upto
    BY <1>1, <1>5, <1>13 DEF Advance, Recorded
  <2>2. AgreeSince(cursor)' /\ cursor' # None /\ cursor' \in 0..Len(history)
    <3>1. upto \in 0..upto /\ upto # None
      BY <1>4, <1>6 DEF None
    <3> QED
      BY <1>9, <2>1, <3>1 DEF AgreeSince, Agree, ChangedSince
  <2>3. Stored'
    BY <1>1, <2>1, <2>2 DEF Stored, NoProgress
  <2> QED
    BY <1>1, <1>10, <1>11, <1>13, <2>3 DEF Kept, HeldImport, HeldHistory
<1> QED
  BY <1>12, <1>13

-----------------------------------------------------------------------------
(* The two properties *)

LEMMA KeptInit == Init => Kept
<1> SUFFICES ASSUME Init PROVE Kept
  OBVIOUS
<1>1. Told
  BY DEF Init, Told
<1>2. Stored
  BY DEF Init, Stored, NoProgress
<1> QED
  BY <1>1, <1>2 DEF Init, Kept, HeldImport, HeldHistory

\* The imported data is deleted while no run is under way: every one that comes
\* reads the stream as it is then.
QuietDeletion == DeleteData => pc = "idle"

LEMMA KeptDelete == Kept /\ DeleteData /\ QuietDeletion => Kept'
<1> SUFFICES ASSUME Kept, DeleteData, QuietDeletion PROVE Kept'
  OBVIOUS
<1>1. /\ UNCHANGED <<mailbox, history>> /\ pc' = "idle"
      /\ local' = {} /\ cursor' = None /\ progress' = NoProgress
  BY DEF DeleteData, QuietDeletion, remote, worker
<1>2. Told'
  BY <1>1 DEF Kept, Told, ChangedSince
<1>3. Stored'
  BY <1>1 DEF Stored, NoProgress
<1> QED
  BY <1>1, <1>2, <1>3, HeldNothing DEF Kept

LEMMA KeptNext == TypeOK /\ Kept /\ [Next]_vars /\ [QuietDeletion]_vars => Kept'
<1> SUFFICES ASSUME TypeOK, Kept, [Next]_vars, [QuietDeletion]_vars PROVE Kept'
  OBVIOUS
<1>1. ASSUME NEW m \in Messages, Change(m) PROVE Kept'
  BY <1>1, ToldChange, StoredChange, HeldChange DEF Kept
<1>2. CASE Aside
  BY <1>2, KeptAside
<1>3. CASE Ending
  BY <1>3, KeptEnding
<1>4. CASE Read \/ AskProfile \/ AskList \/ ListFull \/ AskHistory \/ CursorRefused \/ Beat
  BY <1>4, KeptRead, KeptProfile, KeptList, KeptFull, KeptHistory, KeptRefused, KeptBeat
<1>5. CASE ApplyBegin \/ ApplyImport \/ ApplyDone \/ ApplyHistory
  BY <1>5, KeptBegin, KeptImport, KeptDone, KeptApply
<1>6. CASE UNCHANGED vars
  <2>1. UNCHANGED <<remote, local, stream>> /\ pc' = pc /\ run' = run
    BY <1>6 DEF vars, worker
  <2> QED
    BY <2>1, Unmoved, HeldQuiet DEF Kept
<1>7. CASE DeleteData /\ ~UNCHANGED vars
  BY <1>7, KeptDelete
<1> QED
  BY <1>1, <1>2, <1>3, <1>4, <1>5, <1>6, <1>7
     DEF Next, Provider, User, Ask, AskAmiss, Work, Aside, Ending

\* The invariant says more of the rows than the two properties.
LEMMA KeptImplies == TypeOK /\ Kept => CursorCovered /\ ResumeSafe
<1> SUFFICES ASSUME TypeOK, Kept PROVE CursorCovered /\ ResumeSafe
  OBVIOUS
<1>1. CursorCovered
  BY DEF Kept, Stored, CursorCovered, AgreeSince
<1>2. ResumeSafe
  BY DEF Kept, Stored, Importing, ResumeSafe, AgreeSince
<1> QED
  BY <1>1, <1>2

\* Whatever Google answers, however often the cursor expires, the worker crashes
\* or the grant changes: the messages whose last change the stored cursor covers
\* are here as they are in the mailbox, unless the user deletes the imported
\* data under a run (google_sync.py _gmail and _apply, pages.py google_delete).
THEOREM CursorHolds == Spec /\ [][QuietDeletion]_vars => []CursorCovered
<1>1. TypeInv => TypeOK
  BY DEF TypeInv
<1> QED
  BY <1>1, TypeInvInductive, KeptInit, KeptNext, KeptImplies, PTL DEF Spec

\* Under the same condition a run that resumes from the stored progress misses
\* nothing: the pages before the one it asks for next are applied.
THEOREM ResumesSafely == Spec /\ [][QuietDeletion]_vars => []ResumeSafe
<1>1. TypeInv => TypeOK
  BY DEF TypeInv
<1> QED
  BY <1>1, TypeInvInductive, KeptInit, KeptNext, KeptImplies, PTL DEF Spec

-----------------------------------------------------------------------------
(* What the user deletes stays deleted                                      *)

\* The imported data is deleted when no synchronisation is queued or under way;
\* and no crash brings back a run whose refusal is recorded already.
Unhurried ==
  /\ DeleteData => pc = "idle" /\ job = "none"
  /\ Fault => pc # "close"

\* Of a stream in order that is not to be polled, no run is at work.
OffInv ==
  /\ job \in {"none", "queued", "running"}
  /\ job = "queued" => pc = "idle"
  /\ next = "none" /\ Loadable => pc \in {"idle", "close"} /\ (job = "none" \/ pc = "close")

LEMMA OffUser == OffInv /\ Unhurried /\ User => OffInv'
<1> SUFFICES ASSUME OffInv, Unhurried, User PROVE OffInv'
  OBVIOUS
<1> USE DEF OffInv, Loadable, queue, worker
<1>1. ASSUME NEW scope \in Consents, NEW offline \in BOOLEAN, StoreGrant(scope, offline)
      PROVE  OffInv'
  <2>1. UNCHANGED <<job, pc>> /\ scoped' = scope /\ scope \in BOOLEAN
    BY <1>1, GoogleSyncAssumption DEF StoreGrant
  <2>2. CASE scope /\ conn' = "active"
    BY <1>1, <2>1, <2>2 DEF StoreGrant
  <2>3. CASE ~(scope /\ conn' = "active")
    BY <2>1, <2>3
  <2> QED BY <2>2, <2>3
<1>2. CASE Disconnect        BY <1>2 DEF Disconnect
<1>3. CASE RevokeAtGoogle    BY <1>3 DEF RevokeAtGoogle, poll
<1>4. CASE SyncNow           BY <1>4 DEF SyncNow, grant
<1>5. CASE DeleteData        BY <1>5 DEF DeleteData, grant, Unhurried
<1> QED
  BY <1>1, <1>2, <1>3, <1>4, <1>5 DEF User

LEMMA OffAsk == OffInv /\ (Ask \/ AskAmiss) => OffInv'
<1> SUFFICES ASSUME OffInv, Ask \/ AskAmiss PROVE OffInv'
  OBVIOUS
<1> USE DEF OffInv, Loadable, poll, grant, queue
<1>1. CASE StoredToken
  BY <1>1 DEF StoredToken
<1>2. ASSUME NEW scope \in Consents, RefreshToken(scope) PROVE OffInv'
  BY <1>2, GoogleSyncAssumption DEF RefreshToken
<1>3. CASE AskProfile \/ AskList \/ AskHistory \/ CursorRefused
  BY <1>3 DEF AskProfile, AskList, AskHistory, CursorRefused
<1>4. ASSUME NEW err, RefreshFails(err) \/ AskFails(err) PROVE OffInv'
  BY <1>4 DEF RefreshFails, AskFails, Asking
<1> QED
  BY <1>1, <1>2, <1>3, <1>4 DEF Ask, AskAmiss

LEMMA OffWork == OffInv /\ Work => OffInv'
<1> SUFFICES ASSUME OffInv, Work PROVE OffInv'
  OBVIOUS
<1> USE DEF OffInv, Loadable, poll, grant, queue
<1>1. CASE Schedule
  BY <1>1 DEF Schedule, worker
<1>2. CASE Claim
  BY <1>2 DEF Claim
<1>3. CASE Start
  <2>1. CASE Loadable
    BY <1>3, <2>1 DEF Start
  <2>2. CASE ~Loadable
    BY <1>3, <2>2 DEF Start, Retried
  <2> QED BY <2>1, <2>2
<1>4. CASE Read \/ Stop \/ Beat \/ LeaseLost
  BY <1>4 DEF Read, Stop, Beat, LeaseLost
<1>5. CASE ApplyBegin \/ ApplyImport \/ ListFull \/ ApplyDone \/ ApplyHistory
  <2>1. /\ UNCHANGED <<next, conn, scoped, job>>
        /\ pc \notin {"idle", "close"} /\ pc' \notin {"idle", "close"}
    <3>1. CASE ApplyBegin   BY <3>1 DEF ApplyBegin
    <3>2. CASE ApplyImport  BY <3>2 DEF ApplyImport
    <3>3. CASE ListFull     BY <3>3 DEF ListFull
    <3>4. CASE ApplyDone    BY <3>4 DEF ApplyDone
    <3>5. CASE ApplyHistory BY <3>5 DEF ApplyHistory
    <3> QED BY <1>5, <3>1, <3>2, <3>3, <3>4, <3>5
  <2> QED BY <2>1
<1>6. CASE Finish
  BY <1>6 DEF Finish
<1>7. CASE RecordFailure
  BY <1>7 DEF RecordFailure
<1>8. CASE Close
  BY <1>8 DEF Close
<1> QED
  BY <1>1, <1>2, <1>3, <1>4, <1>5, <1>6, <1>7, <1>8 DEF Work

LEMMA OffNext == OffInv /\ [Next]_vars /\ [Unhurried]_vars => OffInv'
<1> SUFFICES ASSUME OffInv, [Next]_vars, [Unhurried]_vars PROVE OffInv'
  OBVIOUS
<1>1. CASE UNCHANGED vars
  BY <1>1 DEF vars, OffInv, Loadable, poll, grant, queue, worker
<1> SUFFICES ASSUME Next, Unhurried PROVE OffInv'
  BY <1>1
<1>2. CASE Provider
  <2> USE DEF OffInv, Loadable, poll, grant, queue, worker
  <2>1. CASE BecomeDue     BY <2>1 DEF BecomeDue
  <2>2. CASE TokenAges     BY <2>2 DEF TokenAges
  <2>3. CASE TokenExpires  BY <2>3 DEF TokenExpires
  <2>4. ASSUME NEW m \in Messages, Change(m) PROVE OffInv'
    <3>1. UNCHANGED <<poll, grant, queue, pc>>
      BY <2>4 DEF Change
    <3> QED BY <3>1
  <2> QED BY <1>2, <2>1, <2>2, <2>3, <2>4 DEF Provider
<1>3. CASE Fault
  BY <1>3 DEF OffInv, Unhurried, Fault, Retried, Loadable, poll, grant
<1> QED
  BY <1>2, <1>3, OffUser, OffAsk, OffWork DEF Next

\* Nothing is written but by a run whose connection is in order.
LEMMA LocalGrows ==
  [Next]_vars /\ local = {} /\ local' # {} => Loadable /\ pc \in {"import", "apply"}
<1> SUFFICES ASSUME [Next]_vars, ~ApplyImport, ~ApplyHistory, local = {} PROVE local' = {}
  BY DEF ApplyImport, ApplyHistory
<1>1. CASE UNCHANGED vars \/ Provider \/ User \/ Fault
  BY <1>1 DEF vars, Provider, Change, BecomeDue, TokenAges, TokenExpires, User, StoreGrant, Disconnect,
              RevokeAtGoogle, SyncNow, DeleteData, Fault
<1>2. CASE Ask \/ AskAmiss
  BY <1>2 DEF Ask, StoredToken, RefreshToken, AskProfile, AskList, AskHistory, AskAmiss, RefreshFails,
              AskFails, CursorRefused
<1>3. CASE Work
  BY <1>3 DEF Work, Schedule, Claim, Start, Read, Stop, Beat, LeaseLost, ApplyBegin, ListFull, ApplyDone,
              Finish, RecordFailure, Close
<1> QED
  BY <1>1, <1>2, <1>3 DEF Next

\* Once the imported data is deleted nothing is imported until the user asks
\* for it (google_delete, app/pages.py), if no run was queued or under way then.
THEOREM DeletionsStand == Spec /\ [][Unhurried]_vars => DeletedStaysDeleted
<1> DEFINE Deleted == next = "none" /\ cursor = None /\ local = {} /\ progress = NoProgress
<1>1. Init => OffInv
  BY DEF Init, OffInv
<1>2. OffInv /\ [Next]_vars => [Deleted => local' = {}]_vars
  BY LocalGrows DEF OffInv
<1> QED
  BY <1>1, <1>2, OffNext, PTL DEF Spec, DeletedStaysDeleted

-----------------------------------------------------------------------------
(* "Older items not imported" is said when there are some                    *)

\* No run resumes an import of which the last page was applied: it would list
\* the messages again and count them twice.
NoneCountedTwice ==
  Read => ~(progress.phase = "initial" /\ progress.page = None /\ progress.fetched > 0)

\* In a mailbox that never changed, an import counts the messages it has passed,
\* which are the newest; what is beyond the limit is never here.
Passed(p) == {m \in mailbox : p # None /\ m >= p}
Beyond    == \E m \in mailbox : m \notin Newest(mailbox, MaxMessages)

Counted(prog) ==
  /\ prog.fetched = Cardinality(Passed(prog.page))
  /\ prog.fetched <= MaxMessages
  /\ prog.page # None => \E m \in mailbox : m < prog.page

StoredTruth ==
  /\ local \subseteq Newest(mailbox, MaxMessages)
  /\ truncated => Beyond
  /\ progress.phase = "initial" /\ progress.page # None => Counted(progress)

HeldTruth ==
  /\ pc \in {"begin", "list", "import"} => Counted(run.prog)
  /\ pc = "begin" => run.prog.page = None
  /\ pc = "imported" => run.page.next = run.prog.page /\ (run.prog.page # None => Counted(run.prog))
  /\ pc = "import" =>
       /\ ListSize \in Nat \ {0}
       /\ run.page.fetch = Newest(Older(run.prog.page), ListSize)
       /\ run.page.next = IF run.page.fetch = Older(run.prog.page) THEN None
                          ELSE Oldest(run.page.fetch)
  /\ pc \in {"history", "apply", "applied"} => run.prog.phase = "history"
  /\ pc = "apply" => run.page.fetch = {}
  /\ pc = "done" /\ run.page.next # None => Beyond

TruthInv == history = <<>> => StoredTruth /\ HeldTruth

LEMMA MailboxFinite ==
  ASSUME TypeOK
  PROVE  mailbox \subseteq Nat /\ mailbox \in SUBSET Messages /\ IsFiniteSet(mailbox)
BY GoogleSyncAssumption, FS_Subset DEF TypeOK

LEMMA OlderNotPassed ==
  ASSUME TypeOK, NEW p \in Positions
  PROVE  Older(p) = mailbox \ Passed(p)
<1>1. \A m \in mailbox : m \in Nat
  BY MailboxFinite
<1>2. \A m \in mailbox : ~(p # None /\ m >= p) <=> p = None \/ m < p
  BY <1>1 DEF Positions
<1> QED
  BY <1>2 DEF Older, Passed

\* A page is not longer than asked for.
LEMMA PageIsBounded ==
  ASSUME NEW S \in SUBSET Messages, NEW n \in Nat \ {0}
  PROVE  IsFiniteSet(Newest(S, n)) /\ Cardinality(Newest(S, n)) <= n
<1> DEFINE listed == Newest(S, n)
<1>1. IsFiniteSet(S) /\ S \subseteq Nat
  BY GoogleSyncAssumption, FS_Subset
<1>2. listed \subseteq S /\ IsFiniteSet(listed) /\ Cardinality(listed) \in Nat
  BY <1>1, FS_Subset, FS_CardinalityType DEF Newest
<1>3. CASE listed = {}
  BY <1>3, FS_EmptySet
<1>4. CASE listed # {}
  <2>1. PICK o \in listed : \A k \in listed : o <= k
    <3>1. listed \in SUBSET Nat
      BY <1>1, <1>2
    <3> HIDE DEF listed
    <3> QED
      BY <1>4, <3>1, LeastExists
  <2>2. Cardinality({k \in S : k > o}) < n
    BY <2>1 DEF Newest
  <2>3. listed \ {o} \subseteq {k \in S : k > o}
    <3>1. \A k \in listed : k \in S /\ k \in Nat /\ o \in Nat
      BY <1>1, <1>2
    <3> QED
      BY <2>1, <3>1
  <2>4. /\ IsFiniteSet({k \in S : k > o})
        /\ Cardinality({k \in S : k > o}) \in Nat
        /\ Cardinality(listed \ {o}) <= Cardinality({k \in S : k > o})
    BY <1>1, <2>3, FS_Subset, FS_CardinalityType
  <2>5. Cardinality(listed \ {o}) = Cardinality(listed) - 1
    BY <1>2, <2>1, FS_RemoveElement
  <2> QED
    BY <1>2, <2>2, <2>4, <2>5
<1> QED
  BY <1>2, <1>3, <1>4

\* What a page leaves for the next one is older than all of it.
LEMMA PageLeavesOlder ==
  ASSUME NEW S \in SUBSET Messages, NEW n \in Nat \ {0}, Newest(S, n) # S
  PROVE  /\ Oldest(Newest(S, n)) \in Newest(S, n)
         /\ Oldest(Newest(S, n)) \in Nat
         /\ \A m \in S : m \in Newest(S, n) <=> m >= Oldest(Newest(S, n))
         /\ \E m \in S : m < Oldest(Newest(S, n))
<1> DEFINE listed == Newest(S, n)
<1>1. S \subseteq Nat /\ S # {} /\ listed \subseteq S
  BY GoogleSyncAssumption DEF Newest
<1>2. listed # {} /\ listed \in SUBSET Nat
  BY <1>1, PageIsNotEmpty DEF Newest
<1>3. Oldest(listed) \in listed /\ \A k \in listed : Oldest(listed) <= k
  <2> HIDE DEF listed
  <2> QED
    BY <1>2, OldestIsListed
<1>4. listed # S /\ \A m \in S : m >= Oldest(listed) => m \in listed
  BY PageIsComplete
<1> HIDE DEF listed
<1>5. Oldest(listed) \in Nat
  BY <1>2, <1>3
<1>6. \A m \in S : m \in listed <=> m >= Oldest(listed)
  BY <1>1, <1>3, <1>4, <1>5
<1>7. PICK m \in S : m \notin listed
  BY <1>1, <1>4
<1>8. m < Oldest(listed)
  BY <1>1, <1>5, <1>6, <1>7
<1> QED
  BY <1>3, <1>5, <1>6, <1>8 DEF listed

\* The messages of a page, after those passed, are among the newest.
LEMMA PageIsNewest ==
  ASSUME TypeOK, NEW p \in Positions, NEW n \in Nat \ {0},
         Cardinality(Passed(p)) + n <= MaxMessages
  PROVE  Newest(Older(p), n) \subseteq Newest(mailbox, MaxMessages)
<1> SUFFICES ASSUME NEW m \in Newest(Older(p), n)
             PROVE  m \in Newest(mailbox, MaxMessages)
  OBVIOUS
<1>1. m \in mailbox /\ m \in Older(p) /\ Cardinality({k \in Older(p) : k > m}) < n
  BY DEF Newest, Older
<1>2. Older(p) = mailbox \ Passed(p) /\ Passed(p) \subseteq mailbox /\ IsFiniteSet(mailbox)
  BY OlderNotPassed, MailboxFinite DEF Passed
<1>3. {k \in mailbox : k > m} \subseteq Passed(p) \cup {k \in Older(p) : k > m}
  BY <1>2
<1>4. IsFiniteSet(Passed(p)) /\ IsFiniteSet({k \in Older(p) : k > m})
  <2>1. {k \in Older(p) : k > m} \subseteq mailbox
    BY <1>2
  <2> QED
    BY <1>2, <2>1, FS_Subset
<1>5. /\ IsFiniteSet(Passed(p) \cup {k \in Older(p) : k > m})
      /\ Cardinality(Passed(p) \cup {k \in Older(p) : k > m})
           = Cardinality(Passed(p)) + Cardinality({k \in Older(p) : k > m})
             - Cardinality(Passed(p) \cap {k \in Older(p) : k > m})
  BY <1>4, FS_Union
<1>6. Passed(p) \cap {k \in Older(p) : k > m} = {}
  BY <1>2
<1>7. Cardinality(Passed(p) \cap {k \in Older(p) : k > m}) = 0
  BY <1>6, FS_EmptySet
<1>8. /\ Cardinality({k \in mailbox : k > m})
           <= Cardinality(Passed(p) \cup {k \in Older(p) : k > m})
      /\ IsFiniteSet({k \in mailbox : k > m})
  BY <1>3, <1>5, FS_Subset
<1>9. /\ Cardinality({k \in mailbox : k > m}) \in Nat
      /\ Cardinality(Passed(p)) \in Nat /\ Cardinality({k \in Older(p) : k > m}) \in Nat
  BY <1>4, <1>8, FS_CardinalityType
<1>10. Cardinality({k \in mailbox : k > m}) < MaxMessages
  BY <1>1, <1>5, <1>7, <1>8, <1>9, GoogleSyncAssumption
<1> QED
  BY <1>1, <1>10 DEF Newest

\* When a page is not the last, all down to its oldest message is passed.
LEMMA PageIsPassed ==
  ASSUME TypeOK, NEW p \in Positions, NEW n \in Nat \ {0}, Newest(Older(p), n) # Older(p),
         NEW q \in Nat, q = Oldest(Newest(Older(p), n))
  PROVE  /\ Cardinality(Passed(q))
              = Cardinality(Passed(p)) + Cardinality(Newest(Older(p), n))
         /\ \E m \in mailbox : m < q
<1> DEFINE listed == Newest(Older(p), n)
<1>1. /\ Older(p) = mailbox \ Passed(p) /\ Passed(p) \subseteq mailbox
      /\ IsFiniteSet(mailbox) /\ mailbox \subseteq Nat /\ Older(p) \in SUBSET Messages
  BY OlderNotPassed, MailboxFinite DEF Passed
<1>2. /\ q \in listed
      /\ \A m \in Older(p) : m \in listed <=> m >= q
      /\ \E m \in Older(p) : m < q
  BY <1>1, PageLeavesOlder
<1>3. listed \subseteq Older(p) /\ q \in Older(p)
  BY <1>2 DEF Newest
<1>4. \A m \in Passed(p) : m >= q
  <2> SUFFICES ASSUME NEW m \in Passed(p) PROVE m >= q
    OBVIOUS
  <2>1. m \in Nat /\ p # None /\ m >= p
    BY <1>1 DEF Passed
  <2>2. p \in Nat /\ q < p
    BY <1>3, <2>1 DEF Older, Positions
  <2> QED
    BY <2>1, <2>2
<1>5. Passed(q) = Passed(p) \cup listed
  <2>1. q # None
    BY DEF None
  <2>2. \A m \in mailbox : m >= q <=> m \in Passed(p) \cup listed
    <3> HIDE DEF listed
    <3> QED
      BY <1>1, <1>2, <1>3, <1>4
  <2>3. Passed(q) = {m \in mailbox : m >= q}
    BY <2>1 DEF Passed
  <2> HIDE DEF listed
  <2> QED
    BY <1>1, <1>3, <2>2, <2>3
<1>6. Passed(p) \cap listed = {}
  <2> HIDE DEF listed
  <2> QED
    BY <1>1, <1>3
<1>7. IsFiniteSet(Passed(p)) /\ IsFiniteSet(listed)
  <2>1. listed \subseteq mailbox
    <3> HIDE DEF listed
    <3> QED
      BY <1>1, <1>3
  <2> HIDE DEF listed
  <2> QED
    BY <1>1, <2>1, FS_Subset
<1> HIDE DEF listed
<1>8. Cardinality(Passed(p) \cup listed)
        = Cardinality(Passed(p)) + Cardinality(listed) - Cardinality(Passed(p) \cap listed)
  BY <1>7, FS_Union
<1>9. Cardinality(Passed(p) \cap listed) = 0
  BY <1>6, FS_EmptySet
<1>10. Cardinality(Passed(p)) \in Nat /\ Cardinality(listed) \in Nat
  BY <1>7, FS_CardinalityType
<1>11. \E m \in mailbox : m < q
  BY <1>1, <1>2
<1> QED
  BY <1>5, <1>8, <1>9, <1>10, <1>11 DEF listed

-----------------------------------------------------------------------------
(* Every step of an import counts                                            *)

\* Neither the stream nor the messages come closer to the limit.
LEMMA TruthStands ==
  ASSUME StoredTruth, UNCHANGED mailbox, local' \subseteq local, truncated' => truncated,
         progress' = progress \/ progress' = NoProgress
  PROVE  StoredTruth'
BY DEF StoredTruth, Beyond, Newest, Counted, Passed, NoProgress

LEMMA HeldTruthQuiet ==
  ASSUME HeldTruth, UNCHANGED mailbox, pc' = pc, run'.prog = run.prog, run'.page = run.page
  PROVE  HeldTruth'
BY DEF HeldTruth, Counted, Passed, ListSize, Remaining, Older, Newest, Beyond

LEMMA HeldTruthNothing ==
  ASSUME pc' \notin {"begin", "list", "import", "imported", "done", "history", "apply", "applied"}
  PROVE  HeldTruth'
BY DEF HeldTruth

LEMMA TruthAside ==
  ASSUME TypeOK, StoredTruth, HeldTruth, Aside \/ Ending \/ DeleteData \/ UNCHANGED vars
  PROVE  StoredTruth' /\ HeldTruth'
<1>1. CASE Aside \/ DeleteData \/ UNCHANGED vars
  <2>1. UNCHANGED <<mailbox, pc>>
    BY <1>1 DEF Aside, BecomeDue, TokenAges, TokenExpires, StoreGrant, Disconnect, RevokeAtGoogle,
                SyncNow, Schedule, DeleteData, vars, remote, worker
  <2>2. /\ local' \subseteq local /\ (truncated' => truncated)
        /\ progress' = progress \/ progress' = NoProgress
    BY <1>1 DEF Aside, BecomeDue, TokenAges, TokenExpires, StoreGrant, Disconnect, RevokeAtGoogle,
                SyncNow, Schedule, DeleteData, vars, stream
  <2>3. run' = run \/ \E b \in BOOLEAN : run' = [run EXCEPT !.tok = b]
    <3>1. run.tok \in BOOLEAN
      BY TypeParts DEF RunOK, RunType
    <3> QED
      BY <1>1, <3>1 DEF Aside, BecomeDue, TokenAges, TokenExpires, StoreGrant, Disconnect,
                        RevokeAtGoogle, SyncNow, Schedule, DeleteData, vars, worker
  <2>4. run'.prog = run.prog /\ run'.page = run.page
    BY <2>3, TypeParts DEF RunOK, RunType
  <2> QED
    BY <2>1, <2>2, <2>4, TruthStands, HeldTruthQuiet
<1>2. CASE Ending
  <2>1. UNCHANGED <<mailbox, local, progress, truncated>>
    BY <1>2 DEF Ending, Claim, Fault, Close, LeaseLost, Start, Stop, StoredToken, RefreshToken,
                RefreshFails, AskFails, Finish, RecordFailure, remote, stream
  <2>2. pc' \in {"idle", "start", "token", "read", "failing", "close", "finish"}
    BY <1>2 DEF Ending, Claim, Fault, Close, LeaseLost, Start, Stop, StoredToken, RefreshToken,
                RefreshFails, AskFails, Finish, RecordFailure
  <2> QED
    BY <2>1, <2>2, TruthStands, HeldTruthNothing
<1> QED
  BY <1>1, <1>2

\* A run that begins an import, or resumes one, or reads a history without a
\* record.
LEMMA TruthBegins ==
  ASSUME TypeInv, StoredTruth, HeldTruth, history = <<>>, NoneCountedTwice,
         Read \/ AskProfile \/ CursorRefused \/ ApplyBegin \/ AskHistory
  PROVE  StoredTruth' /\ HeldTruth'
<1>1. run \in RunType /\ progress \in ProgressType
  BY TypeParts DEF TypeInv, RunOK, StreamOK
<1>2. Passed(None) = {} /\ Cardinality(Passed(None)) = 0
  BY FS_EmptySet DEF Passed
<1>3. CASE Read
  <2>1. UNCHANGED <<mailbox, local, progress, truncated>>
    BY <1>3 DEF Read, remote, stream
  <2>2. pc' \in {"list", "history", "profile"}
    BY <1>3 DEF Read
  <2>3. pc' = "list" => Counted(run.prog)'
    <3> SUFFICES ASSUME pc' = "list" PROVE Counted(run.prog)'
      OBVIOUS
    <3>1. progress.phase = "initial" /\ run'.prog = progress
      BY <1>1, <1>3 DEF Read, RunType
    <3>2. CASE progress.page = None
      <4>1. progress.fetched = 0
        BY <1>1, <1>3, <3>1, <3>2 DEF NoneCountedTwice, ProgressType
      <4> QED
        BY <1>2, <2>1, <3>1, <3>2, <4>1, GoogleSyncAssumption DEF Counted, Passed
    <3>3. CASE progress.page # None
      BY <2>1, <3>1, <3>3 DEF StoredTruth, Counted, Passed
    <3> QED
      BY <3>2, <3>3
  <2>4. pc' = "history" => run'.prog.phase = "history"
    BY <1>1, <1>3 DEF Read, RunType, HistoryProgress
  <2>5. HeldTruth'
    BY <2>2, <2>3, <2>4 DEF HeldTruth
  <2> QED
    BY <2>1, <2>5, TruthStands
<1>4. CASE AskProfile
  <2>1. UNCHANGED <<mailbox, local, progress, truncated>> /\ pc' = "begin"
    BY <1>4 DEF AskProfile, remote, stream
  <2>2. run'.prog.page = None /\ run'.prog.fetched = 0
    BY <1>1, <1>4 DEF AskProfile, RunType
  <2>3. Counted(run.prog)'
    BY <1>2, <2>1, <2>2, GoogleSyncAssumption DEF Counted, Passed
  <2> QED
    BY <2>1, <2>2, <2>3, TruthStands DEF HeldTruth
<1>5. CASE CursorRefused
  <2>1. UNCHANGED <<mailbox, local, progress, truncated>> /\ pc' = "profile"
    BY <1>5 DEF CursorRefused, remote, stream
  <2> QED
    BY <2>1, TruthStands, HeldTruthNothing
<1>6. CASE ApplyBegin
  <2>1. UNCHANGED <<mailbox, local, run, truncated>> /\ pc = "begin" /\ pc' = "list"
        /\ progress' = run.prog
    BY <1>6 DEF ApplyBegin, remote
  <2>2. Counted(run.prog)' /\ run.prog.page = None
    BY <2>1 DEF HeldTruth, Counted, Passed
  <2>3. StoredTruth'
    BY <2>1, <2>2 DEF StoredTruth, Beyond, Newest
  <2> QED
    BY <2>1, <2>2, <2>3 DEF HeldTruth
<1>7. CASE AskHistory
  <2>1. UNCHANGED <<mailbox, local, progress, truncated>> /\ pc = "history" /\ pc' = "apply"
    BY <1>7 DEF AskHistory, remote, stream
  <2> DEFINE from == IF run.prog.page = None THEN run.prog.start ELSE run.prog.page
  <2>2. from \in Nat
    BY <1>1, <2>1 DEF TypeInv, HistoryStarts, RunType, ProgressType, Positions
  <2>3. Len(history) = 0
    OBVIOUS
  <2>4. Upto(from) = 0
    BY <2>2, <2>3, GoogleSyncAssumption DEF Upto
  <2>5. (from + 1)..0 = {}
    BY <2>2
  <2>6. Came(from, 0) = {}
    BY <2>5 DEF Came, Touched
  <2>7. run'.page.fetch = {} /\ run'.prog = run.prog
    <3>1. run' = [run EXCEPT !.page =
                    [touched |-> Touched(from, Upto(from)), fetch |-> Came(from, Upto(from)),
                     next |-> IF Upto(from) < Len(history) THEN Upto(from) ELSE None,
                     seen |-> Len(history)]]
      BY <1>7 DEF AskHistory
    <3> HIDE DEF from
    <3> QED
      BY <1>1, <2>4, <2>6, <3>1 DEF RunType
  <2>8. HeldTruth'
    BY <2>1, <2>7 DEF HeldTruth
  <2> QED
    BY <2>1, <2>8, TruthStands
<1> QED
  BY <1>3, <1>4, <1>5, <1>6, <1>7

LEMMA TruthList ==
  ASSUME TypeOK, StoredTruth, HeldTruth, AskList
  PROVE  StoredTruth' /\ HeldTruth'
<1> DEFINE older  == Older(run.prog.page)
           listed == Newest(older, ListSize)
           page   == [touched |-> {}, fetch |-> listed,
                      next |-> IF listed = older THEN None ELSE Oldest(listed),
                      seen |-> Len(history)]
<1>1. UNCHANGED <<mailbox, local, progress, truncated>> /\ pc = "list" /\ pc' = "import"
  BY DEF AskList, remote, stream
<1>2. run \in RunType
  BY TypeParts DEF RunOK
<1>3. run'.prog = run.prog /\ run'.page = page
  <2>1. run' = [run EXCEPT !.page = page]
    BY DEF AskList
  <2> HIDE DEF page
  <2> QED
    BY <1>2, <2>1 DEF RunType
<1>4. ListSize \in Nat \ {0}
  <2>1. run.prog.fetched \in Nat
    BY <1>2 DEF RunType, ProgressType
  <2> QED
    BY <2>1, GoogleSyncAssumption DEF ListSize, Remaining, AskList
<1>5. Older(run.prog.page)' = older /\ ListSize' = ListSize
  BY <1>1, <1>3 DEF Older, ListSize, Remaining
<1>6. run'.page.fetch = listed /\ run'.page.next = IF listed = older THEN None ELSE Oldest(listed)
  BY <1>3
<1>7. Counted(run.prog)'
  BY <1>1, <1>3 DEF HeldTruth, Counted, Passed
<1> HIDE DEF older
<1>8. HeldTruth'
  BY <1>1, <1>4, <1>5, <1>6, <1>7 DEF HeldTruth
<1> QED
  BY <1>1, <1>8, TruthStands

\* An import at its limit that has a page to go on from leaves messages out.
LEMMA TruthFull ==
  ASSUME TypeOK, StoredTruth, HeldTruth, ListFull
  PROVE  StoredTruth' /\ HeldTruth'
<1>1. UNCHANGED <<mailbox, local, progress, truncated>> /\ pc = "list" /\ pc' = "done"
  BY DEF ListFull, remote, stream
<1>2. run \in RunType
  BY TypeParts DEF RunOK
<1>3. run'.page.next = run.prog.page
  BY <1>2 DEF ListFull, RunType, PageType
<1>4. ASSUME run.prog.page # None PROVE Beyond
  <2>1. /\ run.prog.fetched = Cardinality(Passed(run.prog.page))
        /\ \E m \in mailbox : m < run.prog.page
    BY <1>1, <1>4 DEF HeldTruth, Counted
  <2>2. PICK m \in mailbox : m < run.prog.page
    BY <2>1
  <2>3. Passed(run.prog.page) \subseteq {k \in mailbox : k > m}
    <3>1. run.prog.page \in Nat /\ m \in Nat /\ \A k \in mailbox : k \in Nat
      BY <1>2, <1>4, MailboxFinite DEF RunType, ProgressType, Positions
    <3>2. \A k \in mailbox : k >= run.prog.page => k > m
      BY <2>2, <3>1
    <3> QED
      BY <3>2 DEF Passed
  <2>4. /\ IsFiniteSet({k \in mailbox : k > m})
        /\ Cardinality(Passed(run.prog.page)) <= Cardinality({k \in mailbox : k > m})
        /\ Cardinality({k \in mailbox : k > m}) \in Nat
    BY <2>3, MailboxFinite, FS_Subset, FS_CardinalityType
  <2>5. run.prog.fetched \in Nat /\ run.prog.fetched >= MaxMessages
    BY <1>2, GoogleSyncAssumption DEF ListFull, Remaining, RunType, ProgressType
  <2>6. ~(Cardinality({k \in mailbox : k > m}) < MaxMessages)
    BY <2>1, <2>4, <2>5, GoogleSyncAssumption
  <2> QED
    BY <2>6 DEF Beyond, Newest
<1>5. Beyond => Beyond'
  BY <1>1 DEF Beyond, Newest
<1> QED
  BY <1>1, <1>3, <1>4, <1>5, TruthStands DEF HeldTruth

LEMMA TruthBeat ==
  ASSUME StoredTruth, HeldTruth, Beat
  PROVE  StoredTruth' /\ HeldTruth'
<1>1. UNCHANGED <<mailbox, local, progress, truncated, run>>
  BY DEF Beat, remote, stream
<1>2. /\ pc \in {"imported", "applied"}
      /\ pc' = IF run.page.next # None THEN IF pc = "imported" THEN "list" ELSE "history"
               ELSE IF pc = "imported" THEN "done" ELSE "finish"
  BY DEF Beat
<1>3. pc' = "list" => Counted(run.prog)'
  BY <1>1, <1>2 DEF HeldTruth, Counted, Passed
<1>4. /\ pc' \in {"list", "history", "done", "finish"}
      /\ pc' = "history" => pc = "applied"
      /\ pc' = "done" => run.page.next = None
  <2>1. CASE run.page.next # None
    BY <1>2, <2>1
  <2>2. CASE run.page.next = None
    BY <1>2, <2>2
  <2> QED
    BY <2>1, <2>2
<1>5. HeldTruth'
  BY <1>1, <1>3, <1>4 DEF HeldTruth
<1> QED
  BY <1>1, <1>5, TruthStands

\* A page of an import: all of it is found, and it counts what it passes.
LEMMA TruthImport ==
  ASSUME TypeOK, StoredTruth, HeldTruth, history = <<>>, ApplyImport
  PROVE  StoredTruth' /\ HeldTruth'
<1> DEFINE p == run.prog.page
           n == ListSize
           listed == Newest(Older(p), n)
<1>1. UNCHANGED <<mailbox, truncated>> /\ pc = "import" /\ pc' = "imported"
  BY DEF ApplyImport, remote
<1>2. /\ run \in RunType /\ p \in Positions /\ run.prog.fetched \in Nat
      /\ run.prog \in ProgressType
  BY TypeParts DEF RunOK, RunType, ProgressType
<1>3. /\ n \in Nat \ {0} /\ run.page.fetch = listed
      /\ run.page.next = IF listed = Older(p) THEN None ELSE Oldest(listed)
      /\ Counted(run.prog)
  BY <1>1 DEF HeldTruth
<1>4. listed \subseteq mailbox /\ Older(p) \in SUBSET Messages
  BY MailboxFinite DEF Newest, Older
<1>5. n <= MaxMessages - run.prog.fetched
  BY <1>2, GoogleSyncAssumption DEF ListSize, Remaining
<1>6. IsFiniteSet(listed) /\ Cardinality(listed) \in Nat /\ Cardinality(listed) <= n
  BY <1>3, <1>4, PageIsBounded, FS_CardinalityType
<1>7. PICK found \in Found(run.page.fetch, run.page.seen) :
        \E trashed \in SUBSET (run.page.fetch \ found) :
          LET prog == [run.prog EXCEPT !.page = run.page.next,
                                       !.fetched = @ + Cardinality(found \cup trashed)]
          IN  /\ local' = (local \cup found) \ trashed /\ progress' = prog
              /\ run' = [run EXCEPT !.prog = prog]
  BY DEF ApplyImport
<1>8. PICK trashed \in SUBSET (run.page.fetch \ found) :
        LET prog == [run.prog EXCEPT !.page = run.page.next,
                                     !.fetched = @ + Cardinality(found \cup trashed)]
        IN  /\ local' = (local \cup found) \ trashed /\ progress' = prog
            /\ run' = [run EXCEPT !.prog = prog]
  BY <1>7
<1>9. found = listed /\ trashed = {}
  <2>1. ChangedSince(run.page.seen) = {}
    <3>1. Len(history) = 0 /\ run.page.seen \in Nat
      BY <1>2 DEF RunType, PageType
    <3>2. (run.page.seen + 1)..Len(history) = {}
      BY <3>1
    <3> QED
      BY <3>2 DEF ChangedSince
  <2>2. found = listed
    <3> HIDE DEF listed
    <3> QED
      BY <1>3, <1>4, <2>1 DEF Found
  <2> HIDE DEF listed
  <2> QED
    BY <1>3, <2>2
<1> HIDE DEF listed, p, n
<1>10. /\ local' = local \cup listed
       /\ progress'.page = run.page.next
       /\ progress'.fetched = run.prog.fetched + Cardinality(listed)
       /\ run'.prog = progress' /\ run'.page = run.page
  <2>1. found \cup trashed = listed /\ (local \cup found) \ trashed = local \cup listed
    BY <1>9
  <2> QED
    BY <1>2, <1>8, <2>1 DEF RunType, ProgressType
<1>11. /\ run.prog.fetched = Cardinality(Passed(p))
       /\ Cardinality(Passed(p)) + n <= MaxMessages
  BY <1>2, <1>3, <1>5, GoogleSyncAssumption DEF Counted, p
<1>12. listed \subseteq Newest(mailbox, MaxMessages)
  BY <1>2, <1>3, <1>11, PageIsNewest DEF listed
<1>13. ASSUME progress'.page # None PROVE Counted(progress)'
  <2>1. listed # Older(p) /\ progress'.page = Oldest(listed)
    BY <1>3, <1>10, <1>13
  <2>2. progress'.page \in Nat
    BY <1>3, <1>4, <2>1, PageLeavesOlder DEF listed
  <2>3. PICK q \in Nat : q = progress'.page
    BY <2>2
  <2>4. /\ Cardinality(Passed(q)) = Cardinality(Passed(p)) + Cardinality(listed)
        /\ \E m \in mailbox : m < q
    BY <1>2, <1>3, <2>1, <2>3, PageIsPassed DEF listed
  <2>6. progress'.fetched <= MaxMessages
    BY <1>2, <1>3, <1>5, <1>6, <1>10, GoogleSyncAssumption
  <2>7. progress'.fetched = Cardinality(Passed(progress.page)')
    <3>1. Passed(progress.page)' = Passed(q)
      BY <1>1, <2>3 DEF Passed
    <3> QED
      BY <1>10, <1>11, <2>4, <3>1
  <2> QED
    BY <1>1, <2>3, <2>4, <2>6, <2>7 DEF Counted
<1>14. Newest(mailbox, MaxMessages)' = Newest(mailbox, MaxMessages) /\ (Beyond => Beyond')
  BY <1>1 DEF Newest, Beyond
<1>15. StoredTruth'
  BY <1>1, <1>10, <1>12, <1>13, <1>14 DEF StoredTruth
<1>16. HeldTruth'
  BY <1>1, <1>10, <1>13 DEF HeldTruth
<1> QED
  BY <1>15, <1>16

LEMMA TruthApplied ==
  ASSUME TypeOK, StoredTruth, HeldTruth, ApplyDone \/ ApplyHistory
  PROVE  StoredTruth' /\ HeldTruth'
<1>1. CASE ApplyDone
  <2>1. UNCHANGED <<mailbox, local>> /\ pc = "done" /\ pc' = "finish" /\ progress' = NoProgress
        /\ truncated' = (run.page.next # None)
    BY <1>1 DEF ApplyDone, remote
  <2>2. truncated' => Beyond
    BY <2>1 DEF HeldTruth
  <2> QED
    BY <2>1, <2>2, HeldTruthNothing DEF StoredTruth, Beyond, Newest, NoProgress
<1>2. CASE ApplyHistory
  <2>1. UNCHANGED <<mailbox, truncated>> /\ pc = "apply" /\ pc' = "applied"
    BY <1>2 DEF ApplyHistory, remote
  <2>2. run.page.fetch = {}
    BY <2>1 DEF HeldTruth
  <2>3. local' \subseteq local
    BY <1>2, <2>2 DEF ApplyHistory, Found
  <2>4. run \in RunType /\ run.prog \in ProgressType /\ run.prog.phase = "history"
    BY <2>1, TypeParts DEF HeldTruth, RunOK, RunType
  <2>5. /\ run' = [run EXCEPT !.prog = [run.prog EXCEPT !.page = run.page.next]]
        /\ \/ progress' = progress \/ progress' = NoProgress
           \/ progress' = [run.prog EXCEPT !.page = run.page.next]
    BY <1>2 DEF ApplyHistory, Advance
  <2>6. run'.prog.phase = "history" /\ (progress'.phase = "initial" => progress' = progress)
    BY <2>4, <2>5 DEF RunType, ProgressType, NoProgress
  <2>7. StoredTruth'
    BY <2>1, <2>3, <2>6 DEF StoredTruth, Beyond, Newest, Counted, Passed
  <2>8. HeldTruth'
    BY <2>1, <2>6 DEF HeldTruth
  <2> QED
    BY <2>7, <2>8
<1> QED
  BY <1>1, <1>2

LEMMA TruthInit ==
  ASSUME Init
  PROVE  TruthInv
BY DEF Init, TruthInv, StoredTruth, HeldTruth, NoProgress, Idle

LEMMA TruthNext ==
  ASSUME TypeInv, TruthInv, [Next]_vars, [NoneCountedTwice]_vars
  PROVE  TruthInv'
<1> SUFFICES ASSUME history' = <<>> PROVE StoredTruth' /\ HeldTruth'
  BY DEF TruthInv
<1>1. TypeOK /\ history \in Seq([id : Messages, in : BOOLEAN])
  BY DEF TypeInv, TypeOK
<1>2. CASE \E m \in Messages : Change(m)
  <2>1. PICK m \in Messages : history' = Append(history, [id |-> m, in |-> m \notin mailbox])
    BY <1>2 DEF Change
  <2>2. Len(history') = Len(history) + 1 /\ Len(history) \in Nat
    BY <1>1, <2>1
  <2>3. Len(history') = 0
    OBVIOUS
  <2> QED
    BY <2>2, <2>3
<1>3. CASE Aside \/ Ending \/ DeleteData \/ UNCHANGED vars
  <2>1. history = <<>>
    BY <1>3 DEF Aside, BecomeDue, TokenAges, TokenExpires, StoreGrant, Disconnect, RevokeAtGoogle,
                SyncNow, Schedule, DeleteData, Ending, Claim, Fault, Close, LeaseLost, Start, Stop,
                StoredToken, RefreshToken, RefreshFails, AskFails, Finish, RecordFailure, vars, remote
  <2> QED
    BY <1>1, <1>3, <2>1, TruthAside DEF TruthInv
<1>4. CASE Read \/ AskProfile \/ CursorRefused \/ ApplyBegin \/ AskHistory
  <2>1. history = <<>>
    BY <1>4 DEF Read, AskProfile, CursorRefused, ApplyBegin, AskHistory, remote
  <2>2. NoneCountedTwice
    BY <1>4 DEF Read, AskProfile, CursorRefused, ApplyBegin, AskHistory, vars, NoneCountedTwice,
                worker
  <2> QED
    BY <1>4, <2>1, <2>2, TruthBegins DEF TruthInv
<1>5. CASE AskList \/ ListFull \/ Beat \/ ApplyImport \/ ApplyDone \/ ApplyHistory
  <2>1. history = <<>>
    BY <1>5 DEF AskList, ListFull, Beat, ApplyImport, ApplyDone, ApplyHistory, remote
  <2>2. StoredTruth /\ HeldTruth
    BY <2>1 DEF TruthInv
  <2> QED
    BY <1>1, <1>5, <2>1, <2>2, TruthList, TruthFull, TruthBeat, TruthImport, TruthApplied
<1> QED
  BY <1>2, <1>3, <1>4, <1>5 DEF Next, Provider, User, Ask, AskAmiss, Work, Aside, Ending

\* "Limit reached: older items not imported" is shown of a mailbox that never
\* changed only when it has messages that are not here, unless a run resumes
\* an import after its last page was applied and before it was closed:
\* progress.fetched then counts the messages of that page twice.
THEOREM TruncationTrue == Spec /\ [][NoneCountedTwice]_vars => []TruncatedIsTrue
<1>1. TypeInv /\ TruthInv => TruncatedIsTrue
  <2> SUFFICES ASSUME TruthInv, truncated, history = <<>> PROVE ~(mailbox \subseteq local)
    BY DEF TruncatedIsTrue
  <2>1. local \subseteq Newest(mailbox, MaxMessages) /\ Beyond
    BY DEF TruthInv, StoredTruth
  <2> QED
    BY <2>1 DEF Beyond
<1>2. Init => TruthInv
  BY TruthInit
<1>3. TypeInv /\ TruthInv /\ [Next]_vars /\ [NoneCountedTwice]_vars => TruthInv'
  BY TruthNext
<1> QED
  BY <1>1, <1>2, <1>3, TypeInvInductive, PTL DEF Spec

-----------------------------------------------------------------------------
(* "Reconnect" is asked of a grant that is not in order                      *)

\* The access token a run holds stays accepted to its end, and no new consent
\* is stored while a run is under way.
TokensOutlive ==
  /\ ~TokenExpires
  /\ (\E scope \in Consents, offline \in BOOLEAN : StoreGrant(scope, offline)) => pc = "idle"

Holding == pc \in {"read", "profile", "begin", "list", "import", "imported", "done",
                   "history", "apply", "applied"}

\* A refusal, and a token that will be refused, come of a grant that was
\* withdrawn or forgotten.
RefusedInv ==
  /\ conn = "reconnect_required" => refresh # "valid"
  /\ access = "void" => refresh = "dead"
  /\ Holding /\ ~run.tok => refresh # "valid"
  /\ pc = "failing" /\ run.err = "auth" => refresh # "valid"

LEMMA RefusedUser == RefusedInv /\ TypeOK /\ TokensOutlive /\ User => RefusedInv'
<1> SUFFICES ASSUME RefusedInv, TypeOK, TokensOutlive, User PROVE RefusedInv'
  OBVIOUS
<1> USE DEF RefusedInv, Holding
<1>1. ASSUME NEW scope \in Consents, NEW offline \in BOOLEAN, StoreGrant(scope, offline)
      PROVE  RefusedInv'
  <2>1. pc = "idle"
    BY <1>1 DEF TokensOutlive
  <2>2. pc' = "idle" /\ access' = "fresh"
    BY <1>1, <2>1 DEF StoreGrant, worker
  <2>3. conn' = "reconnect_required" => refresh' # "valid"
    BY <1>1 DEF StoreGrant
  <2> QED BY <2>2, <2>3
<1>2. CASE Disconnect
  BY <1>2 DEF Disconnect
<1>3. CASE RevokeAtGoogle
  BY <1>3 DEF RevokeAtGoogle
<1>4. CASE SyncNow \/ DeleteData
  BY <1>4 DEF SyncNow, DeleteData, grant, worker
<1> QED
  BY <1>1, <1>2, <1>3, <1>4 DEF User

\* The run holds what it held, and goes from where it holds a token to where
\* it holds one or needs none.
Onwards ==
  /\ UNCHANGED <<conn, refresh, access>>
  /\ run'.tok = run.tok
  /\ pc' # "failing"
  /\ Holding' => Holding

LEMMA RefusedOnwards == RefusedInv /\ Onwards => RefusedInv'
  BY DEF RefusedInv, Onwards, Holding

LEMMA RefusedAsk == RefusedInv /\ TypeOK /\ (Ask \/ AskAmiss) => RefusedInv'
<1> SUFFICES ASSUME RefusedInv, TypeOK, Ask \/ AskAmiss PROVE RefusedInv'
  OBVIOUS
<1>0. run \in RunType
  BY TypeParts DEF RunOK
<1>1. CASE StoredToken
  <2>1. run'.tok = (access = "fresh") /\ pc' = "read" /\ UNCHANGED <<conn, refresh, access>>
    BY <1>0, <1>1 DEF StoredToken, grant, RunType
  <2>2. access \in {"fresh", "void"}
    BY <1>1 DEF StoredToken
  <2> QED BY <2>1, <2>2 DEF RefusedInv, Holding
<1>2. ASSUME NEW scope \in Consents, RefreshToken(scope) PROVE RefusedInv'
  <2>1. run'.tok = TRUE /\ pc' = "read" /\ access' = "fresh" /\ UNCHANGED <<conn, refresh>>
    BY <1>0, <1>2 DEF RefreshToken, RunType
  <2> QED BY <2>1 DEF RefusedInv, Holding
<1>3. CASE AskProfile \/ AskList \/ AskHistory \/ CursorRefused
  <2>1. Onwards
    <3>1. CASE AskProfile    BY <1>0, <3>1 DEF AskProfile, Onwards, Holding, grant, RunType
    <3>2. CASE AskList       BY <1>0, <3>2 DEF AskList, Onwards, Holding, grant, RunType
    <3>3. CASE AskHistory    BY <1>0, <3>3 DEF AskHistory, Onwards, Holding, grant, RunType
    <3>4. CASE CursorRefused BY <3>4 DEF CursorRefused, Onwards, Holding, grant
    <3> QED BY <1>3, <3>1, <3>2, <3>3, <3>4
  <2> QED BY <2>1, RefusedOnwards
<1>4. ASSUME NEW err \in {"auth", "forbidden", "outage"}, RefreshFails(err) \/ AskFails(err)
      PROVE  RefusedInv'
  <2>1. run'.err = err /\ pc' = "failing" /\ UNCHANGED <<conn, refresh, access>>
    BY <1>0, <1>4 DEF RefreshFails, AskFails, grant, RunType
  <2>2. err = "auth" => refresh # "valid"
    <3>1. CASE RefreshFails(err)  BY <3>1 DEF RefreshFails
    <3>2. CASE AskFails(err)      BY <3>2 DEF AskFails, Asking, RefusedInv, Holding
    <3> QED BY <1>4, <3>1, <3>2
  <2> QED BY <2>1, <2>2 DEF RefusedInv, Holding
<1> QED
  BY <1>1, <1>2, <1>3, <1>4 DEF Ask, AskAmiss

LEMMA RefusedWork == RefusedInv /\ TypeOK /\ Work => RefusedInv'
<1> SUFFICES ASSUME RefusedInv, TypeOK, Work PROVE RefusedInv'
  OBVIOUS
<1>0. run \in RunType
  BY TypeParts DEF RunOK
<1>1. CASE Schedule \/ Claim \/ Stop \/ Beat \/ Finish
  <2>1. Onwards
    <3>1. CASE Schedule BY <3>1 DEF Schedule, Onwards, Holding, grant, worker
    <3>2. CASE Claim    BY <3>2 DEF Claim, Onwards, Holding, grant
    <3>3. CASE Stop     BY <3>3 DEF Stop, Onwards, Holding, grant
    <3>4. CASE Beat     BY <3>4 DEF Beat, Onwards, Holding, grant
    <3>5. CASE Finish   BY <3>5 DEF Finish, Onwards, Holding, grant
    <3> QED BY <1>1, <3>1, <3>2, <3>3, <3>4, <3>5
  <2> QED BY <2>1, RefusedOnwards
<1>2. CASE Start \/ LeaseLost \/ Close
  <2>1. UNCHANGED <<conn, refresh, access>> /\ pc' \in {"idle", "token"}
    BY <1>2 DEF Start, LeaseLost, Close, grant
  <2> QED BY <2>1 DEF RefusedInv, Holding
<1>3. CASE Read
  <2>1. Onwards
    BY <1>0, <1>3 DEF Read, Onwards, Holding, grant, RunType
  <2> QED BY <2>1, RefusedOnwards
<1>4. CASE ApplyBegin \/ ApplyImport \/ ListFull \/ ApplyDone \/ ApplyHistory
  <2>1. Onwards
    <3>1. CASE ApplyBegin   BY <3>1 DEF ApplyBegin, Onwards, Holding, grant
    <3>2. CASE ApplyImport
      <4>1. PICK prog : run' = [run EXCEPT !.prog = prog]
        BY <3>2 DEF ApplyImport
      <4> QED BY <1>0, <3>2, <4>1 DEF ApplyImport, Onwards, Holding, grant, RunType
    <3>3. CASE ListFull     BY <1>0, <3>3 DEF ListFull, Onwards, Holding, grant, RunType
    <3>4. CASE ApplyDone    BY <3>4 DEF ApplyDone, Onwards, Holding, grant
    <3>5. CASE ApplyHistory BY <1>0, <3>5 DEF ApplyHistory, Onwards, Holding, grant, RunType
    <3> QED BY <1>4, <3>1, <3>2, <3>3, <3>4, <3>5
  <2> QED BY <2>1, RefusedOnwards
<1>5. CASE RecordFailure
  <2>1. pc = "failing" /\ pc' = "close" /\ UNCHANGED refresh
    BY <1>5 DEF RecordFailure
  <2>2. CASE run.err = "auth"
    BY <1>5, <2>1, <2>2 DEF RecordFailure, RefusedInv, Holding
  <2>3. CASE run.err # "auth"
    <3>1. UNCHANGED <<conn, access>>
      BY <1>5, <2>3 DEF RecordFailure
    <3> QED BY <2>1, <3>1 DEF RefusedInv, Holding
  <2> QED BY <2>2, <2>3
<1> QED
  BY <1>1, <1>2, <1>3, <1>4, <1>5 DEF Work

LEMMA RefusedNext == RefusedInv /\ TypeOK /\ [Next]_vars /\ [TokensOutlive]_vars => RefusedInv'
<1> SUFFICES ASSUME RefusedInv, TypeOK, [Next]_vars, [TokensOutlive]_vars PROVE RefusedInv'
  OBVIOUS
<1>1. CASE UNCHANGED vars
  BY <1>1 DEF vars, grant, worker, RefusedInv, Holding
<1> SUFFICES ASSUME Next, TokensOutlive PROVE RefusedInv'
  BY <1>1
<1>2. CASE Provider
  <2>1. ~TokenExpires
    BY DEF TokensOutlive
  <2>2. UNCHANGED <<conn, refresh, pc, run>> /\ (access' = access \/ access' = "old")
    BY <1>2, <2>1 DEF Provider, Change, BecomeDue, TokenAges, grant, worker
  <2> QED BY <2>2 DEF RefusedInv, Holding
<1>3. CASE Fault
  <2>1. UNCHANGED grant /\ pc' = "idle"
    BY <1>3 DEF Fault
  <2> QED BY <2>1 DEF RefusedInv, Holding, grant
<1> QED
  BY <1>2, <1>3, RefusedUser, RefusedAsk, RefusedWork DEF Next

\* A connection is only marked for a reconnection when its refresh token is
\* dead or was forgotten (_record_failure, app/google_sync.py; store_grant,
\* app/accounts.py), if no access token runs out in the middle of a run and no
\* new consent is stored during one.
THEOREM ReconnectsRevoked == Spec /\ [][TokensOutlive]_vars => []ReconnectMeansRevoked
<1>1. RefusedInv => ReconnectMeansRevoked
  BY DEF RefusedInv, ReconnectMeansRevoked
<1>2. Init => RefusedInv
  BY DEF Init, RefusedInv, Holding
<1> QED
  BY <1>1, <1>2, RefusedNext, TypeInvInductive, PTL DEF Spec, TypeInv
=============================================================================
