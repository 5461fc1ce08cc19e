--------------------------- MODULE CalendarProofs ---------------------------
(* Theorems about Calendar, for every calendar, window and size of pages.   *)
EXTENDS Calendar, TLAPS, FiniteSetTheorems, SequenceTheorems,
        WellFoundedInduction

LEMMA Constants ==
  /\ Events \subseteq Nat \ {0} /\ IsFiniteSet(Events)
  /\ PageSize \in Nat \ {0} /\ MaxEvents \in Nat \ {0}
  /\ 1..PageSize \subseteq Nat \ {0} /\ 0 \in 0..MaxEvents
BY CalendarAssumption DEF CalendarAssumption

-----------------------------------------------------------------------------
(* Pages: the first events of a listing *)

LEMMA LeastEvent ==
  ASSUME NEW S \in SUBSET Nat, S # {}
  PROVE  \E m \in S : \A e \in S : m <= e
<1>1. PICK m \in S : \A e \in S : ~(<<e, m>> \in OpToRel(<, Nat))
  BY NatLessThanWellFounded, WFMin
<1>2. \A e \in S : ~(e < m)
  BY <1>1 DEF OpToRel
<1> QED
  BY <1>2

Below(S, e) == {f \in S : f < e}

LEMMA BelowSizes ==
  ASSUME NEW S \in SUBSET Nat, IsFiniteSet(S), NEW e \in S
  PROVE  /\ IsFiniteSet(Below(S, e)) /\ Cardinality(Below(S, e)) \in Nat
         /\ Cardinality(Below(S, e)) < Cardinality(S)
         /\ \A f \in S : f < e => Cardinality(Below(S, f)) < Cardinality(Below(S, e))
<1>1. Cardinality(S) \in Nat /\ \A T \in SUBSET S : IsFiniteSet(T) /\ Cardinality(T) \in Nat
                                                    /\ Cardinality(T) <= Cardinality(S)
                                                    /\ (Cardinality(T) = Cardinality(S) => T = S)
  BY FS_Subset, FS_CardinalityType
<1>2. Below(S, e) \subseteq S /\ e \notin Below(S, e)
  BY DEF Below
<1>3. Below(S, e) # S
  BY <1>2
<1>4. Cardinality(Below(S, e)) \in Nat /\ Cardinality(Below(S, e)) < Cardinality(S)
  BY <1>1, <1>2, <1>3
<1>5. ASSUME NEW f \in S, f < e
      PROVE  Cardinality(Below(S, f)) < Cardinality(Below(S, e))
  <2>1. Below(S, f) \subseteq Below(S, e) /\ f \in Below(S, e) /\ f \notin Below(S, f)
    <3>1. \A g \in S : g \in Nat /\ f \in Nat /\ e \in Nat
      OBVIOUS
    <3>2. \A g \in S : g < f => g < e
      BY <1>5, <3>1
    <3>3. ~(f < f)
      BY <3>1
    <3> QED  BY <1>5, <3>2, <3>3 DEF Below
  <2>2. Below(S, f) # Below(S, e)
    BY <2>1
  <2>3. /\ Cardinality(Below(S, f)) <= Cardinality(Below(S, e))
        /\ (Cardinality(Below(S, f)) = Cardinality(Below(S, e)) => Below(S, f) = Below(S, e))
    BY <1>1, <1>2, <2>1, FS_Subset
  <2>4. Below(S, f) \subseteq S
    BY DEF Below
  <2> QED  BY <1>1, <1>4, <2>2, <2>3, <2>4
<1> QED  BY <1>1, <1>2, <1>4, <1>5

LEMMA LargestIsLast ==
  ASSUME NEW S \in SUBSET Nat, IsFiniteSet(S), S # {}
  PROVE  Largest(S) \in S /\ \A e \in S : e <= Largest(S)
<1> DEFINE room(e) == Cardinality(S) - Cardinality(Below(S, e))
           rooms   == {room(e) : e \in S}
<1>1. \A e \in S : room(e) \in Nat
  BY BelowSizes, FS_CardinalityType
<1>2. PICK n \in rooms : \A k \in rooms : n <= k
  <2>1. rooms \subseteq Nat /\ rooms # {}
    BY <1>1
  <2> HIDE DEF rooms
  <2> QED  BY <2>1, LeastEvent
<1>3. PICK m \in S : n = room(m)
  BY <1>2
<1>4. ASSUME NEW e \in S, m < e PROVE FALSE
  <2>1. Cardinality(Below(S, m)) < Cardinality(Below(S, e))
    BY <1>4, BelowSizes
  <2>2. Cardinality(Below(S, m)) \in Nat /\ Cardinality(Below(S, e)) \in Nat /\ Cardinality(S) \in Nat
    BY BelowSizes, FS_CardinalityType
  <2>3. room(e) < room(m)
    BY <2>1, <2>2
  <2>4. room(e) \in rooms
    OBVIOUS
  <2> HIDE DEF room, rooms
  <2> QED  BY <1>1, <1>2, <1>3, <2>3, <2>4
<1>5. \A e \in S : e <= m
  <2>1. \A e \in S : e \in Nat /\ m \in Nat
    OBVIOUS
  <2> QED  BY <1>4, <2>1
<1> QED  BY <1>5 DEF Largest

LEMMA PageOf ==
  ASSUME NEW S \in SUBSET Nat, IsFiniteSet(S), NEW n \in Nat
  PROVE  /\ Smallest(S, n) \subseteq S /\ IsFiniteSet(Smallest(S, n))
         /\ \A e \in Smallest(S, n) : \A f \in S : f <= e => f \in Smallest(S, n)
         /\ n > 0 /\ S # {} => Smallest(S, n) # {}
         /\ Cardinality(Smallest(S, n)) <= n
         /\ Cardinality(S) <= n => Smallest(S, n) = S
<1> DEFINE page == Smallest(S, n)
<1>1. \A e : e \in page <=> e \in S /\ Cardinality(Below(S, e)) < n
  BY DEF Smallest, Below
<1>2. page \subseteq S /\ IsFiniteSet(page) /\ Cardinality(page) \in Nat /\ Cardinality(S) \in Nat
  BY <1>1, FS_Subset, FS_CardinalityType
<1> HIDE DEF page
<1>3. ASSUME NEW e \in page, NEW f \in S, f <= e PROVE f \in page
  <2>1. f = e \/ f < e
    BY <1>2, <1>3
  <2>2. \A g \in S : Cardinality(Below(S, g)) \in Nat
    BY BelowSizes
  <2>3. CASE f < e
    BY <1>1, <1>2, <2>2, <2>3, BelowSizes
  <2> QED  BY <2>1, <2>3
<1>4. ASSUME n > 0, S # {} PROVE page # {}
  <2>1. PICK m \in S : \A e \in S : m <= e
    BY <1>4, LeastEvent
  <2>2. \A e \in S : ~(e < m)
    <3>1. \A e \in S : e \in Nat /\ m \in Nat
      OBVIOUS
    <3> QED  BY <2>1, <3>1
  <2>3. Below(S, m) = {}
    BY <2>2 DEF Below
  <2>4. Cardinality(Below(S, m)) = 0
    BY <2>3, FS_EmptySet
  <2> QED  BY <1>1, <1>4, <2>4
<1>5. Cardinality(page) <= n
  <2>1. CASE page = {}
    BY <2>1, FS_EmptySet
  <2>2. CASE page # {}
    <3> DEFINE last == Largest(page)
    <3>1. last \in page /\ \A e \in page : e <= last
      BY <1>2, <2>2, LargestIsLast
    <3> HIDE DEF last
    <3>2. page \ {last} \subseteq Below(S, last)
      <4>1. \A e \in page : e \in Nat /\ last \in Nat
        BY <1>2, <3>1
      <4>2. \A e \in page : e # last => e < last
        BY <3>1, <4>1
      <4> QED  BY <1>2, <4>2 DEF Below
    <3>3. Cardinality(page \ {last}) = Cardinality(page) - 1
      BY <1>2, <3>1, FS_RemoveElement
    <3>4. /\ IsFiniteSet(Below(S, last)) /\ Cardinality(Below(S, last)) \in Nat
          /\ Cardinality(Below(S, last)) < n
      BY <1>1, <1>2, <3>1, BelowSizes
    <3>5. Cardinality(page \ {last}) <= Cardinality(Below(S, last))
      BY <3>2, <3>4, FS_Subset
    <3> QED  BY <1>2, <3>3, <3>4, <3>5
  <2> QED  BY <2>1, <2>2
<1>6. ASSUME Cardinality(S) <= n PROVE page = S
  <2>1. \A e \in S : Cardinality(Below(S, e)) < n
    <3>1. \A e \in S : Cardinality(Below(S, e)) \in Nat /\ Cardinality(Below(S, e)) < Cardinality(S)
      BY BelowSizes
    <3> QED  BY <1>2, <1>6, <3>1
  <2> QED  BY <1>1, <2>1
<1> QED  BY <1>2, <1>3, <1>4, <1>5, <1>6 DEF page

-----------------------------------------------------------------------------
(* Types *)

RunType == [prog : Progress, cursor : Cursor, read : [Events -> Event], page : Token,
            sync : Cursor, cut : BOOLEAN, lost : BOOLEAN]

Dated == [day : Days, live : BOOLEAN]

\* Positions are positions of the history as it is.
Known(page, len) == page = First \/ page.at \in 0..len
Upto(c, len)     == c = NoCursor \/ c.at \in 0..len

RunFine(r, len) ==
  /\ r \in RunType
  /\ \A e \in Events : r.read[e] = Unread \/ r.read[e] = Absent \/ r.read[e] \in Dated
  /\ Known(r.prog.page, len) /\ Known(r.page, len)
  /\ Upto(r.cursor, len) /\ Upto(r.sync, len)

Stage ==
  /\ pc = "idle" => run = Idle
  /\ pc = "changes" => run.cursor # NoCursor
  /\ pc = "store" => Cardinality(Seen(run.read)) <= MaxEvents - run.prog.fetched

TInv ==
  /\ TypeOK
  /\ \A e \in Events : calendar[e] = Absent \/ calendar[e] \in Dated
  /\ \A e \in emptied : local[e] = None
  /\ Upto(cursor, Len(history)) /\ Known(progress.page, Len(history))
  /\ RunFine(run, Len(history))
  /\ Stage

LEMMA IdleFine == \A len \in Nat : RunFine(Idle, len)
<1>1. NoProgress \in Progress /\ NoCursor \in Cursor /\ First \in Token /\ Unread \in Event
  BY Constants DEF NoProgress, Progress, NoCursor, Cursor, First, Token, Unread, Event, None
<1>2. Idle \in RunType
  BY <1>1 DEF Idle, RunType
<1> QED  BY <1>2 DEF RunFine, Idle, Known, Upto, NoProgress

LEMMA TypeInit == Init => TInv
<1> SUFFICES ASSUME Init PROVE TInv
  OBVIOUS
<1>1. calendar \in [Events -> Event] /\ \A e \in Events : calendar[e] = Absent \/ calendar[e] \in Dated
  <2>1. Absent \in Event /\ [day : Days, live : {TRUE}] \subseteq Event \cap Dated
    BY DEF Absent, Event, Dated
  <2> QED  BY <2>1 DEF Init
<1>2. history = <<>> /\ history \in Seq(Events) /\ Len(history) = 0
  BY DEF Init
<1>3. NoProgress \in Progress /\ NoCursor \in Cursor
  BY Constants DEF NoProgress, Progress, NoCursor, Cursor, First, Token, None
<1>4. RunFine(run, Len(history)) /\ run \in RunType
  BY <1>2, IdleFine DEF Init, RunFine
<1>5. TypeOK
  BY <1>1, <1>2, <1>3, <1>4 DEF Init, TypeOK, RunType
<1> QED  BY <1>1, <1>2, <1>4, <1>5 DEF Init, TInv, Stage, Upto, Known, NoProgress

\* What every step uses of the types.
LEMMA Fields ==
  ASSUME TInv
  PROVE  /\ run \in RunType /\ run.prog \in Progress /\ run.read \in [Events -> Event]
         /\ run.prog.page \in Token /\ run.page \in Token /\ run.cursor \in Cursor /\ run.sync \in Cursor
         /\ run.prog.page.after \in Nat /\ run.page.after \in Nat /\ run.prog.fetched \in 0..MaxEvents
         /\ run.prog.day \in Nat /\ run.cursor.day \in Nat
         /\ history \in Seq(Events) /\ Len(history) \in Nat
BY LenProperties DEF TInv, TypeOK, RunFine, RunType, Progress, Token, Cursor

\* The token of the next page, and what the pages before it hold.
Shown(p, S, n)     == Smallest(After(p, S), n)
Following(p, S, n) == NextPage(p, After(p, S), Shown(p, S, n))

LEMMA PageTokens ==
  ASSUME history \in Seq(Events), NEW S \in SUBSET Events, NEW n \in Nat \ {0},
         NEW p \in Token, Known(p, Len(history))
  PROVE  /\ After(p, S) \subseteq Events /\ After(p, S) \subseteq Nat
         /\ Shown(p, S, n) \subseteq After(p, S) /\ IsFiniteSet(Shown(p, S, n))
         /\ At(p) \in 0..Len(history)
         /\ Following(p, S, n) \in Token /\ Known(Following(p, S, n), Len(history))
         /\ Following(p, S, n) = First <=> Shown(p, S, n) = After(p, S)
         /\ Following(p, S, n) # First =>
              /\ Following(p, S, n).at = At(p)
              /\ \A e \in After(p, S) : e <= Following(p, S, n).after => e \in Shown(p, S, n)
<1> DEFINE rest == After(p, S)
           page == Shown(p, S, n)
<1>1. rest \subseteq Events /\ rest \subseteq Nat /\ IsFiniteSet(rest)
  BY Constants, FS_Subset DEF After
<1>2. Len(history) \in Nat
  BY LenProperties
<1>3. At(p) \in 0..Len(history)
  BY <1>2 DEF At, Known
<1>4. /\ page \subseteq rest /\ IsFiniteSet(page)
      /\ \A e \in page : \A f \in rest : f <= e => f \in page
      /\ rest # {} => page # {}
  BY <1>1, PageOf DEF Shown
<1>7. Following(p, S, n) = NextPage(p, rest, page)
  BY DEF Following
<1>5. CASE page = rest
  BY <1>1, <1>3, <1>4, <1>5, <1>7 DEF NextPage, First, Token, Known
<1>6. CASE page # rest
  <2>1. page # {}
    BY <1>4, <1>6
  <2>2. Largest(page) \in page
    BY <1>1, <1>4, <2>1, LargestIsLast
  <2>3. Largest(page) \in Nat
    BY <1>1, <1>4, <2>2
  <2> DEFINE following == [at |-> At(p), after |-> Largest(page)]
  <2>4. NextPage(p, rest, page) = following
    BY <1>6 DEF NextPage
  <2>5. following \in Token /\ Known(following, Len(history)) /\ following # First
    BY <1>2, <1>3, <2>3 DEF Token, Known, First, None
  <2>6. \A e \in rest : e <= following.after => e \in page
    BY <1>4, <2>2
  <2> QED  BY <1>1, <1>3, <1>4, <1>6, <1>7, <2>4, <2>5, <2>6
<1> QED  BY <1>5, <1>6

LEMMA TypeNext == TInv /\ [Next]_vars => TInv'
<1> SUFFICES ASSUME TInv, [Next]_vars PROVE TInv'
  OBVIOUS
<1>0. /\ run \in RunType /\ run.prog \in Progress /\ run.read \in [Events -> Event]
      /\ run.prog.page \in Token /\ run.page \in Token /\ run.cursor \in Cursor /\ run.sync \in Cursor
      /\ run.prog.page.after \in Nat /\ run.page.after \in Nat /\ run.prog.fetched \in 0..MaxEvents
      /\ run.prog.day \in Nat /\ run.cursor.day \in Nat
      /\ history \in Seq(Events) /\ Len(history) \in Nat
  BY Fields
<1> USE <1>0
<1>1. ASSUME NEW e \in Events, NEW event \in Dated, Change(e, event) PROVE TInv'
  <2>1. event \in Event
    BY DEF Event, Dated
  <2>2. calendar' \in [Events -> Event]
    BY <1>1, <2>1 DEF Change, TInv, TypeOK
  <2>3. \A f \in Events : calendar'[f] = Absent \/ calendar'[f] \in Dated
    BY <1>1 DEF Change, TInv, TypeOK
  <2>4. history' \in Seq(Events) /\ Len(history') = Len(history) + 1
    BY <1>1, AppendProperties DEF Change
  <2>5. UNCHANGED <<today, local, stream, poll, worker, mishaps>>
    BY <1>1 DEF Change
  <2>6. RunFine(run', Len(history')) /\ Upto(cursor', Len(history')) /\ Known(progress'.page, Len(history'))
    BY <2>4, <2>5 DEF TInv, RunFine, Upto, Known, stream, worker
  <2> QED  BY <2>2, <2>3, <2>4, <2>5, <2>6 DEF TInv, TypeOK, Stage, stream, poll, worker
<1>2. CASE Day
  <2>1. progress' = [progress EXCEPT !.fresh = FALSE] /\ progress \in Progress
    BY <1>2 DEF Day, TInv, TypeOK
  <2>2. progress' \in Progress /\ progress'.page = progress.page
    BY <2>1 DEF Progress
  <2>3. today' \in Nat
    BY <1>2 DEF Day, TInv, TypeOK
  <2> QED  BY <1>2, <2>2, <2>3 DEF Day, TInv, TypeOK, Stage, poll, worker
<1>3. CASE BecomeDue \/ SyncNow
  BY <1>3 DEF BecomeDue, SyncNow, Request, Mishap, TInv, TypeOK, Stage, google, stream, worker
<1>4. CASE Grant
  BY <1>4 DEF Grant, Request, Mishap, TInv, TypeOK, Stage, google, stream
<1>5. CASE Disconnect
  <2>1. run' = [run EXCEPT !.lost = (pc # "idle")] /\ pc' = pc
    BY <1>5 DEF Disconnect, Request
  <2>2. RunFine(run', Len(history))
    BY <2>1 DEF TInv, RunFine, RunType
  <2>3. Stage'
    <3>1. pc = "idle" => run.lost = FALSE /\ run' = run
      BY <2>1 DEF TInv, Stage, Idle, RunType
    <3>2. run'.cursor = run.cursor /\ run'.read = run.read /\ run'.prog = run.prog
      BY <2>1 DEF RunType
    <3> QED  BY <2>1, <3>1, <3>2 DEF TInv, Stage
  <2>4. run' \in RunType
    BY <2>2 DEF RunFine
  <2>5. on' = FALSE /\ next' = "none" /\ mishaps' = mishaps + 1 /\ UNCHANGED <<google, local, stream, pc>>
    BY <1>5 DEF Disconnect, Request, Mishap
  <2>6. TypeOK'
    <3>1. TypeOK /\ mishaps' \in Nat
      BY <2>5 DEF TInv, TypeOK
    <3> QED  BY <2>4, <2>5, <3>1 DEF TypeOK, RunType, google, stream
  <2> QED  BY <2>2, <2>3, <2>5, <2>6 DEF TInv, google, stream
<1>18. CASE DeleteData
  <2>1. /\ local' = [e \in Events |-> None] /\ cursor' = NoCursor /\ progress' = NoProgress
        /\ truncated' = FALSE /\ mishaps' = mishaps + 1 /\ UNCHANGED <<google, on, worker>>
        /\ emptied' = IF pc = "idle" THEN {} ELSE emptied \cup {e \in Events : local[e] # None}
        /\ next' = next \/ next' = "none"
    BY <1>18 DEF DeleteData, Mishap
  <2>2. emptied' \subseteq Events /\ \A e \in Events : local'[e] = None
    BY <2>1 DEF TInv, TypeOK
  <2>3. NoCursor \in Cursor /\ NoProgress \in Progress /\ NoProgress.page = First
    BY Constants DEF NoCursor, Cursor, NoProgress, Progress, First, Token, None
  <2>4. /\ UNCHANGED <<calendar, history, today, on, pc, run>>
        /\ Upto(cursor', Len(history')) /\ Known(progress'.page, Len(history'))
    BY <2>1, <2>3 DEF Upto, Known, google, worker
  <2>5. local' \in [Events -> Days \cup {None}]
    BY <2>1
  <2>6. cursor' \in Cursor /\ progress' \in Progress /\ truncated' \in BOOLEAN
    BY <2>1, <2>3
  <2>7. mishaps' \in Nat /\ next' \in {"none", "later", "due"}
    <3>1. mishaps \in Nat /\ next \in {"none", "later", "due"}
      BY DEF TInv, TypeOK
    <3> QED  BY <2>1, <3>1
  <2>8. TypeOK'
    BY <2>2, <2>4, <2>5, <2>6, <2>7 DEF TInv, TypeOK
  <2>9. RunFine(run', Len(history')) /\ Stage'
    BY <2>4 DEF TInv, Stage
  <2>10. \A e \in emptied' : local'[e] = None
    BY <2>2
  <2> QED  BY <2>4, <2>8, <2>9, <2>10 DEF TInv
<1>6. CASE End /\ UNCHANGED <<google, local, stream>> /\ on' \in BOOLEAN
           /\ next' \in {"none", "later", "due"} /\ mishaps' \in Nat
  <2>1. RunFine(run', Len(history)) /\ run' \in RunType
    BY <1>6, IdleFine DEF End, RunFine
  <2> QED  BY <1>6, <2>1 DEF End, TInv, TypeOK, RunType, Stage, google, stream
<1>7. CASE Stop \/ Crash \/ AskFails \/ Finish
  <2>1. End /\ UNCHANGED <<google, local, stream>> /\ on' \in BOOLEAN
        /\ next' \in {"none", "later", "due"} /\ mishaps' \in Nat
    BY <1>7 DEF Stop, Crash, AskFails, Finish, Mishap, TInv, TypeOK, poll
  <2> QED  BY <1>6, <2>1
<1>8. CASE Start
  <2>1. pc = "idle" /\ run = Idle /\ UNCHANGED <<google, local, stream, poll, mishaps>>
    BY <1>8 DEF Start, TInv, Stage
  <2>2. RunFine(Idle, Len(history)) /\ Idle \in RunType
    BY IdleFine DEF RunFine
  <2>3. CASE pc' = "changes" /\ run' = [run EXCEPT !.cursor = cursor] /\ cursor # NoCursor
    <3>1. RunFine(run', Len(history)) /\ run'.cursor # NoCursor
      BY <2>1, <2>2, <2>3 DEF TInv, TypeOK, RunFine, RunType
    <3> QED  BY <2>1, <2>3, <3>1 DEF TInv, TypeOK, RunFine, RunType, Stage, google, stream, poll
  <2>4. CASE pc' = "page" /\ run' = [run EXCEPT !.prog = IF progress.window THEN progress ELSE NewWindow]
    <3>1. NewWindow \in Progress /\ NewWindow.page = First
      BY Constants DEF NewWindow, Progress, Token, First, None, TInv, TypeOK
    <3>2. RunFine(run', Len(history))
      BY <2>1, <2>2, <2>4, <3>1 DEF TInv, TypeOK, RunFine, RunType, Known
    <3> QED  BY <2>1, <2>4, <3>2 DEF TInv, TypeOK, RunFine, RunType, Stage, google, stream, poll
  <2> QED  BY <1>8, <2>3, <2>4 DEF Start
<1>9. ASSUME NEW size \in 1..PageSize, AskChanges(size) PROVE TInv'
  <2> DEFINE changed == ChangedSince(run.cursor.at)
             page == Shown(run.page, changed, size)
             following == Following(run.page, changed, size)
             read == Records(run.read, page)
             sync == [at |-> At(run.page), day |-> run.cursor.day]
             held == [run EXCEPT !.read = read, !.page = following, !.sync = sync]
  <2>1. pc = "changes" /\ UNCHANGED <<google, local, stream, poll, mishaps>>
        /\ \E then \in {"advance", "changes"} : Beat(then, held)
    BY <1>9 DEF AskChanges, Shown, Following
  <2>2. run.cursor.at \in Nat /\ Upto(run.cursor, Len(history)) /\ run.cursor # NoCursor
    BY <2>1 DEF TInv, Stage, RunFine, Upto
  <2>3. changed \subseteq Events
    BY <2>2, ElementOfSeq DEF ChangedSince
  <2>4. Known(run.page, Len(history)) /\ size \in Nat \ {0}
    BY Constants DEF TInv, RunFine
  <2>5. /\ page \subseteq Events /\ At(run.page) \in 0..Len(history)
        /\ following \in Token /\ Known(following, Len(history))
    <3> HIDE DEF changed
    <3> QED  BY <2>3, <2>4, PageTokens
  <2>6. read \in [Events -> Event] /\ \A e \in Events : read[e] = Unread \/ read[e] = Absent \/ read[e] \in Dated
    BY DEF Records, TInv, TypeOK, RunFine
  <2>7. sync \in Cursor /\ Upto(sync, Len(history))
    BY <2>5 DEF Cursor, Upto
  <2> HIDE DEF following, read, sync
  <2>9. RunFine(held, Len(history)) /\ held.cursor = run.cursor
    BY <2>5, <2>6, <2>7 DEF TInv, RunFine, RunType
  <2> HIDE DEF held
  <2>10. /\ RunFine(run', Len(history)) /\ pc' \in {"idle", "advance", "changes"}
         /\ pc' = "changes" => run'.cursor # NoCursor
         /\ pc' = "idle" => run' = Idle
    BY <2>1, <2>2, <2>9, IdleFine DEF Beat, End
  <2> QED  BY <2>1, <2>10 DEF TInv, TypeOK, RunFine, RunType, Stage, google, stream, poll
<1>10. CASE Advance
  <2>1. local' \in [Events -> Days \cup {None}]
    BY <1>10 DEF Advance, Upserted, TInv, TypeOK, RunFine, Absent, Dated
  <2>2. run' = run /\ cursor' = run.sync /\ pc' = "finish" /\ UNCHANGED <<google, progress, truncated, poll, mishaps>>
    BY <1>10 DEF Advance
  <2>3. emptied' \subseteq Events /\ \A e \in emptied' : local'[e] = None
    BY <1>10 DEF Advance, Upserted, Seen, TInv, TypeOK
  <2> QED  BY <2>1, <2>2, <2>3 DEF TInv, TypeOK, RunFine, RunType, Stage, google, poll
<1>11. CASE TokenRefused
  <2>1. pc' = "gone" /\ run' = [Idle EXCEPT !.lost = run.lost] /\ UNCHANGED <<google, local, stream, poll, mishaps>>
    BY <1>11 DEF TokenRefused
  <2>2. run.lost \in BOOLEAN
    BY DEF RunType
  <2>3. RunFine(Idle, Len(history)) /\ Idle \in RunType
    BY IdleFine DEF RunFine
  <2>4. RunFine(run', Len(history))
    BY <2>1, <2>2, <2>3 DEF RunFine, RunType
  <2> QED  BY <2>1, <2>4 DEF TInv, TypeOK, RunFine, RunType, Stage, google, stream, poll
<1>12. CASE Forget
  <2>1. pc' = "page" /\ run' = [run EXCEPT !.prog = NewWindow] /\ cursor' = NoCursor
        /\ UNCHANGED <<google, local, progress, truncated, emptied, poll, mishaps>>
    BY <1>12 DEF Forget
  <2>2. NewWindow \in Progress /\ NewWindow.page = First /\ NoCursor \in Cursor
    BY Constants DEF NewWindow, Progress, Token, First, None, NoCursor, Cursor, TInv, TypeOK
  <2>3. RunFine(run', Len(history))
    BY <2>1, <2>2 DEF TInv, RunFine, RunType, Known
  <2> QED  BY <2>1, <2>2, <2>3 DEF TInv, TypeOK, RunFine, RunType, Stage, Upto, google, poll
<1>13. CASE WindowFull
  <2>1. pc' = "done" /\ run' = [run EXCEPT !.cut = TRUE, !.sync = NoCursor]
        /\ UNCHANGED <<google, local, stream, poll, mishaps>>
    BY <1>13 DEF WindowFull
  <2>2. NoCursor \in Cursor
    BY DEF NoCursor, Cursor, None
  <2>3. RunFine(run', Len(history))
    BY <2>1, <2>2 DEF TInv, RunFine, RunType, Upto
  <2> QED  BY <2>1, <2>3 DEF TInv, TypeOK, RunFine, RunType, Stage, google, stream, poll
<1>14. ASSUME NEW size \in 1..PageSize, AskPage(size) PROVE TInv'
  <2> DEFINE listed == Listed(run.prog.day)
             page == Shown(run.prog.page, listed, size)
             following == Following(run.prog.page, listed, size)
             kept == Smallest(page, Remaining)
             read == Records(Idle.read, kept)
             sync == IF following # First THEN NoCursor
                     ELSE [at |-> At(run.prog.page), day |-> run.prog.day]
             cut == Cardinality(page) > Remaining
  <2>1. run' = [run EXCEPT !.read = read, !.page = IF cut THEN First ELSE following, !.cut = cut, !.sync = sync]
        /\ pc = "page" /\ pc' = "store" /\ Remaining > 0 /\ UNCHANGED <<google, local, stream, poll, mishaps>>
    BY <1>14 DEF AskPage, Shown, Following
  <2>2. listed \subseteq Events /\ Known(run.prog.page, Len(history)) /\ size \in Nat \ {0}
    BY Constants DEF Listed, TInv, RunFine
  <2>3. Remaining \in Nat
    BY <2>1, Constants DEF Remaining
  <2>4. /\ page \subseteq Nat /\ page \subseteq Events /\ IsFiniteSet(page)
        /\ At(run.prog.page) \in 0..Len(history)
        /\ following \in Token /\ Known(following, Len(history))
    <3> HIDE DEF listed
    <3>1. page \subseteq After(run.prog.page, listed) /\ After(run.prog.page, listed) \subseteq Events
          /\ After(run.prog.page, listed) \subseteq Nat
          /\ IsFiniteSet(page) /\ At(run.prog.page) \in 0..Len(history)
          /\ following \in Token /\ Known(following, Len(history))
      BY <2>2, PageTokens
    <3> QED  BY <3>1
  <2>5. sync \in Cursor /\ Upto(sync, Len(history))
    BY <2>4 DEF Cursor, Upto, NoCursor, None
  <2>6. First \in Token /\ Known(First, Len(history))
    BY DEF First, Token, Known, None
  <2> HIDE DEF page, following
  <2>7. kept \subseteq Events /\ Cardinality(kept) <= Remaining /\ IsFiniteSet(kept)
    BY <2>3, <2>4, PageOf
  <2> HIDE DEF kept
  <2>8. read \in [Events -> Event] /\ \A e \in Events : read[e] = Unread \/ read[e] = Absent \/ read[e] \in Dated
    <3>1. Unread \in Event
      BY DEF Unread, Event
    <3> QED  BY <3>1 DEF Records, Idle, TInv, TypeOK
  <2>9. Seen(read) \subseteq kept
    BY DEF Seen, Records, Idle
  <2> HIDE DEF read, cut, sync
  <2>10. Cardinality(Seen(read)) <= Remaining /\ Cardinality(Seen(read)) \in Nat
    <3>1. /\ Cardinality(Seen(read)) <= Cardinality(kept) /\ Cardinality(Seen(read)) \in Nat
          /\ Cardinality(kept) \in Nat
      BY <2>7, <2>9, FS_Subset, FS_CardinalityType
    <3> QED  BY <2>3, <2>7, <3>1
  <2>11. cut \in BOOLEAN
    BY DEF cut
  <2>12. RunFine(run', Len(history)) /\ run'.read = read /\ run'.prog = run.prog
    BY <2>1, <2>4, <2>5, <2>6, <2>8, <2>11 DEF TInv, RunFine, RunType
  <2>13. Stage'
    BY <2>1, <2>10, <2>12 DEF Stage, Remaining
  <2> QED  BY <2>1, <2>12, <2>13 DEF TInv, TypeOK, RunFine, RunType, google, stream, poll
<1>15. CASE StorePage
  <2> DEFINE prog == [run.prog EXCEPT !.page = run.page, !.fetched = @ + Cardinality(Seen(run.read))]
  <2>1. /\ pc = "store" /\ progress' = prog /\ local' = Upserted(run.read)
        /\ \E then \in {"page", "done"} : Beat(then, [run EXCEPT !.prog = prog])
        /\ UNCHANGED <<google, cursor, truncated, poll, mishaps>>
    BY <1>15 DEF StorePage, Seen
  <2>2. local' \in [Events -> Days \cup {None}]
    BY <2>1 DEF Upserted, TInv, TypeOK, RunFine, Absent, Dated
  <2>3. Cardinality(Seen(run.read)) \in Nat
    BY Constants, FS_Subset, FS_CardinalityType DEF Seen
  <2>4. run.prog.fetched + Cardinality(Seen(run.read)) \in 0..MaxEvents
    <3>1. Cardinality(Seen(run.read)) <= MaxEvents - run.prog.fetched
      BY <2>1 DEF TInv, Stage
    <3> QED  BY <2>3, <3>1, Constants
  <2>5. prog \in Progress /\ prog.page = run.page
    BY <2>4 DEF Progress
  <2> HIDE DEF prog
  <2>6. RunFine([run EXCEPT !.prog = prog], Len(history))
    BY <2>5 DEF TInv, RunFine, RunType
  <2>7. /\ RunFine(run', Len(history)) /\ pc' \in {"idle", "page", "done"}
        /\ pc' = "idle" => run' = Idle
    BY <2>1, <2>6, IdleFine DEF Beat, End
  <2>8. emptied' \subseteq Events /\ \A e \in emptied' : local'[e] = None
    BY <1>15 DEF StorePage, Upserted, Seen, TInv, TypeOK
  <2> QED  BY <2>1, <2>2, <2>5, <2>7, <2>8 DEF TInv, TypeOK, RunFine, RunType, Stage, google, poll
<1>16. CASE Done
  <2>1. /\ cursor' = NewCursor /\ truncated' = run.cut /\ progress' = [NoProgress EXCEPT !.fresh = TRUE]
        /\ pc' = "finish" /\ UNCHANGED <<google, local, emptied, poll, run, mishaps>>
    BY <1>16 DEF Done
  <2>2. NewCursor \in Cursor /\ Upto(NewCursor, Len(history))
    BY DEF NewCursor, NoCursor, Cursor, None, Upto, TInv, RunFine, RunType
  <2>3. NoProgress \in Progress /\ NoProgress.page = First
    BY Constants DEF NoProgress, Progress, Token, First, None
  <2>4. progress' \in Progress /\ Known(progress'.page, Len(history))
    BY <2>1, <2>3 DEF Progress, Known
  <2> QED  BY <2>1, <2>2, <2>4 DEF TInv, TypeOK, RunFine, RunType, Stage, google, poll
<1>17. CASE UNCHANGED vars
  BY <1>17 DEF vars, TInv, TypeOK, RunFine, Stage, google, stream, poll, worker
<1> QED
  BY <1>1, <1>2, <1>3, <1>4, <1>5, <1>7, <1>8, <1>9, <1>10, <1>11, <1>12, <1>13, <1>14, <1>15, <1>16, <1>17, <1>18
     DEF Next, Google, User, Amiss, Work, Ask, Dated

\* No step, fault or request leaves the types, the stored page tokens among
\* them, and no more is counted as fetched than may be imported.
THEOREM TypeCorrect == Spec => []TypeOK
<1>1. TInv => TypeOK
  BY DEF TInv
<1> QED  BY <1>1, TypeInit, TypeNext, PTL DEF Spec
-----------------------------------------------------------------------------
(* The window of a stored token is here *)

\* Here as it is at Google, or deleted under a run and not read since.
Kept(e) == e \in emptied \/ Held(e)

\* What a listing showed of the window before a page, has been stored.
Behind(page, day) ==
  page # First =>
    \A e \in Listed(day) \ ChangedSince(page.at) : e <= page.after => Kept(e)

\* What was read of an event and has not changed since is as it was read.
AsRead(at) == \A e \in Events \ ChangedSince(at) :
                run.read[e] # Unread => run.read[e] = calendar[e]

\* A page of the window in memory: nothing of the listing was left out.
Bridges(at, after) ==
  /\ AsRead(at)
  /\ run.prog.page # First => at = run.prog.page.at
  /\ \A e \in Listed(run.prog.day) \ ChangedSince(at) :
       e <= after => run.read[e] # Unread \/ e <= run.prog.page.after

Fetched ==
  /\ cursor # NoCursor => AsRead(cursor.at)
  /\ run.page # First => Bridges(run.page.at, run.page.after)
  /\ ~run.cut /\ run.sync # NoCursor =>
       /\ run.sync.day = run.prog.day
       /\ \A n \in Events : Bridges(run.sync.at, n)

\* The changes of the run's token in memory: none of those the token will cover was left out.
Gathered(at, after) ==
  /\ AsRead(at)
  /\ \A e \in ChangedSince(run.cursor.at) \ ChangedSince(at) : e <= after => run.read[e] # Unread

Covered(c) == c # NoCursor => \A e \in Listed(c.day) \ ChangedSince(c.at) : Kept(e)

Steps ==
  /\ pc \in {"changes", "advance", "gone"} => ~progress.window
  /\ pc \in {"changes", "advance"} => run.cursor # NoCursor /\ Covered(run.cursor)
  /\ pc = "changes" =>
       /\ run.page = First => \A e \in Events : run.read[e] = Unread
       /\ run.page # First => Gathered(run.page.at, run.page.after)
  /\ pc = "advance" =>
       /\ run.sync.day = run.cursor.day /\ run.sync # NoCursor
       /\ \A n \in Events : Gathered(run.sync.at, n)
  /\ pc \in {"page", "store"} => run.prog.window /\ Behind(run.prog.page, run.prog.day)
  /\ pc = "store" => Fetched
  /\ pc = "done" => (~run.cut => Covered(run.sync))

WInv ==
  /\ TInv
  /\ Covered(cursor)
  /\ progress.window => Behind(progress.page, progress.day)
  /\ Steps

LEMMA WindowInit == Init => WInv
<1> SUFFICES ASSUME Init PROVE WInv
  OBVIOUS
<1> QED  BY TypeInit DEF Init, WInv, Covered, NoProgress, Steps

LEMMA CalendarRead == TInv => \A e \in Events : calendar[e] # Unread
<1>1. Days \subseteq Nat
  BY CalendarAssumption DEF CalendarAssumption
<1>2. Unread \notin Dated /\ Absent # Unread
  BY <1>1 DEF Unread, Absent, Dated, None
<1> QED  BY <1>2 DEF TInv

\* What a change of an event leaves as it is.
LEMMA ChangeKeeps ==
  ASSUME TInv, NEW e \in Events, NEW event, Change(e, event)
  PROVE  /\ \A n \in 0..Len(history) : ChangedSince(n)' = ChangedSince(n) \cup {e}
         /\ \A f \in Events \ {e} : calendar'[f] = calendar[f] /\ (Held(f) => Held(f)') /\ (Kept(f) => Kept(f)')
         /\ \A day : Listed(day)' \ {e} = Listed(day) \ {e}
<1>1. history \in Seq(Events) /\ Len(history) \in Nat /\ history' = Append(history, e)
      /\ calendar' = [calendar EXCEPT ![e] = event] /\ local' = local /\ emptied' = emptied
  BY Fields DEF Change, stream
<1>2. /\ Len(history') = Len(history) + 1 /\ history'[Len(history) + 1] = e
      /\ \A i \in 1..Len(history) : history'[i] = history[i]
  BY <1>1, AppendProperties
<1>3. ASSUME NEW n \in 0..Len(history) PROVE ChangedSince(n)' = ChangedSince(n) \cup {e}
  <2>1. (n + 1)..Len(history') = ((n + 1)..Len(history)) \cup {Len(history) + 1}
    BY <1>1, <1>2
  <2>2. \A i \in (n + 1)..Len(history) : history'[i] = history[i]
    BY <1>1, <1>2
  <2> QED  BY <1>2, <2>1, <2>2 DEF ChangedSince
<1>4. \A f \in Events \ {e} : calendar'[f] = calendar[f]
  BY <1>1 DEF TInv, TypeOK
<1> QED  BY <1>1, <1>3, <1>4 DEF Held, Kept, Listed

\* Steps that leave alone what the invariant is about.
LEMMA Aside ==
  ASSUME WInv, TInv', UNCHANGED <<calendar, history, local, emptied, cursor, pc>>,
         progress'.window = progress.window, progress'.page = progress.page, progress'.day = progress.day,
         run'.cursor = run.cursor, run'.page = run.page, run'.read = run.read, run'.sync = run.sync,
         run'.cut = run.cut, run'.prog = run.prog
  PROVE  WInv'
<1>1. \A e : Kept(e)' = Kept(e)
  BY DEF Held, Kept
<1>2. \A day, n : Listed(day)' = Listed(day) /\ ChangedSince(n)' = ChangedSince(n)
  BY DEF Listed, ChangedSince
<1>3. Covered(cursor)' /\ (progress.window => Behind(progress.page, progress.day))'
  BY <1>1, <1>2 DEF WInv, Covered, Behind
<1>4. \A at : AsRead(at)' = AsRead(at)
  BY <1>2 DEF AsRead
<1>5. \A at, n : Bridges(at, n)' = Bridges(at, n) /\ Gathered(at, n)' = Gathered(at, n)
  BY <1>2, <1>4 DEF Bridges, Gathered
<1>6. Fetched => Fetched'
  BY <1>4, <1>5 DEF Fetched
<1>7. Steps'
  BY <1>1, <1>2, <1>5, <1>6 DEF WInv, Steps, Behind, Covered
<1> QED  BY <1>3, <1>7 DEF WInv

\* Steps that end a run, or leave nothing of it that matters.
LEMMA Ended ==
  ASSUME WInv, TInv', UNCHANGED <<calendar, history, local, emptied, cursor, progress>>, pc' \in {"idle", "finish"}
  PROVE  WInv'
<1>1. \A e : Kept(e)' = Kept(e)
  BY DEF Held, Kept
<1>2. \A day, n : Listed(day)' = Listed(day) /\ ChangedSince(n)' = ChangedSince(n)
  BY DEF Listed, ChangedSince
<1> QED  BY <1>1, <1>2 DEF WInv, Covered, Behind, Steps

LEMMA ChangeWindow ==
  ASSUME WInv, TInv', NEW e \in Events, NEW event, Change(e, event)
  PROVE  WInv'
<1>0. TInv
  BY DEF WInv
<1>1. UNCHANGED <<local, emptied, cursor, progress, pc, run>>
  BY DEF Change, stream, worker
<1>2. /\ \A n \in 0..Len(history) : ChangedSince(n)' = ChangedSince(n) \cup {e}
      /\ \A f \in Events \ {e} : calendar'[f] = calendar[f] /\ (Kept(f) => Kept(f)')
      /\ \A day : Listed(day)' \ {e} = Listed(day) \ {e}
  BY <1>0, ChangeKeeps
<1>3. /\ cursor # NoCursor => cursor.at \in 0..Len(history)
      /\ run.cursor # NoCursor => run.cursor.at \in 0..Len(history)
      /\ run.sync # NoCursor => run.sync.at \in 0..Len(history)
      /\ progress.page # First => progress.page.at \in 0..Len(history)
      /\ run.page # First => run.page.at \in 0..Len(history)
      /\ run.prog.page # First => run.prog.page.at \in 0..Len(history)
  BY <1>0 DEF TInv, RunFine, Upto, Known
<1>4. \A day : Listed(day) \subseteq Events /\ Listed(day)' \subseteq Events
  BY DEF Listed
<1>5. ASSUME NEW n \in 0..Len(history), NEW day, NEW f \in (Listed(day) \ ChangedSince(n))'
      PROVE  f \in Listed(day) \ ChangedSince(n) /\ f \in Events \ {e} /\ (Kept(f) => Kept(f)')
  BY <1>2, <1>4, <1>5
<1>6. Covered(cursor)' /\ (progress.window => Behind(progress.page, progress.day))'
  BY <1>1, <1>3, <1>5 DEF WInv, Covered, Behind
<1>7. ASSUME NEW n \in 0..Len(history) PROVE AsRead(n) => AsRead(n)'
  BY <1>1, <1>2 DEF AsRead
<1>8. ASSUME NEW n \in 0..Len(history), NEW after, Bridges(n, after) PROVE Bridges(n, after)'
  BY <1>1, <1>5, <1>7, <1>8 DEF Bridges
<1>9. ASSUME NEW n \in 0..Len(history), NEW after, run.cursor # NoCursor, Gathered(n, after)
      PROVE  Gathered(n, after)'
  <2>1. \A f \in (ChangedSince(run.cursor.at) \ ChangedSince(n))' : f \in ChangedSince(run.cursor.at) \ ChangedSince(n)
    BY <1>1, <1>2, <1>3, <1>9
  <2> QED  BY <1>1, <1>7, <1>9, <2>1 DEF Gathered
<1>10. Fetched => Fetched'
  BY <1>1, <1>3, <1>7, <1>8 DEF Fetched
<1>11. Steps'
  <2>1. pc \in {"page", "store"} => Behind(run.prog.page, run.prog.day)'
    BY <1>1, <1>3, <1>5 DEF WInv, Steps, Behind
  <2>2. pc = "done" /\ ~run.cut => Covered(run.sync)'
    BY <1>1, <1>3, <1>5 DEF WInv, Steps, Covered
  <2>3. ASSUME pc = "changes", run.page # First PROVE Gathered(run.page.at, run.page.after)'
    <3>1. run.cursor # NoCursor /\ Gathered(run.page.at, run.page.after)
      BY <2>3 DEF WInv, Steps
    <3> QED  BY <1>1, <1>3, <1>9, <2>3, <3>1
  <2>4. ASSUME pc = "advance", NEW n \in Events PROVE Gathered(run.sync.at, n)'
    <3>1. run.cursor # NoCursor /\ run.sync # NoCursor /\ Gathered(run.sync.at, n)
      BY <2>4 DEF WInv, Steps
    <3> QED  BY <1>1, <1>3, <1>9, <2>4, <3>1
  <2>5. pc \in {"changes", "advance"} => Covered(run.cursor)'
    BY <1>1, <1>3, <1>5 DEF WInv, Steps, Covered
  <2> QED  BY <1>1, <1>10, <2>1, <2>2, <2>3, <2>4, <2>5 DEF WInv, Steps
<1> QED  BY <1>6, <1>11 DEF WInv

\* The frame of a step that leaves the calendar and its copy alone.
LEMMA Same ==
  ASSUME UNCHANGED <<calendar, history, local>>
  PROVE  /\ \A e : Held(e)' = Held(e) /\ (emptied' = emptied => Kept(e)' = Kept(e))
         /\ \A day, n : Listed(day)' = Listed(day) /\ ChangedSince(n)' = ChangedSince(n)
BY DEF Held, Kept, Listed, ChangedSince

LEMMA StartWindow == ASSUME WInv, TInv', Start PROVE WInv'
<1>1. run = Idle /\ UNCHANGED <<google, local, stream>>
  BY DEF Start, WInv, TInv, Stage
<1>2. Covered(cursor)' /\ (progress.window => Behind(progress.page, progress.day))'
  BY <1>1, Same DEF WInv, Covered, Behind, google, stream
<1>3. CASE cursor # NoCursor /\ ~progress.window /\ pc' = "changes" /\ run' = [run EXCEPT !.cursor = cursor]
  <2>1. run'.cursor = cursor /\ run'.page = First /\ \A e \in Events : run'.read[e] = Unread
    BY <1>1, <1>3 DEF Idle
  <2> QED  BY <1>1, <1>2, <1>3, <2>1 DEF WInv, Steps, stream
<1>4. CASE pc' = "page" /\ run' = [run EXCEPT !.prog = IF progress.window THEN progress ELSE NewWindow]
  <2>1. run'.prog = IF progress.window THEN progress ELSE NewWindow
    BY <1>1, <1>4 DEF Idle
  <2>2. CASE progress.window
    <3>1. run'.prog = progress' /\ progress' = progress
      BY <1>1, <2>1, <2>2 DEF stream
    <3>2. Behind(progress.page, progress.day)'
      BY <1>2, <2>2, <3>1
    <3>3. Behind(run.prog.page, run.prog.day)'
      BY <3>1, <3>2 DEF Behind
    <3> QED  BY <1>2, <1>4, <2>2, <3>1, <3>3 DEF WInv, Steps
  <2>3. CASE ~progress.window
    <3>1. run'.prog.page = First /\ run'.prog.window = TRUE
      BY <2>1, <2>3 DEF NewWindow
    <3> QED  BY <1>2, <1>4, <3>1 DEF WInv, Steps, Behind
  <2> QED  BY <2>2, <2>3
<1> QED  BY <1>3, <1>4 DEF Start, WindowDue

LEMMA ChangesWindow ==
  ASSUME WInv, TInv', NEW size \in 1..PageSize, AskChanges(size) PROVE WInv'
<1> DEFINE changed == ChangedSince(run.cursor.at)
           page == Shown(run.page, changed, size)
           following == Following(run.page, changed, size)
           read == Records(run.read, page)
           at == At(run.page)
           sync == [at |-> at, day |-> run.cursor.day]
           held == [run EXCEPT !.read = read, !.page = following, !.sync = sync]
           last == page = After(run.page, changed)
<1>0. TInv /\ run \in RunType
  BY Fields DEF WInv
<1>1. pc = "changes" /\ UNCHANGED <<google, local, stream, poll, mishaps>>
      /\ Beat(IF last THEN "advance" ELSE "changes", held)
  BY DEF AskChanges, Shown, Following
<1>2. /\ ~progress.window /\ run.cursor # NoCursor /\ Covered(run.cursor)
      /\ run.page = First => \A e \in Events : run.read[e] = Unread
      /\ run.page # First => Gathered(run.page.at, run.page.after)
  BY <1>1 DEF WInv, Steps
<1>3. /\ changed \subseteq Events /\ Known(run.page, Len(history)) /\ run.page \in Token
      /\ run.page.after \in Nat
      /\ size \in Nat \ {0} /\ history \in Seq(Events) /\ Len(history) \in Nat
      /\ run.cursor.at \in 0..Len(history)
  <2>1. run.cursor.at \in 0..Len(history)
    BY <1>0, <1>2 DEF TInv, RunFine, Upto
  <2>2. changed \subseteq Events
    BY <1>0, <1>2, <2>1, Fields, ElementOfSeq DEF ChangedSince
  <2> QED  BY <1>0, <2>1, <2>2, Fields, Constants DEF TInv, RunFine
<1>4. /\ page \subseteq After(run.page, changed) /\ at \in 0..Len(history)
      /\ following = First <=> last
      /\ following # First => /\ following.at = at
                              /\ \A e \in After(run.page, changed) : e <= following.after => e \in page
  <2> HIDE DEF changed
  <2> QED  BY <1>3, PageTokens
<1>5. \A e \in Events : /\ calendar[e] # Unread
                        /\ read[e] = IF e \in page THEN calendar[e] ELSE run.read[e]
  BY <1>0, CalendarRead DEF Records
<1>6. run.page # First => at = run.page.at
  BY DEF At
<1>7. \A e \in Events \ ChangedSince(at) : read[e] # Unread => read[e] = calendar[e]
  BY <1>2, <1>5, <1>6 DEF Gathered, AsRead
<1>8. ASSUME NEW e \in changed \ ChangedSince(at), e \in page \/ e <= run.page.after
      PROVE  read[e] # Unread
  <2>1. e \in Events /\ e \in Nat /\ e # 0
    BY <1>3, Constants
  <2>2. CASE e \in page
    BY <1>5, <2>1, <2>2
  <2>3. CASE e <= run.page.after
    <3>1. run.page # First
      BY <2>1, <2>3 DEF First
    <3>2. run.read[e] # Unread
      BY <1>2, <1>6, <1>8, <2>3, <3>1 DEF Gathered
    <3> QED  BY <1>5, <2>1, <3>2
  <2> QED  BY <1>8, <2>2, <2>3
<1>9. ASSUME NEW e \in changed, e \notin After(run.page, changed) PROVE e <= run.page.after
  <2>1. e \in Nat /\ ~(e > run.page.after)
    BY <1>3, <1>9, Constants DEF After
  <2> QED  BY <1>3, <2>1
<1>10. Covered(cursor)' /\ \A c : Covered(c)' = Covered(c)
  BY <1>1, Same DEF WInv, Covered, google, stream
<1>11. /\ ~progress'.window /\ run.cursor # NoCursor /\ Covered(run.cursor) /\ calendar' = calendar
       /\ changed = ChangedSince(run.cursor.at)
       /\ \A n : ChangedSince(n)' = ChangedSince(n)
  BY <1>1, <1>2, Same DEF google, stream
<1>12. CASE run.lost
  BY <1>1, <1>12, Ended DEF Beat, End, google, stream
<1>13. CASE ~run.lost /\ last
  <2>1. pc' = "advance" /\ run' = held
    BY <1>1, <1>13 DEF Beat
  <2>2. run'.sync = sync /\ run'.read = read /\ run'.cursor = run.cursor
    BY <1>0, <2>1 DEF RunType
  <2>3. \A e \in changed \ ChangedSince(at) : read[e] # Unread
    BY <1>8, <1>9, <1>13
  <2>4. sync # NoCursor /\ sync.day = run.cursor.day /\ sync.at = at
    BY <1>2, <1>4 DEF NoCursor, None
  <2>5. ASSUME NEW n \in Events PROVE Gathered(run.sync.at, n)'
    <3> HIDE DEF read, changed, sync, at
    <3> QED  BY <1>7, <1>11, <2>2, <2>3, <2>4 DEF Gathered, AsRead
  <2> QED  BY <1>10, <1>11, <2>1, <2>2, <2>4, <2>5 DEF WInv, Steps
<1>14. CASE ~run.lost /\ ~last
  <2>1. pc' = "changes" /\ run' = held
    BY <1>1, <1>14 DEF Beat
  <2>2. run'.page = following /\ run'.read = read /\ run'.cursor = run.cursor
    BY <1>0, <2>1 DEF RunType
  <2>3. following # First /\ following.at = at
    BY <1>4, <1>14
  <2>4. \A e \in changed \ ChangedSince(at) : e <= following.after => read[e] # Unread
    BY <1>4, <1>8, <1>9, <2>3
  <2>5. Gathered(run.page.at, run.page.after)'
    <3> HIDE DEF read, changed, at, following
    <3> QED  BY <1>7, <1>11, <2>2, <2>3, <2>4 DEF Gathered, AsRead
  <2> QED  BY <1>2, <1>10, <1>11, <2>1, <2>2, <2>3, <2>5 DEF WInv, Steps
<1> QED  BY <1>12, <1>13, <1>14

\* Storing what was read of an event makes its copy that of Google, if the
\* event is still as it was read; what was not read is left alone.
LEMMA UpsertHolds ==
  ASSUME TInv, local' = Upserted(run.read), emptied' = emptied \ Seen(run.read), calendar' = calendar,
         NEW e \in Events, IF run.read[e] # Unread THEN run.read[e] = calendar[e] ELSE Kept(e)
  PROVE  Kept(e)' /\ (run.read[e] # Unread => Held(e)')
<1>1. local'[e] = IF run.read[e] = Unread THEN local[e] ELSE IF run.read[e].live THEN run.read[e].day ELSE None
  BY DEF Upserted
<1>2. run.read[e] = Unread => (e \in emptied' <=> e \in emptied)
  BY DEF Seen
<1> QED  BY <1>1, <1>2 DEF Held, Kept

LEMMA AdvanceWindow == ASSUME WInv, TInv', Advance PROVE WInv'
<1>1. /\ pc = "advance" /\ local' = Upserted(run.read) /\ cursor' = run.sync /\ pc' = "finish"
      /\ emptied' = emptied \ Seen(run.read)
      /\ calendar' = calendar /\ history' = history /\ progress' = progress
  BY DEF Advance, google
<1>2. /\ TInv /\ Covered(run.cursor) /\ ~progress.window /\ run.cursor # NoCursor
      /\ run.sync.day = run.cursor.day
      /\ \A n \in Events : Gathered(run.sync.at, n)
  BY <1>1 DEF WInv, Steps
<1>3. \A day, n : Listed(day)' = Listed(day) /\ ChangedSince(n)' = ChangedSince(n)
  BY <1>1 DEF Listed, ChangedSince
<1>4. ASSUME NEW e \in Listed(run.cursor.day) \ ChangedSince(run.sync.at) PROVE Kept(e)'
  <2>1. e \in Events /\ e <= e
    BY Constants DEF Listed
  <2>2. AsRead(run.sync.at) /\ (e \in ChangedSince(run.cursor.at) => run.read[e] # Unread)
    BY <1>2, <1>4, <2>1 DEF Gathered
  <2>3. e \notin ChangedSince(run.cursor.at) => Kept(e)
    BY <1>2, <1>4 DEF Covered
  <2>4. IF run.read[e] # Unread THEN run.read[e] = calendar[e] ELSE Kept(e)
    BY <1>4, <2>1, <2>2, <2>3 DEF AsRead
  <2> QED  BY <1>1, <1>2, <2>1, <2>4, UpsertHolds
<1>5. Covered(cursor)'
  BY <1>1, <1>2, <1>3, <1>4 DEF Covered
<1> QED  BY <1>1, <1>2, <1>5 DEF WInv, Steps

LEMMA PageWindow ==
  ASSUME WInv, TInv', NEW size \in 1..PageSize, AskPage(size) PROVE WInv'
<1> DEFINE listed == Listed(run.prog.day)
           page == Shown(run.prog.page, listed, size)
           following == Following(run.prog.page, listed, size)
           kept == Smallest(page, Remaining)
           read == Records(Idle.read, kept)
           at == At(run.prog.page)
           sync == IF following # First THEN NoCursor ELSE [at |-> at, day |-> run.prog.day]
           cut == Cardinality(page) > Remaining
<1>0. TInv /\ run \in RunType
  BY Fields DEF WInv
<1>1. /\ pc = "page" /\ pc' = "store" /\ Remaining > 0 /\ UNCHANGED <<google, local, stream, poll, mishaps>>
      /\ run' = [run EXCEPT !.read = read, !.page = IF cut THEN First ELSE following, !.cut = cut, !.sync = sync]
  BY DEF AskPage, Shown, Following
<1>2. /\ run'.read = read /\ run'.page = (IF cut THEN First ELSE following) /\ run'.cut = cut
      /\ run'.sync = sync /\ run'.prog = run.prog
  BY <1>0, <1>1 DEF RunType
<1>3. run.prog.window /\ Behind(run.prog.page, run.prog.day)
  BY <1>1 DEF WInv, Steps
<1>4. /\ listed \subseteq Events /\ Known(run.prog.page, Len(history)) /\ run.prog.page \in Token
      /\ run.prog.page.after \in Nat /\ run.prog.fetched \in 0..MaxEvents
      /\ size \in Nat \ {0} /\ history \in Seq(Events)
  BY <1>0, Fields, Constants DEF TInv, RunFine, Listed
<1>5. /\ page \subseteq After(run.prog.page, listed) /\ IsFiniteSet(page) /\ page \subseteq Nat
      /\ following = First <=> page = After(run.prog.page, listed)
      /\ following # First => /\ following.at = at
                              /\ \A e \in After(run.prog.page, listed) : e <= following.after => e \in page
  <2> HIDE DEF listed
  <2>1. After(run.prog.page, listed) \subseteq Nat
    BY <1>4, PageTokens
  <2> QED  BY <1>4, <2>1, PageTokens
<1>6. ~cut => kept = page
  <2>1. Remaining \in Nat
    BY <1>1, <1>4, Constants DEF Remaining
  <2>2. Cardinality(page) \in Nat
    BY <1>5, FS_CardinalityType
  <2> HIDE DEF page
  <2> QED  BY <1>5, <2>1, <2>2, PageOf
<1>7. \A e \in Events : /\ calendar[e] # Unread
                        /\ read[e] = IF e \in kept THEN calendar[e] ELSE Unread
  BY <1>0, CalendarRead DEF Records, Idle
<1>8. /\ calendar' = calendar /\ cursor' = cursor /\ progress' = progress
      /\ \A day, n : Listed(day)' = Listed(day) /\ ChangedSince(n)' = ChangedSince(n)
      /\ \A e : Kept(e)' = Kept(e)
  BY <1>1, Same DEF google, stream
<1>9. run.prog.page # First => at = run.prog.page.at
  BY DEF At
<1>10. ASSUME NEW e \in listed, e \notin After(run.prog.page, listed) PROVE e <= run.prog.page.after
  <2>1. e \in Nat /\ ~(e > run.prog.page.after)
    BY <1>4, <1>10, Constants DEF After
  <2> QED  BY <1>4, <2>1
<1>11. \A e \in page : ~cut => read[e] # Unread
  BY <1>4, <1>5, <1>6, <1>7 DEF After
<1> HIDE DEF page, following, kept, read, cut
<1>12. \A n : AsRead(n)'
  BY <1>2, <1>7, <1>8 DEF AsRead
<1>13. ~cut /\ following # First => Bridges(run.page.at, run.page.after)'
  BY <1>2, <1>5, <1>8, <1>9, <1>10, <1>11, <1>12 DEF Bridges
<1>14. ~cut /\ following = First => \A n \in Events : Bridges(run.sync.at, n)'
  <2>1. following = First => run'.sync.at = at
    BY <1>2
  <2>2. ~cut /\ following = First => \A e \in listed : read[e] # Unread \/ e <= run.prog.page.after
    BY <1>5, <1>10, <1>11
  <2> HIDE DEF sync, at
  <2> QED  BY <1>2, <1>8, <1>9, <1>12, <2>1, <2>2 DEF Bridges
<1>15. Fetched'
  BY <1>2, <1>12, <1>13, <1>14 DEF Fetched
<1>16. Covered(cursor)' /\ (progress.window => Behind(progress.page, progress.day))'
  BY <1>8 DEF WInv, Covered, Behind
<1>17. Behind(run.prog.page, run.prog.day)'
  BY <1>2, <1>3, <1>8 DEF Behind
<1> QED  BY <1>1, <1>2, <1>3, <1>15, <1>16, <1>17 DEF WInv, Steps

LEMMA StoreWindow == ASSUME WInv, TInv', StorePage PROVE WInv'
<1> DEFINE prog == [run.prog EXCEPT !.page = run.page, !.fetched = @ + Cardinality(Seen(run.read))]
<1>0. TInv /\ run \in RunType /\ run.prog \in Progress /\ run.prog.page.after \in Nat
  BY Fields DEF WInv
<1>1. /\ pc = "store" /\ progress' = prog /\ local' = Upserted(run.read)
      /\ emptied' = emptied \ Seen(run.read)
      /\ Beat(IF run.page # First THEN "page" ELSE "done", [run EXCEPT !.prog = prog])
      /\ UNCHANGED <<google, cursor, truncated, poll, mishaps>>
  BY DEF StorePage, Seen
<1>2. prog.page = run.page /\ prog.day = run.prog.day /\ prog.window = run.prog.window
  BY <1>0 DEF Progress
<1> HIDE DEF prog
<1>3. Fetched /\ Covered(cursor) /\ run.prog.window /\ Behind(run.prog.page, run.prog.day)
  BY <1>1 DEF WInv, Steps
<1>4. /\ calendar' = calendar /\ history' = history
      /\ \A day, n : Listed(day)' = Listed(day) /\ ChangedSince(n)' = ChangedSince(n)
  BY <1>1 DEF google, Listed, ChangedSince
<1>5. \A day : Listed(day) \subseteq Events
  BY DEF Listed
<1>6. Covered(cursor)'
  <2>1. ASSUME cursor # NoCursor, NEW e \in Listed(cursor.day) \ ChangedSince(cursor.at) PROVE Kept(e)'
    <3>1. IF run.read[e] # Unread THEN run.read[e] = calendar[e] ELSE Kept(e)
      BY <1>3, <1>5, <2>1 DEF Fetched, AsRead, Covered
    <3> QED  BY <1>0, <1>1, <1>4, <1>5, <3>1, UpsertHolds
  <2> QED  BY <1>1, <1>4, <2>1 DEF Covered
<1>7. ASSUME NEW at, NEW after, Bridges(at, after),
             NEW e \in Listed(run.prog.day) \ ChangedSince(at), e <= after
      PROVE  Kept(e)'
  <2>1. e \in Events /\ e \in Nat \ {0}
    BY <1>5, Constants
  <2>2. CASE run.read[e] # Unread
    <3>1. run.read[e] = calendar[e]
      BY <1>7, <2>1, <2>2 DEF Bridges, AsRead
    <3> QED  BY <1>0, <1>1, <1>4, <2>1, <2>2, <3>1, UpsertHolds
  <2>3. CASE run.read[e] = Unread
    <3>1. e <= run.prog.page.after
      BY <1>7, <2>3 DEF Bridges
    <3>2. run.prog.page # First
      BY <2>1, <3>1 DEF First
    <3>3. at = run.prog.page.at
      BY <1>7, <3>2 DEF Bridges
    <3>4. Kept(e)
      BY <1>3, <1>7, <3>1, <3>2, <3>3 DEF Behind
    <3> QED  BY <1>0, <1>1, <1>4, <2>1, <2>3, <3>4, UpsertHolds
  <2> QED  BY <2>2, <2>3
<1>8. Behind(progress.page, progress.day)'
  <2>1. run.page # First => Bridges(run.page.at, run.page.after)
    BY <1>3 DEF Fetched
  <2>2. ASSUME run.page # First, NEW e \in Listed(run.prog.day) \ ChangedSince(run.page.at),
               e <= run.page.after
        PROVE  Kept(e)'
    BY <1>7, <2>1, <2>2
  <2> QED  BY <1>1, <1>2, <1>4, <2>2 DEF Behind
<1>9. CASE run.lost
  <2>1. pc' = "idle"
    BY <1>1, <1>9 DEF Beat, End
  <2> QED  BY <1>6, <1>8, <2>1 DEF WInv, Steps
<1>10. CASE ~run.lost /\ run.page # First
  <2>1. pc' = "page" /\ run' = [run EXCEPT !.prog = prog]
    BY <1>1, <1>10 DEF Beat
  <2>2. run'.prog = progress'
    BY <1>0, <1>1, <2>1 DEF RunType
  <2>3. Behind(run.prog.page, run.prog.day)' /\ run'.prog.window
    BY <1>1, <1>2, <1>3, <1>8, <2>2 DEF Behind
  <2> QED  BY <1>6, <1>8, <2>1, <2>3 DEF WInv, Steps
<1>11. CASE ~run.lost /\ run.page = First
  <2>1. pc' = "done" /\ run' = [run EXCEPT !.prog = prog]
    BY <1>1, <1>11 DEF Beat
  <2>2. run'.sync = run.sync /\ run'.cut = run.cut
    BY <1>0, <2>1 DEF RunType
  <2>3. ASSUME ~run.cut, run.sync # NoCursor, NEW e \in Listed(run.sync.day) \ ChangedSince(run.sync.at)
        PROVE  Kept(e)'
    <3>1. e \in Events /\ e <= e
      <4>1. e \in Events
        BY <1>5
      <4>2. e \in Nat
        BY <4>1, Constants
      <4> QED  BY <4>1, <4>2
    <3>2. run.sync.day = run.prog.day /\ Bridges(run.sync.at, e)
      BY <1>3, <2>3, <3>1 DEF Fetched
    <3> QED  BY <1>7, <2>3, <3>1, <3>2
  <2>4. ~run'.cut => Covered(run.sync)'
    BY <1>4, <2>2, <2>3 DEF Covered
  <2> QED  BY <1>6, <1>8, <2>1, <2>4 DEF WInv, Steps
<1> QED  BY <1>9, <1>10, <1>11

LEMMA DoneWindow == ASSUME WInv, TInv', Done PROVE WInv'
<1>1. /\ pc = "done" /\ cursor' = NewCursor /\ pc' = "finish" /\ run' = run
      /\ progress' = [NoProgress EXCEPT !.fresh = TRUE] /\ UNCHANGED <<google, local, emptied>>
  BY DEF Done
<1>2. ~progress'.window
  BY <1>1 DEF NoProgress
<1>3. Covered(NewCursor)
  BY <1>1 DEF WInv, Steps, NewCursor, Covered
<1>4. Covered(cursor)'
  BY <1>1, <1>3, Same DEF Covered, google
<1> QED  BY <1>1, <1>2, <1>4 DEF WInv, Steps

\* What is deleted under a run is as good as kept: no page it has stored, and no
\* token it holds, covers less than it did.
LEMMA DeleteWindow == ASSUME WInv, TInv', DeleteData PROVE WInv'
<1>1. /\ local' = [e \in Events |-> None] /\ cursor' = NoCursor /\ progress' = NoProgress
      /\ emptied' = IF pc = "idle" THEN {} ELSE emptied \cup {e \in Events : local[e] # None}
      /\ UNCHANGED <<calendar, history, pc, run>>
  BY DEF DeleteData, google, worker
<1>2. Covered(cursor)' /\ ~progress'.window
  BY <1>1 DEF Covered, NoProgress
<1>3. CASE pc = "idle"
  BY <1>1, <1>2, <1>3 DEF WInv, Steps
<1>4. CASE pc # "idle"
  <2>1. \A e \in Events : Kept(e) => Kept(e)'
    BY <1>1, <1>4 DEF Kept, Held, WInv, TInv, TypeOK
  <2>2. \A day, n : Listed(day)' = Listed(day) /\ ChangedSince(n)' = ChangedSince(n)
    BY <1>1 DEF Listed, ChangedSince
  <2>3. \A day : Listed(day) \subseteq Events
    BY DEF Listed
  <2>4. /\ \A at : AsRead(at)' = AsRead(at)
        /\ \A at, n : Bridges(at, n)' = Bridges(at, n) /\ Gathered(at, n)' = Gathered(at, n)
    BY <1>1, <2>2 DEF AsRead, Bridges, Gathered
  <2>5. Fetched => Fetched'
    BY <1>1, <1>2, <2>4 DEF Fetched
  <2>6. /\ Behind(run.prog.page, run.prog.day) => Behind(run.prog.page, run.prog.day)'
        /\ Covered(run.sync) => Covered(run.sync)'
        /\ Covered(run.cursor) => Covered(run.cursor)'
    BY <1>1, <2>1, <2>2, <2>3 DEF Behind, Covered
  <2>7. Steps'
    BY <1>1, <1>2, <2>4, <2>5, <2>6 DEF WInv, Steps
  <2> QED  BY <1>2, <2>7 DEF WInv
<1> QED  BY <1>3, <1>4

LEMMA WindowNext == WInv /\ [Next]_vars => WInv'
<1> SUFFICES ASSUME WInv, [Next]_vars PROVE WInv'
  OBVIOUS
<1>0. TInv /\ TInv' /\ run \in RunType /\ progress \in Progress
  BY TypeNext, Fields DEF WInv, TInv, TypeOK
<1>1. CASE Google
  <2>1. ASSUME NEW e \in Events, NEW event, Change(e, event) PROVE WInv'
    BY <1>0, <2>1, ChangeWindow
  <2>2. CASE Day
    <3>1. progress' = [progress EXCEPT !.fresh = FALSE] /\ UNCHANGED <<calendar, history, local, emptied, cursor, pc, run>>
      BY <2>2 DEF Day, worker
    <3>2. progress'.window = progress.window /\ progress'.page = progress.page /\ progress'.day = progress.day
      BY <1>0, <3>1 DEF Progress
    <3> QED  BY <1>0, <3>1, <3>2, Aside
  <2>3. CASE BecomeDue
    BY <1>0, <2>3, Aside DEF BecomeDue, google, stream, worker
  <2> QED  BY <1>1, <2>1, <2>2, <2>3 DEF Google
<1>2. CASE Grant \/ Disconnect \/ SyncNow
  <2>1. UNCHANGED <<calendar, history, local, emptied, cursor, progress, pc>>
    BY <1>2 DEF Grant, Disconnect, SyncNow, Request, google, stream
  <2>2. run' = run \/ run' = [run EXCEPT !.lost = (pc # "idle")]
    BY <1>2 DEF Grant, Disconnect, SyncNow
  <2>3. /\ run'.cursor = run.cursor /\ run'.page = run.page /\ run'.read = run.read
        /\ run'.sync = run.sync /\ run'.cut = run.cut /\ run'.prog = run.prog
    BY <1>0, <2>2 DEF RunType
  <2> QED  BY <1>0, <2>1, <2>3, Aside
<1>3. CASE Crash \/ AskFails \/ Stop \/ Finish
  BY <1>0, <1>3, Ended DEF Crash, AskFails, Stop, Finish, End, google, stream
<1>4. CASE TokenRefused
  <2>1. /\ pc = "changes" /\ pc' = "gone"
        /\ UNCHANGED <<calendar, history, local, emptied, cursor, progress>>
    BY <1>4 DEF TokenRefused, google, stream
  <2> QED  BY <1>0, <2>1, Same DEF WInv, Covered, Behind, Steps
<1>5. CASE Forget
  <2>1. /\ pc = "gone" /\ pc' = "page" /\ cursor' = NoCursor /\ run' = [run EXCEPT !.prog = NewWindow]
        /\ UNCHANGED <<calendar, history, local, emptied, progress>>
    BY <1>5 DEF Forget, google
  <2>2. run'.prog.page = First /\ run'.prog.window = TRUE
    BY <1>0, <2>1 DEF RunType, NewWindow
  <2> QED  BY <1>0, <2>1, <2>2 DEF WInv, Covered, Behind, Steps
<1>6. CASE WindowFull
  <2>1. /\ pc = "page" /\ pc' = "done" /\ run' = [run EXCEPT !.cut = TRUE, !.sync = NoCursor]
        /\ UNCHANGED <<calendar, history, local, emptied, cursor, progress>>
    BY <1>6 DEF WindowFull, google, stream
  <2>2. run'.cut = TRUE
    BY <1>0, <2>1 DEF RunType
  <2> QED  BY <1>0, <2>1, <2>2, Same DEF WInv, Covered, Behind, Steps
<1>7. CASE Start \/ Advance \/ StorePage \/ Done
  BY <1>0, <1>7, StartWindow, AdvanceWindow, StoreWindow, DoneWindow
<1>8. CASE Ask
  BY <1>0, <1>8, ChangesWindow, PageWindow DEF Ask
<1>9. CASE UNCHANGED vars
  BY <1>0, <1>9, Aside DEF vars, google, stream, worker
<1>10. CASE DeleteData
  BY <1>0, <1>10, DeleteWindow
<1> QED  BY <1>10, <1>1, <1>2, <1>3, <1>4, <1>5, <1>6, <1>7, <1>8, <1>9 DEF Next, User, Amiss, Work

\* Whatever the calendar does while it is listed, wherever a run dies or is
\* refused its token, and however large the window is, a stored token is never
\* one of a window that was cut, and what it covers is here, but for what the
\* user deleted while a run went on.
THEOREM WindowHeld == Spec => []WindowCovered
<1>1. WInv => WindowCovered
  BY DEF WInv, Covered, Kept, WindowCovered
<1> QED  BY <1>1, WindowInit, WindowNext, PTL DEF Spec

\* A user who deletes the imported data between runs.
Calm == DeleteData => pc = "idle"

Undisturbed == emptied = {}

LEMMA NothingEmptied == Undisturbed /\ [Next]_vars /\ [Calm]_vars => Undisturbed'
<1> SUFFICES ASSUME emptied = {}, [Next]_vars, [Calm]_vars PROVE emptied' = {}
  BY DEF Undisturbed
<1>1. CASE DeleteData
  <2>1. pc = "idle" \/ UNCHANGED vars
    BY <1>1 DEF Calm
  <2> QED  BY <1>1, <2>1 DEF DeleteData, vars, stream
<1>2. CASE Advance \/ StorePage
  BY <1>2 DEF Advance, StorePage
<1>3. CASE Google \/ Grant \/ Disconnect \/ SyncNow
  BY <1>3 DEF Google, Change, Day, BecomeDue, Grant, Disconnect, SyncNow, Request, stream
<1>4. CASE Amiss \/ Ask
  BY <1>4 DEF Amiss, AskFails, TokenRefused, Crash, Ask, AskChanges, AskPage, stream
<1>5. CASE Start \/ Stop \/ Forget \/ WindowFull \/ Done \/ Finish
  BY <1>5 DEF Start, Stop, Forget, WindowFull, Done, Finish, stream
<1>6. CASE UNCHANGED vars
  BY <1>6 DEF vars, stream
<1> QED  BY <1>1, <1>2, <1>3, <1>4, <1>5, <1>6 DEF Next, User, Work

\* Nothing is exempt when the user deletes the imported data between runs only:
\* all of the window of a stored token is here.
THEOREM WindowWhole == Spec /\ [][Calm]_vars => []WindowComplete
<1>1. Init => Undisturbed
  BY DEF Init, Undisturbed
<1>2. WInv /\ Undisturbed => WindowComplete
  BY DEF Undisturbed, WInv, Covered, Kept, WindowComplete
<1> QED  BY <1>1, <1>2, NothingEmptied, WindowInit, WindowNext, PTL DEF Spec

-----------------------------------------------------------------------------
(* Nothing that is here is out of date                                       *)

\* A window is listed from its start only when what is here of the events it
\* does not list is as it is at Google: the increments were read before.
Abreast ==
  (\E size \in 1..PageSize : AskPage(size)) /\ run.prog.page = First =>
    \A e \in Events \ Listed(run.prog.day) : local[e] # None => Held(e)

Fresh(e) == local[e] # None => Held(e)

\* What has not changed since is as it is at Google, if it is here.
Since(at) == \A e \in Events \ ChangedSince(at) : Fresh(e)

\* What a listing of a window does not show and has not changed since it began
\* is as it is at Google, if it is here.
Outside(at, day) == \A e \in Events \ (Listed(day) \cup ChangedSince(at)) : Fresh(e)

FreshInv ==
  /\ NothingStale
  /\ pc \in {"changes", "advance"} => Since(run.cursor.at)
  /\ progress.window /\ progress.page # First => Outside(progress.page.at, progress.day)
  /\ pc \in {"page", "store"} /\ run.prog.page # First => Outside(run.prog.page.at, run.prog.day)
  /\ pc = "store" /\ run.page # First => Outside(run.page.at, run.prog.day)
  /\ pc \in {"store", "done"} /\ ~run.cut /\ run.sync # NoCursor => Outside(run.sync.at, run.sync.day)

LEMMA FreshInit == Init => FreshInv
BY DEF Init, FreshInv, NothingStale, NoProgress

LEMMA FreshSame ==
  ASSUME UNCHANGED <<calendar, history, local>>
  PROVE  /\ \A at, day : Outside(at, day)' = Outside(at, day) /\ Since(at)' = Since(at)
         /\ cursor' = cursor => NothingStale' = NothingStale
BY Same DEF Outside, Since, Fresh, NothingStale

\* Steps that leave alone what the invariant is about, and steps that end a
\* run or have not begun to list.
LEMMA FreshAside ==
  ASSUME FreshInv, UNCHANGED <<calendar, history, local, cursor, pc>>,
         progress'.window = progress.window, progress'.page = progress.page, progress'.day = progress.day,
         run'.cursor = run.cursor, run'.page = run.page, run'.sync = run.sync, run'.cut = run.cut,
         run'.prog = run.prog
  PROVE  FreshInv'
BY FreshSame DEF FreshInv

LEMMA FreshEnded ==
  ASSUME FreshInv, UNCHANGED <<calendar, history, local, cursor, progress>>,
         \/ pc' \in {"idle", "finish", "gone"}
         \/ /\ pc' \in {"changes", "advance"}
            /\ \/ cursor # NoCursor /\ run'.cursor = cursor
               \/ pc = "changes" /\ run'.cursor = run.cursor
  PROVE  FreshInv'
<1>1. cursor # NoCursor => Since(cursor.at)
  BY DEF FreshInv, NothingStale, Since, Fresh
<1> QED  BY <1>1, FreshSame DEF FreshInv

LEMMA FreshChange ==
  ASSUME WInv, FreshInv, NEW e \in Events, NEW event, Change(e, event)
  PROVE  FreshInv'
<1>0. TInv
  BY DEF WInv
<1>1. UNCHANGED <<local, cursor, progress, pc, run>>
  BY DEF Change, stream, worker
<1>2. /\ \A n \in 0..Len(history) : ChangedSince(n)' = ChangedSince(n) \cup {e}
      /\ \A f \in Events \ {e} : calendar'[f] = calendar[f] /\ (Held(f) => Held(f)')
      /\ \A day : Listed(day)' \ {e} = Listed(day) \ {e}
  BY <1>0, ChangeKeeps
<1>3. /\ cursor # NoCursor => cursor.at \in 0..Len(history)
      /\ run.cursor # NoCursor => run.cursor.at \in 0..Len(history)
      /\ run.sync # NoCursor => run.sync.at \in 0..Len(history)
      /\ progress.page # First => progress.page.at \in 0..Len(history)
      /\ run.page # First => run.page.at \in 0..Len(history)
      /\ run.prog.page # First => run.prog.page.at \in 0..Len(history)
  BY <1>0 DEF TInv, RunFine, Upto, Known
<1>4. \A f \in Events \ {e} : Fresh(f) => Fresh(f)'
  BY <1>1, <1>2 DEF Fresh
<1>5. ASSUME NEW n \in 0..Len(history), NEW day, Outside(n, day) PROVE Outside(n, day)'
  <2>1. \A f \in Events : f \notin (Listed(day) \cup ChangedSince(n))' =>
                            f # e /\ f \notin Listed(day) \cup ChangedSince(n)
    BY <1>2
  <2> QED  BY <1>4, <1>5, <2>1 DEF Outside
<1>6. NothingStale'
  <2>1. ASSUME cursor # NoCursor, NEW f \in Events, f \notin ChangedSince(cursor.at)' PROVE Fresh(f)'
    <3>1. f # e /\ f \notin ChangedSince(cursor.at)
      BY <1>1, <1>2, <1>3, <2>1
    <3> QED  BY <1>4, <2>1, <3>1 DEF FreshInv, NothingStale, Fresh
  <2> QED  BY <1>1, <2>1 DEF NothingStale, Fresh
<1>7. ASSUME pc \in {"changes", "advance"} PROVE Since(run.cursor.at)'
  <2>1. run.cursor # NoCursor /\ Since(run.cursor.at)
    BY <1>7 DEF WInv, Steps, FreshInv
  <2>2. \A f \in Events : f \notin ChangedSince(run.cursor.at)' => f # e /\ f \notin ChangedSince(run.cursor.at)
    BY <1>1, <1>2, <1>3, <2>1
  <2> QED  BY <1>1, <1>4, <2>1, <2>2 DEF Since
<1> QED  BY <1>1, <1>3, <1>5, <1>6, <1>7 DEF FreshInv

\* What is stored of a record that was read and has not changed since.
LEMMA FreshUpserted ==
  ASSUME TInv, local' = Upserted(run.read), emptied' = emptied \ Seen(run.read), calendar' = calendar,
         NEW e \in Events, Fresh(e) \/ run.read[e] # Unread, run.read[e] # Unread => run.read[e] = calendar[e]
  PROVE  Fresh(e)'
<1>1. CASE run.read[e] # Unread
  BY <1>1, UpsertHolds DEF Fresh
<1>2. CASE run.read[e] = Unread
  <2>1. local'[e] = local[e]
    BY <1>2 DEF Upserted
  <2> QED  BY <1>2, <2>1 DEF Fresh, Held
<1> QED  BY <1>1, <1>2

LEMMA FreshStart == ASSUME WInv, FreshInv, Start PROVE FreshInv'
<1>1. run = Idle /\ UNCHANGED <<calendar, history, local, cursor, progress>>
  BY DEF Start, WInv, TInv, Stage, google, stream
<1>2. CASE cursor # NoCursor /\ pc' = "changes" /\ run' = [run EXCEPT !.cursor = cursor]
  <2>1. run'.cursor = cursor
    BY <1>1, <1>2 DEF Idle
  <2> QED  BY <1>1, <1>2, <2>1, FreshEnded
<1>3. CASE pc' = "page" /\ run' = [run EXCEPT !.prog = IF progress.window THEN progress ELSE NewWindow]
  <2>1. run'.prog = IF progress.window THEN progress ELSE NewWindow
    BY <1>1, <1>3 DEF Idle
  <2>2. run'.prog.page # First => progress.window /\ run'.prog = progress
    BY <2>1 DEF NewWindow
  <2>3. run'.prog.page # First => Outside(progress.page.at, progress.day)
    BY <2>2 DEF FreshInv
  <2> QED  BY <1>1, <1>3, <2>2, <2>3, FreshSame DEF FreshInv
<1> QED  BY <1>2, <1>3 DEF Start

LEMMA FreshPage ==
  ASSUME WInv, FreshInv, Abreast, NEW size \in 1..PageSize, AskPage(size)
  PROVE  FreshInv'
<1> DEFINE rest == After(run.prog.page, Listed(run.prog.day))
           page == Smallest(rest, size)
           following == NextPage(run.prog.page, rest, page)
           cut == Cardinality(page) > Remaining
           read == Records(Idle.read, Smallest(page, Remaining))
           sync == IF following # First THEN NoCursor
                   ELSE [at |-> At(run.prog.page), day |-> run.prog.day]
<1>0. TInv /\ run \in RunType /\ run.prog \in Progress /\ history \in Seq(Events) /\ Len(history) \in Nat
  BY Fields DEF WInv
<1>1. /\ pc = "page" /\ pc' = "store" /\ UNCHANGED <<calendar, history, local, cursor, progress>>
      /\ run' = [run EXCEPT !.read = read, !.page = IF cut THEN First ELSE following,
                            !.cut = cut, !.sync = sync]
  BY DEF AskPage, google, stream
<1>2. following # First => following.at = At(run.prog.page)
  BY DEF NextPage
<1>3. sync # NoCursor => sync.at = At(run.prog.page) /\ sync.day = run.prog.day
  OBVIOUS
<1> HIDE DEF following, cut, read, sync
<1>4. /\ run'.prog = run.prog /\ run'.sync = sync
      /\ run'.page # First => run'.page.at = At(run.prog.page)
  BY <1>0, <1>1, <1>2 DEF RunType
<1>5. Outside(At(run.prog.page), run.prog.day)
  <2>1. CASE run.prog.page = First
    <3>1. \A e \in Events \ Listed(run.prog.day) : Fresh(e)
      BY <2>1 DEF Abreast, Fresh
    <3> QED  BY <3>1 DEF Outside
  <2>2. CASE run.prog.page # First
    BY <1>1, <2>2 DEF FreshInv, At
  <2> QED  BY <2>1, <2>2
<1>6. run.prog.page # First => Outside(run.prog.page.at, run.prog.day)
  BY <1>1 DEF FreshInv
<1>7. /\ NothingStale
      /\ progress.window /\ progress.page # First => Outside(progress.page.at, progress.day)
  BY DEF FreshInv
<1>8. /\ \A at, day : Outside(at, day)' = Outside(at, day)
      /\ NothingStale' = NothingStale
  BY <1>1, FreshSame
<1> QED  BY <1>1, <1>3, <1>4, <1>5, <1>6, <1>7, <1>8 DEF FreshInv

LEMMA FreshStored == ASSUME WInv, FreshInv, StorePage PROVE FreshInv'
<1> DEFINE prog == [run.prog EXCEPT !.page = run.page, !.fetched = @ + Cardinality(Seen(run.read))]
<1>0. TInv /\ run \in RunType /\ run.prog \in Progress
  BY Fields DEF WInv
<1>1. /\ pc = "store" /\ progress' = prog /\ local' = Upserted(run.read)
      /\ emptied' = emptied \ Seen(run.read)
      /\ Beat(IF run.page # First THEN "page" ELSE "done", [run EXCEPT !.prog = prog])
      /\ UNCHANGED <<calendar, history, cursor>>
  BY DEF StorePage, Seen, google
<1>2. prog.page = run.page /\ prog.day = run.prog.day
  BY <1>0 DEF Progress
<1> HIDE DEF prog
<1>3. Fetched
  BY <1>1 DEF WInv, Steps
<1>4. \A day, n : Listed(day)' = Listed(day) /\ ChangedSince(n)' = ChangedSince(n)
  BY <1>1 DEF Listed, ChangedSince
<1>5. ASSUME NEW at, NEW day, AsRead(at), Outside(at, day) PROVE Outside(at, day)'
  <2>1. ASSUME NEW e \in Events, e \notin Listed(day) \cup ChangedSince(at) PROVE Fresh(e)'
    <3>1. Fresh(e) /\ (run.read[e] # Unread => run.read[e] = calendar[e])
      BY <1>5, <2>1 DEF Outside, AsRead
    <3> QED  BY <1>0, <1>1, <3>1, FreshUpserted
  <2> QED  BY <1>4, <2>1 DEF Outside
<1>6. NothingStale'
  <2>1. ASSUME cursor # NoCursor, NEW e \in Events, e \notin ChangedSince(cursor.at) PROVE Fresh(e)'
    <3>1. Fresh(e) /\ (run.read[e] # Unread => run.read[e] = calendar[e])
      BY <1>3, <2>1 DEF FreshInv, NothingStale, Fresh, Fetched, AsRead
    <3> QED  BY <1>0, <1>1, <3>1, FreshUpserted
  <2> QED  BY <1>1, <1>4, <2>1 DEF NothingStale, Fresh
<1>7. ASSUME run.page # First, NEW at, at = run.page.at, NEW day, day = run.prog.day
      PROVE  Outside(at, day)'
  <2>1. AsRead(at) /\ Outside(at, day)
    BY <1>1, <1>3, <1>7 DEF Fetched, Bridges, FreshInv
  <2> QED  BY <1>5, <2>1
<1>8. ASSUME ~run.cut, run.sync # NoCursor, NEW at, at = run.sync.at, NEW day, day = run.sync.day
      PROVE  Outside(at, day)'
  <2>1. AsRead(at) /\ Outside(at, day)
    BY <1>1, <1>3, <1>8 DEF Fetched, Bridges, AsRead, FreshInv
  <2> QED  BY <1>5, <2>1
<1>9. progress'.page # First => Outside(progress.page.at, progress.day)'
  BY <1>1, <1>2, <1>7
<1>10. CASE run.lost
  <2>1. pc' = "idle"
    BY <1>1, <1>10 DEF Beat, End
  <2> QED  BY <1>6, <1>9, <2>1 DEF FreshInv
<1>11. CASE ~run.lost
  <2>1. pc' = (IF run.page # First THEN "page" ELSE "done") /\ run' = [run EXCEPT !.prog = prog]
    BY <1>1, <1>11 DEF Beat
  <2>2. run'.prog = prog /\ run'.sync = run.sync /\ run'.cut = run.cut
    BY <1>0, <2>1 DEF RunType
  <2>3. run'.prog.page # First => Outside(run.prog.page.at, run.prog.day)'
    BY <1>2, <1>7, <2>2
  <2>4. ~run'.cut /\ run'.sync # NoCursor => Outside(run.sync.at, run.sync.day)'
    BY <1>8, <2>2
  <2> QED  BY <1>6, <1>9, <2>1, <2>3, <2>4 DEF FreshInv
<1> QED  BY <1>10, <1>11

LEMMA FreshAdvance == ASSUME WInv, FreshInv, Advance PROVE FreshInv'
<1>1. /\ pc = "advance" /\ local' = Upserted(run.read) /\ cursor' = run.sync /\ pc' = "finish"
      /\ emptied' = emptied \ Seen(run.read)
      /\ calendar' = calendar /\ history' = history /\ progress' = progress
  BY DEF Advance, google
<1>2. /\ TInv /\ ~progress.window /\ Since(run.cursor.at)
      /\ \A n \in Events : Gathered(run.sync.at, n)
  BY <1>1 DEF WInv, Steps, FreshInv
<1>3. \A n : ChangedSince(n)' = ChangedSince(n)
  BY <1>1 DEF ChangedSince
<1>4. ASSUME NEW e \in Events, e \notin ChangedSince(run.sync.at) PROVE Fresh(e)'
  <2>1. e <= e
    BY Constants
  <2>2. AsRead(run.sync.at) /\ (e \in ChangedSince(run.cursor.at) => run.read[e] # Unread)
    BY <1>2, <1>4, <2>1 DEF Gathered
  <2>3. e \notin ChangedSince(run.cursor.at) => Fresh(e)
    BY <1>2 DEF Since
  <2>4. run.read[e] # Unread => run.read[e] = calendar[e]
    BY <1>4, <2>2 DEF AsRead
  <2> QED  BY <1>1, <1>2, <2>2, <2>3, <2>4, FreshUpserted
<1>5. NothingStale'
  BY <1>1, <1>3, <1>4 DEF NothingStale, Fresh
<1> QED  BY <1>1, <1>2, <1>5 DEF FreshInv

LEMMA FreshDone == ASSUME WInv, FreshInv, Done PROVE FreshInv'
<1>1. /\ pc = "done" /\ cursor' = NewCursor /\ pc' = "finish" /\ run' = run
      /\ progress' = [NoProgress EXCEPT !.fresh = TRUE]
      /\ UNCHANGED <<calendar, history, local>>
  BY DEF Done, google
<1>2. ~progress'.window
  BY <1>1 DEF NoProgress
<1>3. ASSUME cursor' # NoCursor, NEW e \in Events, e \notin ChangedSince(cursor'.at) PROVE Fresh(e)
  <2>1. ~run.cut /\ cursor' = run.sync
    BY <1>1, <1>3 DEF NewCursor
  <2>2. Covered(run.sync) /\ Outside(run.sync.at, run.sync.day)
    BY <1>1, <1>3, <2>1 DEF WInv, Steps, FreshInv
  <2>3. Kept(e) => Fresh(e)
    BY DEF Kept, Fresh, WInv, TInv
  <2> QED  BY <1>3, <2>1, <2>2, <2>3 DEF Covered, Outside
<1>4. NothingStale'
  BY <1>1, <1>3, Same DEF NothingStale, Fresh
<1> QED  BY <1>1, <1>2, <1>4 DEF FreshInv

\* What is no longer here is not out of date.
LEMMA FreshDelete == ASSUME WInv, DeleteData PROVE FreshInv'
<1>1. local' = [e \in Events |-> None]
  BY DEF DeleteData
<1>2. \A e \in Events : Fresh(e)'
  BY <1>1 DEF Fresh
<1> QED  BY <1>2 DEF FreshInv, NothingStale, Since, Outside, Fresh

LEMMA FreshNext == WInv /\ FreshInv /\ [Next]_vars /\ [Abreast]_vars => FreshInv'
<1> SUFFICES ASSUME WInv, FreshInv, [Next]_vars, [Abreast]_vars PROVE FreshInv'
  OBVIOUS
<1>0. run \in RunType /\ progress \in Progress
  BY Fields DEF WInv, TInv, TypeOK
<1>1. CASE UNCHANGED vars
  BY <1>1, FreshAside DEF vars, google, stream, worker
<1> SUFFICES ASSUME Next, Abreast PROVE FreshInv'
  BY <1>1
<1>2. CASE Google
  <2>1. ASSUME NEW e \in Events, NEW event, Change(e, event) PROVE FreshInv'
    BY <2>1, FreshChange
  <2>2. CASE Day
    <3>1. progress' = [progress EXCEPT !.fresh = FALSE] /\ UNCHANGED <<calendar, history, local, cursor, pc, run>>
      BY <2>2 DEF Day, worker
    <3>2. progress'.window = progress.window /\ progress'.page = progress.page /\ progress'.day = progress.day
      BY <1>0, <3>1 DEF Progress
    <3> QED  BY <3>1, <3>2, FreshAside
  <2>3. CASE BecomeDue
    BY <2>3, FreshAside DEF BecomeDue, google, stream, worker
  <2> QED  BY <1>2, <2>1, <2>2, <2>3 DEF Google
<1>3. CASE Grant \/ Disconnect \/ SyncNow
  <2>1. UNCHANGED <<calendar, history, local, cursor, progress, pc>>
    BY <1>3 DEF Grant, Disconnect, SyncNow, Request, google, stream
  <2>2. run' = run \/ run' = [run EXCEPT !.lost = (pc # "idle")]
    BY <1>3 DEF Grant, Disconnect, SyncNow
  <2>3. /\ run'.cursor = run.cursor /\ run'.page = run.page /\ run'.sync = run.sync /\ run'.cut = run.cut
        /\ run'.prog = run.prog
    BY <1>0, <2>2 DEF RunType
  <2> QED  BY <2>1, <2>3, FreshAside
<1>4. CASE Crash \/ AskFails \/ Stop \/ Finish \/ TokenRefused
  BY <1>4, FreshEnded DEF Crash, AskFails, Stop, Finish, TokenRefused, End, google, stream
<1>5. CASE Forget
  <2>1. /\ pc' = "page" /\ cursor' = NoCursor /\ run' = [run EXCEPT !.prog = NewWindow]
        /\ UNCHANGED <<calendar, history, local, progress>>
    BY <1>5 DEF Forget, google
  <2>2. run'.prog.page = First
    BY <1>0, <2>1 DEF RunType, NewWindow
  <2>3. NothingStale'
    BY <2>1 DEF NothingStale
  <2>4. (progress.window /\ progress.page # First => Outside(progress.page.at, progress.day))'
    BY <2>1, FreshSame DEF FreshInv
  <2> QED  BY <2>1, <2>2, <2>3, <2>4 DEF FreshInv
<1>6. CASE WindowFull
  <2>1. /\ pc' = "done" /\ run' = [run EXCEPT !.cut = TRUE, !.sync = NoCursor]
        /\ UNCHANGED <<calendar, history, local, cursor, progress>>
    BY <1>6 DEF WindowFull, google, stream
  <2>2. run'.cut = TRUE
    BY <1>0, <2>1 DEF RunType
  <2> QED  BY <2>1, <2>2, FreshSame DEF FreshInv
<1>7. CASE Start \/ Advance \/ StorePage \/ Done
  BY <1>7, FreshStart, FreshAdvance, FreshStored, FreshDone
<1>8. ASSUME NEW size \in 1..PageSize, AskChanges(size) PROVE FreshInv'
  <2>1. pc' \in {"changes", "advance", "idle"} /\ UNCHANGED <<calendar, history, local, cursor, progress>>
    BY <1>8 DEF AskChanges, Beat, End, google, stream
  <2>2. pc = "changes" /\ (pc' # "idle" => run'.cursor = run.cursor)
    BY <1>0, <1>8 DEF AskChanges, Beat, End, RunType
  <2> QED  BY <2>1, <2>2, FreshEnded
<1>9. ASSUME NEW size \in 1..PageSize, AskPage(size) PROVE FreshInv'
  BY <1>9, FreshPage
<1>10. CASE DeleteData
  BY <1>10, FreshDelete
<1> QED  BY <1>2, <1>3, <1>4, <1>5, <1>6, <1>7, <1>8, <1>9, <1>10 DEF Next, User, Amiss, Work, Ask

\* What is here of the calendar, and has not changed since the token, is as it
\* is at Google, if a window is only listed anew when what is here outside it
\* is (_calendar, app/google_sync.py): pages that are resumed after a crash,
\* events that move between two pages, tokens that are refused and deletions of
\* the imported data, under a run too, do no harm.
THEOREM NothingIsStale == Spec /\ [][Abreast]_vars => []NothingStale
<1>1. FreshInv => NothingStale
  BY DEF FreshInv
<1> QED  BY <1>1, WindowInit, WindowNext, FreshInit, FreshNext, PTL DEF Spec
=============================================================================
