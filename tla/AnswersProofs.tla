---------------------------- MODULE AnswersProofs ----------------------------
(* Theorems about Answers, for any messages, requests and changes.          *)
EXTENDS Answers, TLAPS, FiniteSetTheorems

-----------------------------------------------------------------------------
(* Types: the state is bounded by what the user and the imports may do, and *)
(* a request under way has been counted.                                    *)

AtMostOne(S) == S = {} \/ \E x \in S : S = {x}

LeavingType == [msg : Messages, answers : SUBSET Ids, drafts : SUBSET Ids, suggestion : BOOLEAN]

MessagesOK ==
  /\ msg \in [Messages -> {"live", "tombstone", "gone"}] /\ ver \in [Messages -> Versions]
  /\ facts \subseteq {m \in Messages : msg[m] = "live"}
  /\ AtMostOne(leaving) /\ leaving \subseteq LeavingType

WrittenOK ==
  /\ answers \subseteq Written /\ drafts \subseteq Written
  /\ invitee \in Invitee
  /\ behind \in [pair : SUBSET Pairs, raced : BOOLEAN]

CallsOK ==
  /\ call \in [Kinds -> SUBSET Call]
  /\ \A k \in Kinds : AtMostOne(call[k])

BoundsOK ==
  /\ changes \in 0..MaxChanges /\ calls \in 0..MaxCalls /\ acts \in 0..MaxActs
  /\ \A m \in Messages : ver[m] <= changes
  /\ \A k \in Kinds : call[k] # {} => calls >= 1

Typed == MessagesOK /\ WrittenOK /\ CallsOK /\ BoundsOK

LEMMA Few ==
  ASSUME NEW S, AtMostOne(S)
  PROVE  Cardinality(S) <= 1
<1>1. CASE S = {}
  BY <1>1, FS_EmptySet
<1>2. CASE \E x \in S : S = {x}
  <2>1. PICK x \in S : S = {x}
    BY <1>2
  <2>2. Cardinality({x}) = 1
    BY FS_Singleton
  <2> QED
    BY <2>1, <2>2
<1> QED
  BY <1>1, <1>2 DEF AtMostOne

LEMMA TypedImplies == Typed => TypeOK
BY Few DEF Typed, TypeOK, MessagesOK, WrittenOK, CallsOK, LeavingType

LEMMA PairsParts ==
  /\ \A p \in Pairs : p = <<p[1], p[2]>> /\ p[1] \in Messages /\ p[2] \in Versions
  /\ \A C \in SUBSET Pairs : Of(C) \subseteq Messages
BY DEF Pairs, Of

\* The version a message has now is a version.
LEMMA NowTyped ==
  ASSUME MessagesOK, NEW S \in SUBSET Messages
  PROVE  /\ Now(S) \in SUBSET Pairs
         /\ \A p \in Now(S) : p[1] \in S /\ p[2] = ver[p[1]]
         /\ \A m \in S : <<m, ver[m]>> \in Now(S)
BY DEF MessagesOK, Now, Pairs

LEMMA CitingTyped ==
  ASSUME NEW W \in SUBSET Written, NEW m
  PROVE  Citing(W, m) \in SUBSET Ids
BY DEF Citing, Written

LEMMA TextTyped ==
  ASSUME NEW id \in Ids, NEW cites \in SUBSET Pairs, NEW used \in SUBSET Pairs,
         NEW late \in BOOLEAN, NEW text \in 0..MaxActs
  PROVE  /\ Text(id, cites, used, late, text) \in Written
         /\ Text(id, cites, used, late, text).id = id
         /\ Text(id, cites, used, late, text).cites = cites
         /\ Text(id, cites, used, late, text).used = used
         /\ Text(id, cites, used, late, text).stale = FALSE
         /\ ~Text(id, cites, used, late, text).raced => ~late /\ Of(used) \cap Leaving = {}
<1> DEFINE r == late \/ Of(used) \cap Leaving # {}
<1>1. r \in BOOLEAN
  OBVIOUS
<1>2. Text(id, cites, used, late, text) =
        [id |-> id, cites |-> cites, used |-> used, stale |-> FALSE, text |-> text, raced |-> r]
  BY DEF Text
<1>3. ~r => ~late /\ Of(used) \cap Leaving = {}
  OBVIOUS
<1> HIDE DEF r
<1> QED
  BY <1>1, <1>2, <1>3 DEF Written

\* The text of a row that was written, the marks it may get, what is removed.
LEMMA WrittenFields ==
  ASSUME NEW w \in Written
  PROVE  /\ w.id \in Ids /\ w.cites \in SUBSET Pairs /\ w.used \in SUBSET Pairs
         /\ w.stale \in BOOLEAN /\ w.raced \in BOOLEAN /\ w.text \in 0..MaxActs
         /\ \A text \in 0..MaxActs : [w EXCEPT !.text = text] \in Written
         /\ \A b \in BOOLEAN, C \in SUBSET Pairs : [w EXCEPT !.stale = b, !.cites = C] \in Written
BY DEF Written

LEMMA RacedTyped ==
  ASSUME NEW C \in SUBSET Call, AtMostOne(C)
  PROVE  Raced(C) \in SUBSET Call /\ AtMostOne(Raced(C)) /\ (C = {} => Raced(C) = {})
<1>1. \A x \in Call : [x EXCEPT !.raced = TRUE] \in Call
  BY DEF Call
<1>2. Raced(C) \in SUBSET Call
  BY <1>1 DEF Raced
<1>3. CASE C = {}
  BY <1>2, <1>3 DEF Raced, AtMostOne
<1>4. CASE \E x \in C : C = {x}
  <2>1. PICK x \in C : C = {x}
    BY <1>4
  <2>2. Raced(C) = {[x EXCEPT !.raced = TRUE]}
    BY <2>1 DEF Raced
  <2> QED
    BY <1>2, <2>1, <2>2 DEF AtMostOne
<1> QED
  BY <1>3, <1>4 DEF AtMostOne

\* What a call says when it is marked.
LEMMA RacedFields ==
  ASSUME NEW C \in SUBSET Call, NEW c \in Raced(C)
  PROVE  c.raced
<1>1. PICK x \in C : c = [x EXCEPT !.raced = TRUE]
  BY DEF Raced
<1> QED
  BY <1>1 DEF Call

LEMMA TypedInit == Init => Typed
<1> SUFFICES ASSUME Init PROVE Typed
  OBVIOUS
<1> USE AnswersAssumption
<1>1. MessagesOK
  BY DEF Init, MessagesOK, AtMostOne, Versions
<1>2. WrittenOK
  BY DEF Init, WrittenOK, Invitee, Statuses
<1>3. CallsOK
  BY DEF Init, CallsOK, AtMostOne
<1>4. BoundsOK
  BY DEF Init, BoundsOK
<1> QED
  BY <1>1, <1>2, <1>3, <1>4 DEF Typed

-----------------------------------------------------------------------------
(* Types: the messages *)

LEMMA MessagesNext == Typed /\ [Next]_vars => MessagesOK'
<1> SUFFICES ASSUME Typed, [Next]_vars PROVE MessagesOK'
  OBVIOUS
<1>0. /\ MessagesOK /\ answers \subseteq Written /\ drafts \subseteq Written
      /\ MaxChanges \in Nat /\ changes \in 0..MaxChanges
      /\ \A m \in Messages : ver[m] \in Nat /\ ver[m] <= changes
  BY AnswersAssumption DEF Typed, WrittenOK, BoundsOK, MessagesOK, Versions
<1>1. ASSUME NEW m \in Messages, Upsert(m) PROVE MessagesOK'
  <2>1. UNCHANGED leaving /\ facts' = facts \ {m} /\ msg' \in [Messages -> {"live", "tombstone", "gone"}]
    BY <1>0, <1>1 DEF Upsert, Invalidate, MessagesOK
  <2>2. \A n \in Messages : n # m => msg'[n] = msg[n]
    BY <1>0, <1>1 DEF Upsert, MessagesOK
  <2>3. facts' \subseteq {n \in Messages : msg'[n] = "live"}
    BY <1>0, <2>1, <2>2 DEF MessagesOK
  <2>4. ver[m] + 1 \in Versions
    BY <1>0, <1>1 DEF Upsert, Change, Versions
  <2>5. ver' \in [Messages -> Versions]
    BY <1>0, <1>1, <2>4 DEF Upsert, MessagesOK
  <2> QED
    BY <1>0, <2>1, <2>3, <2>5 DEF MessagesOK
<1>2. ASSUME NEW m \in Messages, Leave(m) PROVE MessagesOK'
  <2> DEFINE l == [msg |-> m, answers |-> Citing(answers, m), drafts |-> Citing(drafts, m),
                   suggestion |-> invitee.by = m]
  <2>1. UNCHANGED <<msg, ver, facts>> /\ leaving' = {l}
    BY <1>2 DEF Leave
  <2>2. (invitee.by = m) \in BOOLEAN
    OBVIOUS
  <2>3. l \in LeavingType
    <3> DEFINE b == invitee.by = m
    <3>1. b \in BOOLEAN /\ Citing(answers, m) \in SUBSET Ids /\ Citing(drafts, m) \in SUBSET Ids
      BY <1>0, CitingTyped
    <3> HIDE DEF b
    <3>2. [msg |-> m, answers |-> Citing(answers, m), drafts |-> Citing(drafts, m), suggestion |-> b]
            \in LeavingType
      BY <3>1 DEF LeavingType
    <3> QED
      BY <3>2 DEF b
  <2> HIDE DEF l
  <2> QED
    BY <1>0, <2>1, <2>3 DEF MessagesOK, AtMostOne
<1>3. ASSUME NEW l \in leaving, Gone(l) PROVE MessagesOK'
  <2>1. /\ UNCHANGED ver /\ facts' = facts \ {l.msg} /\ leaving' = {}
        /\ msg' = [msg EXCEPT ![l.msg] = "gone"]
    BY <1>3 DEF Gone, Invalidate
  <2> QED
    BY <1>0, <2>1 DEF MessagesOK, AtMostOne
<1>4. ASSUME NEW m \in Messages, Extract(m) PROVE MessagesOK'
  BY <1>0, <1>4 DEF Extract, MessagesOK
<1>5. UNCHANGED messages \/ Ingest
  BY DEF Next, User, Answered, vars, Ask, Draft, Rewrite, Check, Start, SetStatus, Save, Act,
         Answer, StoreDraft, StoreRewrite, StoreCheck, Fails, Ended
<1>6. CASE UNCHANGED messages
  BY <1>0, <1>6 DEF messages, MessagesOK
<1> QED
  BY <1>1, <1>2, <1>3, <1>4, <1>5, <1>6 DEF Ingest

-----------------------------------------------------------------------------
(* Types: the requests *)

\* What a request starts with.
Starts ==
  \E k \in Kinds, S \in SUBSET Messages, draft \in {0} \cup Ids, text \in 0..MaxActs :
    /\ Start(k, S, draft, text)
    /\ S \subseteq Live
    /\ k = "check" => S \subseteq Replies

LEMMA UserStarts ==
  ASSUME Typed, User
  PROVE  Starts \/ (\E status \in Statuses : SetStatus(status)) \/ Save
<1> USE AnswersAssumption
<1>0. /\ 0 \in 0..MaxActs /\ facts \subseteq Live /\ Replies \subseteq Messages
      /\ \A d \in drafts : d.id \in Ids /\ d.text \in 0..MaxActs
      /\ facts \in SUBSET Messages /\ {} \in SUBSET Messages /\ Replies \cap Live \in SUBSET Messages
      /\ Live \subseteq Messages
  <2>1. drafts \subseteq Written /\ facts \subseteq Live
    BY DEF Typed, MessagesOK, WrittenOK, Live
  <2>2. \A d \in drafts : d.id \in Ids /\ d.text \in 0..MaxActs
    BY <2>1, WrittenFields
  <2> QED
    BY <2>1, <2>2 DEF Live
<1>1. ASSUME NEW S \in SUBSET Messages, Ask(S) PROVE Starts
  BY <1>0, <1>1 DEF Ask, Starts, Kinds
<1>2. CASE Draft
  BY <1>0, <1>2 DEF Draft, Starts, Kinds
<1>3. CASE Rewrite
  BY <1>0, <1>3 DEF Rewrite, Starts, Kinds
<1>4. CASE Check
  BY <1>0, <1>4 DEF Check, Starts, Kinds
<1> QED
  BY <1>1, <1>2, <1>3, <1>4 DEF User

\* How a step changes the requests under way.
CallStep ==
  \/ UNCHANGED call
  \/ Starts
  \/ \E k \in Kinds : call' = [call EXCEPT ![k] = {}] /\ UNCHANGED bounds
  \/ call' = [call EXCEPT !["check"] = Raced(@)] /\ UNCHANGED calls
  \/ \E m \in Messages : Touched(m) /\ UNCHANGED calls

LEMMA CallSteps == Typed /\ [Next]_vars => CallStep
<1> SUFFICES ASSUME Typed, [Next]_vars PROVE CallStep
  OBVIOUS
<1>1. CASE User
  BY <1>1, UserStarts DEF CallStep, SetStatus, Save, Act
<1>2. CASE Answered
  <2>1. \E k \in Kinds : Ended(k)
    BY <1>2 DEF Answered, Kinds, Answer, StoreDraft, StoreRewrite, StoreCheck, Fails
  <2> QED
    BY <2>1 DEF CallStep, Ended
<1>3. CASE Ingest
  <2>1. \A l \in leaving : l.msg \in Messages
    BY DEF Typed, MessagesOK, LeavingType
  <2>2. UNCHANGED call \/ \E m \in Messages : Touched(m) /\ UNCHANGED calls
    BY <1>3, <2>1 DEF Ingest, Upsert, Leave, Gone, Extract, Invalidate, Change, bounds
  <2> QED
    BY <2>2 DEF CallStep
<1>4. CASE UNCHANGED vars
  BY <1>4 DEF vars, CallStep
<1> QED
  BY <1>1, <1>2, <1>3, <1>4 DEF Next

\* A request that starts, as a row.
NewCall(S, draft, text) ==
  [seen |-> Now(S), raced |-> FALSE, draft |-> draft, text |-> text, invitee |-> invitee]

LEMMA NewCallTyped ==
  ASSUME Typed, NEW S \in SUBSET Messages, NEW draft \in {0} \cup Ids, NEW text \in 0..MaxActs
  PROVE  NewCall(S, draft, text) \in Call
BY NowTyped DEF Typed, WrittenOK, NewCall, Call

LEMMA CallsNext == Typed /\ CallStep => CallsOK'
<1> SUFFICES ASSUME Typed, CallStep PROVE CallsOK'
  OBVIOUS
<1>0. CallsOK
  BY DEF Typed
<1>1. CASE UNCHANGED call
  BY <1>0, <1>1 DEF CallsOK
<1>2. CASE Starts
  <2>1. PICK k \in Kinds, S \in SUBSET Messages, draft \in {0} \cup Ids, text \in 0..MaxActs :
          call' = [call EXCEPT ![k] = {NewCall(S, draft, text)}]
    BY <1>2 DEF Starts, Start, NewCall
  <2>2. NewCall(S, draft, text) \in Call
    BY NewCallTyped
  <2> QED
    BY <1>0, <2>1, <2>2 DEF CallsOK, AtMostOne
<1>3. ASSUME NEW k \in Kinds, call' = [call EXCEPT ![k] = {}] PROVE CallsOK'
  BY <1>0, <1>3 DEF CallsOK, AtMostOne
<1>4. CASE call' = [call EXCEPT !["check"] = Raced(@)]
  <2>1. Raced(call["check"]) \in SUBSET Call /\ AtMostOne(Raced(call["check"]))
    BY <1>0, RacedTyped DEF CallsOK, Kinds
  <2> QED
    BY <1>0, <1>4, <2>1 DEF CallsOK
<1>5. ASSUME NEW m \in Messages, Touched(m) PROVE CallsOK'
  <2>1. ASSUME NEW k \in Kinds
        PROVE  /\ Raced(call[k]) \in SUBSET Call /\ AtMostOne(Raced(call[k]))
               /\ call[k] \in SUBSET Call /\ AtMostOne(call[k])
    BY <1>0, RacedTyped DEF CallsOK
  <2>2. call' = [k \in Kinds |-> IF \E c \in call[k] : m \in Of(c.seen) THEN Raced(call[k]) ELSE call[k]]
    BY <1>5 DEF Touched
  <2>3. \A k \in Kinds : call'[k] \in {Raced(call[k]), call[k]}
    BY <2>2
  <2>4. DOMAIN call' = Kinds /\ call' = [k \in Kinds |-> call'[k]]
    BY <2>2
  <2>5. \A k \in Kinds : call'[k] \in SUBSET Call /\ AtMostOne(call'[k])
    BY <2>1, <2>3
  <2> QED
    BY <2>4, <2>5 DEF CallsOK
<1> QED
  BY <1>1, <1>2, <1>3, <1>4, <1>5 DEF CallStep

LEMMA BoundsNext == Typed /\ [Next]_vars => BoundsOK'
<1> SUFFICES ASSUME Typed, [Next]_vars PROVE BoundsOK'
  OBVIOUS
<1>0. /\ MaxChanges \in Nat /\ MaxCalls \in Nat /\ MaxActs \in Nat
      /\ changes \in 0..MaxChanges /\ calls \in 0..MaxCalls /\ acts \in 0..MaxActs
      /\ \A m \in Messages : ver[m] \in Nat /\ ver[m] <= changes
      /\ \A k \in Kinds : call[k] # {} => calls >= 1
      /\ ver \in [Messages -> Versions]
      /\ call \in [Kinds -> SUBSET Call] /\ \A k \in Kinds : AtMostOne(call[k])
  BY AnswersAssumption DEF Typed, BoundsOK, MessagesOK, CallsOK, Versions
<1>1. /\ changes' \in 0..MaxChanges /\ \A m \in Messages : ver'[m] <= changes'
  <2>2. ASSUME NEW m \in Messages, Upsert(m)
        PROVE  changes' \in 0..MaxChanges /\ \A n \in Messages : ver'[n] <= changes'
    <3>1. changes' = changes + 1 /\ changes < MaxChanges
      BY <2>2 DEF Upsert, Change
    <3>2. ver' = [ver EXCEPT ![m] = @ + 1]
      BY <2>2 DEF Upsert
    <3>3. \A n \in Messages : ver'[n] = IF n = m THEN ver[m] + 1 ELSE ver[n]
      BY <1>0, <3>2
    <3> QED
      BY <1>0, <3>1, <3>3
  <2>3. ASSUME NEW m \in Messages, Leave(m)
        PROVE  changes' \in 0..MaxChanges /\ \A n \in Messages : ver'[n] <= changes'
    <3>1. changes' = changes + 1 /\ changes < MaxChanges /\ ver' = ver
      BY <2>3 DEF Leave, Change
    <3> QED
      BY <1>0, <3>1
  <2>4. UNCHANGED <<changes, ver>> \/ \E m \in Messages : Upsert(m) \/ Leave(m)
    BY DEF Next, User, Answered, Ingest, vars, messages, bounds, Ask, Draft, Rewrite, Check, Start,
           SetStatus, Save, Act, Answer, StoreDraft, StoreRewrite, StoreCheck, Fails, Ended, Gone,
           Extract
  <2> QED
    BY <1>0, <2>2, <2>3, <2>4
<1>2. calls' \in 0..MaxCalls /\ acts' \in 0..MaxActs
  <2>1. CASE User
    <3>1. CASE Starts
      BY <1>0, <3>1 DEF Starts, Start
    <3>2. CASE Save \/ \E status \in Statuses : SetStatus(status)
      <4>1. Act
        BY <3>2 DEF Save, SetStatus
      <4> QED
        BY <1>0, <4>1 DEF Act
    <3> QED
      BY <2>1, <3>1, <3>2, UserStarts
  <2>2. CASE Answered
    <3>1. \E k \in Kinds : Ended(k)
      BY <2>2 DEF Answered, Kinds, Answer, StoreDraft, StoreRewrite, StoreCheck, Fails
    <3> QED
      BY <1>0, <3>1 DEF Ended, bounds
  <2>3. CASE Ingest
    BY <1>0, <2>3 DEF Ingest, Upsert, Leave, Gone, Extract, Change, bounds
  <2>4. CASE UNCHANGED vars
    BY <1>0, <2>4 DEF vars, bounds
  <2> QED
    BY <2>1, <2>2, <2>3, <2>4 DEF Next
<1>3. \A k \in Kinds : call'[k] # {} => calls' >= 1
  <2>1. CallStep
    BY CallSteps
  <2>2. CASE UNCHANGED call
    <3>1. calls' >= calls
      <4>1. UNCHANGED calls \/ calls' = calls + 1
        BY DEF Next, User, Answered, Ingest, vars, bounds, Ask, Draft, Rewrite, Check, Start,
               SetStatus, Save, Act, Answer, StoreDraft, StoreRewrite, StoreCheck, Fails, Ended, Gone,
               Extract, Upsert, Leave, Change
      <4> QED
        BY <1>0, <4>1
    <3> QED
      BY <1>0, <1>2, <2>2, <3>1
  <2>3. CASE Starts
    <3>1. calls' = calls + 1
      BY <2>3 DEF Starts, Start
    <3> QED
      BY <1>0, <3>1
  <2>4. ASSUME NEW k \in Kinds, call' = [call EXCEPT ![k] = {}], UNCHANGED bounds
        PROVE  \A j \in Kinds : call'[j] # {} => calls' >= 1
    BY <1>0, <2>4 DEF bounds
  <2>5. CASE call' = [call EXCEPT !["check"] = Raced(@)] /\ UNCHANGED calls
    <3>1. call["check"] = {} => Raced(call["check"]) = {}
      BY DEF Raced
    <3> QED
      BY <1>0, <2>5, <3>1
  <2>6. ASSUME NEW m \in Messages, Touched(m), UNCHANGED calls
        PROVE  \A j \in Kinds : call'[j] # {} => calls' >= 1
    <3>1. \A k \in Kinds : call'[k] = IF \E c \in call[k] : m \in Of(c.seen)
                                    THEN Raced(call[k]) ELSE call[k]
      BY <2>6 DEF Touched
    <3>2. \A k \in Kinds : call'[k] # {} => call[k] # {}
      BY <3>1
    <3> QED
      BY <1>0, <2>6, <3>2
  <2> QED
    BY <2>1, <2>2, <2>3, <2>4, <2>5, <2>6 DEF CallStep
<1> QED
  BY <1>1, <1>2, <1>3 DEF BoundsOK

-----------------------------------------------------------------------------
(* Types: what is written *)

\* The number of a request under way is the id of what it writes.
LEMMA CallParts ==
  ASSUME Typed, NEW k \in Kinds, NEW c \in call[k]
  PROVE  /\ calls \in Ids
         /\ c \in Call /\ c.seen \in SUBSET Pairs /\ c.raced \in BOOLEAN
         /\ c.text \in 0..MaxActs /\ c.invitee \in Invitee
<1>1. c \in Call /\ calls \in 1..MaxCalls /\ MaxActs \in Nat /\ MaxCalls \in Nat
  BY AnswersAssumption DEF Typed, CallsOK, BoundsOK
<1> QED
  BY <1>1 DEF Call, Ids

\* What a saved, a rewritten and an invalidated row are.
LEMMA DraftsTyped ==
  ASSUME Typed, [Next]_vars
  PROVE  drafts' \subseteq Written
<1>0. /\ drafts \subseteq Written /\ MessagesOK
      /\ MaxCalls \in Nat /\ MaxActs \in Nat /\ acts \in 0..MaxActs
  BY AnswersAssumption DEF Typed, WrittenOK, BoundsOK
<1>1. ASSUME NEW c \in call["draft"], NEW cited \in SUBSET c.seen, StoreDraft(c, cited)
      PROVE  drafts' \subseteq Written
  <2> DEFINE cites == Now({m \in Of(cited) : msg[m] # "gone"})
  <2>1. c.seen \in SUBSET Pairs /\ c.raced \in BOOLEAN /\ calls \in Ids /\ "draft" \in Kinds
    BY CallParts DEF Kinds
  <2>2. cited \in SUBSET Pairs /\ Of(cited) \subseteq Messages
    BY <2>1, PairsParts
  <2>3. cites \in SUBSET Pairs
    <3>1. {m \in Of(cited) : msg[m] # "gone"} \in SUBSET Messages
      BY <2>2
    <3> QED
      BY <1>0, <3>1, NowTyped
  <2>4. drafts' = (drafts \ Held) \cup {Text(calls, cites, cited, c.raced, 0)}
    BY <1>1 DEF StoreDraft
  <2> HIDE DEF cites
  <2>5. Text(calls, cites, cited, c.raced, 0) \in Written
    <3>1. 0 \in 0..MaxActs
      BY <1>0
    <3> QED
      BY <2>1, <2>2, <2>3, <3>1, TextTyped, Zenon
  <2> QED
    BY <1>0, <2>4, <2>5
<1>2. ASSUME NEW c \in call["rewrite"], StoreRewrite(c) PROVE drafts' \subseteq Written
  <2>1. c.text \in 0..MaxActs
    BY CallParts DEF Kinds
  <2>2. drafts' = {IF d.id = c.draft THEN [d EXCEPT !.text = c.text] ELSE d : d \in drafts}
    BY <1>2 DEF StoreRewrite
  <2>3. \A d \in drafts : [d EXCEPT !.text = c.text] \in Written
    BY <1>0, <2>1, WrittenFields
  <2> QED
    BY <1>0, <2>2, <2>3
<1>3. CASE Save
  <2>1. acts' \in 0..MaxActs /\ MaxCalls + acts' \in Ids
    BY <1>0, <1>3 DEF Save, Act, Ids
  <2>2. \A d \in drafts : [d EXCEPT !.text = acts'] \in Written
    BY <1>0, <2>1, WrittenFields
  <2>3. Text(MaxCalls + acts', {}, {}, FALSE, acts') \in Written
    BY <2>1, TextTyped
  <2> QED
    BY <1>0, <1>3, <2>2, <2>3 DEF Save
<1>4. ASSUME NEW m \in Messages, NEW A \in SUBSET Ids, NEW D \in SUBSET Ids, NEW b \in BOOLEAN,
             Invalidate(m, A, D, b)
      PROVE  drafts' \subseteq Written
  <2>1. drafts' = {[d EXCEPT !.stale = d.stale \/ d.id \in D, !.cites = Without(d.cites, m)] : d \in drafts}
    BY <1>4 DEF Invalidate
  <2>2. ASSUME NEW d \in drafts
        PROVE  [d EXCEPT !.stale = d.stale \/ d.id \in D, !.cites = Without(d.cites, m)] \in Written
    <3> DEFINE late == d.stale \/ d.id \in D
    <3>1. late \in BOOLEAN
      OBVIOUS
    <3>2. Without(d.cites, m) \in SUBSET Pairs
      BY <1>0, WrittenFields DEF Without
    <3> HIDE DEF late
    <3>3. [d EXCEPT !.stale = late, !.cites = Without(d.cites, m)] \in Written
      BY <1>0, <3>1, <3>2, WrittenFields
    <3> QED
      BY <3>3 DEF late
  <2> QED
    BY <2>1, <2>2
<1>5. CASE Ingest
  <2>1. ASSUME NEW m \in Messages, Upsert(m) PROVE drafts' \subseteq Written
    <3> DEFINE b == invitee.by = m
    <3>1. b \in BOOLEAN /\ Citing(answers, m) \in SUBSET Ids /\ Citing(drafts, m) \in SUBSET Ids
      BY CitingTyped DEF Typed, WrittenOK
    <3>2. Invalidate(m, Citing(answers, m), Citing(drafts, m), b)
      BY <2>1 DEF Upsert
    <3> HIDE DEF b
    <3> QED
      BY <1>4, <3>1, <3>2
  <2>2. ASSUME NEW l \in leaving, Gone(l) PROVE drafts' \subseteq Written
    <3>1. l.msg \in Messages /\ l.answers \in SUBSET Ids /\ l.drafts \in SUBSET Ids /\ l.suggestion \in BOOLEAN
      BY <1>0 DEF MessagesOK, LeavingType
    <3>2. Invalidate(l.msg, l.answers, l.drafts, l.suggestion)
      BY <2>2 DEF Gone
    <3> QED
      BY <1>4, <3>1, <3>2
  <2> QED
    BY <1>0, <1>5, <2>1, <2>2 DEF Ingest, Leave, Extract, written
<1>6. \/ UNCHANGED drafts \/ Save \/ Ingest
      \/ \E c \in call["draft"] : \E cited \in SUBSET c.seen : StoreDraft(c, cited)
      \/ \E c \in call["rewrite"] : StoreRewrite(c)
  BY DEF Next, User, Answered, vars, written, Ask, Draft, Rewrite, Check, Start, SetStatus, Answer,
         StoreCheck, Fails
<1> QED
  BY <1>0, <1>1, <1>2, <1>3, <1>5, <1>6

LEMMA AnswersTyped ==
  ASSUME Typed, [Next]_vars
  PROVE  answers' \subseteq Written
<1>0. /\ answers \subseteq Written /\ MessagesOK
      /\ MaxCalls \in Nat /\ MaxActs \in Nat
  BY AnswersAssumption DEF Typed, WrittenOK
<1>1. ASSUME NEW c \in call["ask"], NEW cited \in SUBSET c.seen, Answer(c, cited)
      PROVE  answers' \subseteq Written
  <2>1. c.seen \in SUBSET Pairs /\ c.raced \in BOOLEAN /\ calls \in Ids /\ "ask" \in Kinds
    BY CallParts DEF Kinds
  <2>2. cited \in SUBSET Pairs /\ 0 \in 0..MaxActs
    BY <1>0, <2>1
  <2>3. Text(calls, cited, cited, c.raced, 0) \in Written
    BY <2>1, <2>2, TextTyped, Zenon
  <2> QED
    BY <1>0, <1>1, <2>3 DEF Answer
<1>4. ASSUME NEW m \in Messages, NEW A \in SUBSET Ids, NEW D \in SUBSET Ids, NEW b \in BOOLEAN,
             Invalidate(m, A, D, b)
      PROVE  answers' \subseteq Written
  <2>1. answers' = {[a EXCEPT !.stale = a.stale \/ a.id \in A,
                              !.cites = IF a.id \in A THEN {} ELSE Without(a.cites, m)] : a \in answers}
    BY <1>4 DEF Invalidate
  <2>2. ASSUME NEW a \in answers
        PROVE  [a EXCEPT !.stale = a.stale \/ a.id \in A,
                         !.cites = IF a.id \in A THEN {} ELSE Without(a.cites, m)] \in Written
    <3> DEFINE late == a.stale \/ a.id \in A
               left == IF a.id \in A THEN {} ELSE Without(a.cites, m)
    <3>1. late \in BOOLEAN
      OBVIOUS
    <3>2. left \in SUBSET Pairs
      BY <1>0, WrittenFields DEF Without
    <3> HIDE DEF late, left
    <3>3. [a EXCEPT !.stale = late, !.cites = left] \in Written
      BY <1>0, <3>1, <3>2, WrittenFields
    <3> QED
      BY <3>3 DEF late, left
  <2> QED
    BY <2>1, <2>2
<1>5. CASE Ingest
  <2>1. ASSUME NEW m \in Messages, Upsert(m) PROVE answers' \subseteq Written
    <3> DEFINE b == invitee.by = m
    <3>1. b \in BOOLEAN /\ Citing(answers, m) \in SUBSET Ids /\ Citing(drafts, m) \in SUBSET Ids
      BY CitingTyped DEF Typed, WrittenOK
    <3>2. Invalidate(m, Citing(answers, m), Citing(drafts, m), b)
      BY <2>1 DEF Upsert
    <3> HIDE DEF b
    <3> QED
      BY <1>4, <3>1, <3>2
  <2>2. ASSUME NEW l \in leaving, Gone(l) PROVE answers' \subseteq Written
    <3>1. l.msg \in Messages /\ l.answers \in SUBSET Ids /\ l.drafts \in SUBSET Ids /\ l.suggestion \in BOOLEAN
      BY <1>0 DEF MessagesOK, LeavingType
    <3>2. Invalidate(l.msg, l.answers, l.drafts, l.suggestion)
      BY <2>2 DEF Gone
    <3> QED
      BY <1>4, <3>1, <3>2
  <2> QED
    BY <1>0, <1>5, <2>1, <2>2 DEF Ingest, Leave, Extract, written
<1>6. \/ UNCHANGED answers \/ Ingest
      \/ \E c \in call["ask"] : \E cited \in SUBSET c.seen : Answer(c, cited)
  BY DEF Next, User, Answered, vars, written, Ask, Draft, Rewrite, Check, Start, SetStatus, Save,
         StoreDraft, StoreRewrite, StoreCheck, Fails
<1> QED
  BY <1>0, <1>1, <1>5, <1>6

LEMMA InviteeFields ==
  ASSUME NEW i \in Invitee
  PROVE  /\ i.status \in Statuses
         /\ i.suggested \in Statuses \cup {Nobody} /\ i.by \in Messages \cup {Nobody}
         /\ \A s \in Statuses \cup {Nobody}, b \in Messages \cup {Nobody} :
              [i EXCEPT !.suggested = s, !.by = b] \in Invitee
         /\ \A s \in Statuses : [i EXCEPT !.status = s] \in Invitee
BY DEF Invitee

\* A check and the user leave a suggestion, or none, of the types it has.
LEMMA InviteeTyped ==
  ASSUME Typed, [Next]_vars
  PROVE  invitee' \in Invitee /\ behind' \in [pair : SUBSET Pairs, raced : BOOLEAN]
<1> DEFINE BehindType == [pair : SUBSET Pairs, raced : BOOLEAN]
<1>0. /\ invitee \in Invitee /\ behind \in BehindType
      /\ NoSuggestion \in Invitee /\ Nobody \in Statuses \cup {Nobody}
      /\ [pair |-> {}, raced |-> FALSE] \in BehindType
  BY InviteeFields DEF Typed, WrittenOK, NoSuggestion
<1>1. ASSUME NEW c \in call["check"], NEW status \in {"accepted", "maybe", "unclear"}, NEW p \in c.seen,
             StoreCheck(c, status, p)
      PROVE  invitee' \in Invitee /\ behind' \in BehindType
  <2>1. c.invitee \in Invitee /\ p \in Pairs /\ p[1] \in Messages /\ c.raced \in BOOLEAN
    <3>1. c.invitee \in Invitee /\ c.seen \in SUBSET Pairs /\ c.raced \in BOOLEAN
      BY CallParts DEF Kinds
    <3> QED
      BY <3>1, PairsParts
  <2>2. ASSUME NEW s \in Statuses \cup {Nobody}, NEW b \in Messages \cup {Nobody}, Suggest(c, s, b)
        PROVE  invitee' \in Invitee
    <3> DEFINE t == Column(c.invitee.suggested, s, invitee.suggested)
               d == Column(c.invitee.by, b, invitee.by)
    <3>1. t \in Statuses \cup {Nobody} /\ d \in Messages \cup {Nobody}
      BY <1>0, InviteeFields DEF Column
    <3>2. invitee' = [invitee EXCEPT !.suggested = t, !.by = d]
      BY <2>2 DEF Suggest
    <3> HIDE DEF t, d
    <3> QED
      BY <1>0, <3>1, <3>2, InviteeFields
  <2>3. CASE status \notin {"unclear", c.invitee.status}
    <3>1. status \in Statuses
      BY <2>3 DEF Statuses
    <3>2. Suggest(c, status, p[1])
      BY <1>1, <2>3 DEF StoreCheck
    <3> DEFINE late == c.raced \/ p[1] \in Leaving
    <3>3. late \in BOOLEAN
      OBVIOUS
    <3>4. behind' = [pair |-> {p}, raced |-> late]
      BY <1>1, <2>3 DEF StoreCheck
    <3> HIDE DEF late
    <3>5. behind' \in BehindType
      BY <2>1, <3>3, <3>4
    <3> QED
      BY <2>1, <2>2, <3>1, <3>2, <3>5
  <2>4. CASE ~(status \notin {"unclear", c.invitee.status})
    <3>1. Suggest(c, Nobody, Nobody)
      BY <1>1, <2>4 DEF StoreCheck
    <3> DEFINE late == behind.raced \/ c.raced
    <3>2. late \in BOOLEAN
      OBVIOUS
    <3>3. behind' = [behind EXCEPT !.raced = late]
      BY <1>1, <2>4 DEF StoreCheck
    <3> HIDE DEF late
    <3>4. behind' \in BehindType
      BY <1>0, <3>2, <3>3
    <3> QED
      BY <2>2, <3>1, <3>4
  <2> QED
    BY <2>3, <2>4
<1>2. ASSUME NEW status \in Statuses, SetStatus(status)
      PROVE  invitee' \in Invitee /\ behind' \in BehindType
  <2>1. invitee' = [NoSuggestion EXCEPT !.status = status] /\ behind' = [pair |-> {}, raced |-> FALSE]
    BY <1>2 DEF SetStatus
  <2> QED
    BY <1>0, <2>1, InviteeFields
<1>3. CASE Ingest
  <2>1. \/ UNCHANGED <<invitee, behind>>
        \/ invitee' = NoSuggestion /\ behind' = [pair |-> {}, raced |-> FALSE]
    <3>1. ASSUME NEW m, NEW A, NEW D, NEW b, Invalidate(m, A, D, b)
          PROVE  \/ UNCHANGED <<invitee, behind>>
                 \/ invitee' = NoSuggestion /\ behind' = [pair |-> {}, raced |-> FALSE]
      BY <3>1 DEF Invalidate
    <3>2. CASE \E m \in Messages : Upsert(m)
      BY <3>1, <3>2 DEF Upsert
    <3>3. CASE \E l \in leaving : Gone(l)
      BY <3>1, <3>3 DEF Gone
    <3> QED
      BY <1>3, <3>2, <3>3 DEF Ingest, Leave, Extract, written
  <2> QED
    BY <1>0, <2>1
<1>4. \/ UNCHANGED <<invitee, behind>> \/ Ingest \/ \E status \in Statuses : SetStatus(status)
      \/ \E c \in call["check"] :
           \E status \in {"accepted", "maybe", "unclear"}, p \in c.seen : StoreCheck(c, status, p)
  BY DEF Next, User, Answered, vars, written, Ask, Draft, Rewrite, Check, Start, Save, Answer,
         StoreDraft, StoreRewrite, Fails
<1> QED
  BY <1>0, <1>1, <1>2, <1>3, <1>4

LEMMA TypedNext == Typed /\ [Next]_vars => Typed'
<1> SUFFICES ASSUME Typed, [Next]_vars PROVE Typed'
  OBVIOUS
<1>1. MessagesOK' /\ CallsOK' /\ BoundsOK'
  BY MessagesNext, CallSteps, CallsNext, BoundsNext
<1>2. WrittenOK'
  BY DraftsTyped, AnswersTyped, InviteeTyped DEF WrittenOK
<1> QED
  BY <1>1, <1>2 DEF Typed

\* What is written, what it cites and the requests under way keep their types:
\* a claim about the invitee only cites live messages (retrieval.py, gatherings.py
\* and ingest.invalidate).
THEOREM TypeCorrect == Spec => []TypeOK
BY TypedInit, TypedNext, TypedImplies, PTL DEF Spec

-----------------------------------------------------------------------------
(* What is written rests on what messages say, or is marked *)

\* A pair that is what its message says now.
Current(p) == msg[p[1]] = "live" /\ p[2] = ver[p[1]]

\* What a request has read is as it read it, or the request is raced.
CallsSound ==
  \A k \in Kinds : \A c \in call[k] : c.raced \/ \A p \in c.seen : Current(p)

\* A row is sound or marked, and cites nothing that is gone.
RowOK(w) ==
  /\ w.stale \/ w.raced \/ Sound(w)
  /\ \A m \in Messages : msg[m] = "gone" => m \notin Of(w.cites)

\* An exclusion under way has found the row, if it was written from its message.
Found(w, m, ids) == w.stale \/ w.raced \/ m \notin Of(w.used) \/ w.id \in ids

RowsOK ==
  /\ \A w \in answers \cup drafts : RowOK(w)
  /\ \A l \in leaving : /\ \A w \in answers : Found(w, l.msg, l.answers)
                        /\ \A w \in drafts : Found(w, l.msg, l.drafts)

Evidence == CallsSound /\ RowsOK

LEMMA EvidenceImplies == Evidence => WrittenSound /\ Forgotten
<1> SUFFICES ASSUME Evidence PROVE WrittenSound /\ Forgotten
  OBVIOUS
<1>1. WrittenSound
  BY DEF Evidence, RowsOK, RowOK, WrittenSound
<1>2. Forgotten
  BY DEF Evidence, RowsOK, RowOK, Forgotten, Citing
<1> QED
  BY <1>1, <1>2

LEMMA EvidenceInit == Init => Evidence
BY DEF Init, Evidence, CallsSound, RowsOK

\* A message moves: the others stay, and who has read it is raced.
Moves(m) ==
  /\ \A n \in Messages : n # m => msg'[n] = msg[n] /\ ver'[n] = ver[n]
  /\ Touched(m)

LEMMA MovesOrNot ==
  ASSUME Typed, [Next]_vars
  PROVE  UNCHANGED <<msg, ver>> \/ \E m \in Messages : Moves(m)
<1>0. /\ msg \in [Messages -> {"live", "tombstone", "gone"}] /\ ver \in [Messages -> Versions]
      /\ \A l \in leaving : l.msg \in Messages
  BY DEF Typed, MessagesOK, LeavingType
<1>1. ASSUME NEW m \in Messages, Upsert(m) PROVE Moves(m)
  BY <1>0, <1>1 DEF Upsert, Invalidate, Moves
<1>2. ASSUME NEW l \in leaving, Gone(l) PROVE l.msg \in Messages /\ Moves(l.msg)
  BY <1>0, <1>2 DEF Gone, Invalidate, Moves
<1>3. UNCHANGED <<msg, ver>> \/ (\E m \in Messages : Upsert(m)) \/ \E l \in leaving : Gone(l)
  BY DEF Next, User, Answered, Ingest, vars, messages, Ask, Draft, Rewrite, Check, Start,
         SetStatus, Save, Act, Answer, StoreDraft, StoreRewrite, StoreCheck, Fails, Ended, Leave,
         Extract
<1> QED
  BY <1>1, <1>2, <1>3

LEMMA CallsSoundNext == Typed /\ CallsSound /\ [Next]_vars => CallsSound'
<1> SUFFICES ASSUME Typed, CallsSound, [Next]_vars PROVE CallsSound'
  OBVIOUS
<1>0. /\ call \in [Kinds -> SUBSET Call]
      /\ \A k \in Kinds : \A c \in call[k] : c.seen \in SUBSET Pairs
  BY CallParts DEF Typed, CallsOK
<1>1. CASE UNCHANGED <<msg, ver>>
  <2>1. \A p : Current(p)' <=> Current(p)
    BY <1>1 DEF Current
  <2>2. CallStep
    BY CallSteps
  <2>3. CASE Starts
    <3>1. PICK k \in Kinds, S \in SUBSET Messages, draft \in {0} \cup Ids, text \in 0..MaxActs :
            call' = [call EXCEPT ![k] = {NewCall(S, draft, text)}] /\ S \subseteq Live
      BY <2>3 DEF Starts, Start, NewCall
    <3>2. NewCall(S, draft, text).seen = Now(S)
      BY DEF NewCall
    <3>3. \A p \in Now(S) : Current(p)
      <4>1. \A p \in Now(S) : p[1] \in S /\ p[2] = ver[p[1]]
        BY NowTyped DEF Typed
      <4> QED
        BY <3>1, <4>1 DEF Live, Current
    <3> QED
      BY <1>0, <2>1, <3>1, <3>2, <3>3 DEF CallsSound
  <2>4. ASSUME NEW j \in Kinds, NEW c \in call'[j], ~Starts
        PROVE  c.raced \/ c \in call[j]
    <3>1. CASE \E k \in Kinds : call' = [call EXCEPT ![k] = {}]
      BY <1>0, <2>4, <3>1
    <3>2. CASE call' = [call EXCEPT !["check"] = Raced(@)]
      <4>1. call'[j] = call[j] \/ call'[j] = Raced(call[j])
        BY <1>0, <3>2
      <4> QED
        BY <1>0, <2>4, <4>1, RacedFields
    <3>3. ASSUME NEW m \in Messages, Touched(m) PROVE c.raced \/ c \in call[j]
      <4>1. call'[j] = call[j] \/ call'[j] = Raced(call[j])
        BY <3>3 DEF Touched
      <4> QED
        BY <1>0, <2>4, <4>1, RacedFields
    <3> QED
      BY <2>2, <2>4, <3>1, <3>2, <3>3 DEF CallStep
  <2> QED
    BY <2>1, <2>3, <2>4 DEF CallsSound
<1>2. ASSUME NEW m \in Messages, Moves(m) PROVE CallsSound'
  <2> SUFFICES ASSUME NEW k \in Kinds, NEW c \in call'[k]
               PROVE  c.raced \/ \A p \in c.seen : Current(p)'
    BY DEF CallsSound
  <2>1. call'[k] = IF \E d \in call[k] : m \in Of(d.seen) THEN Raced(call[k]) ELSE call[k]
    BY <1>2 DEF Moves, Touched
  <2>2. CASE \E d \in call[k] : m \in Of(d.seen)
    <3>1. c \in Raced(call[k]) /\ call[k] \in SUBSET Call
      BY <1>0, <2>1, <2>2
    <3> QED
      BY <3>1, RacedFields
  <2>3. CASE ~\E d \in call[k] : m \in Of(d.seen)
    <3>1. c \in call[k] /\ m \notin Of(c.seen)
      BY <2>1, <2>3
    <3>2. \A p \in c.seen : p[1] \in Messages /\ p[1] # m
      BY <1>0, <3>1, PairsParts DEF Of
    <3> QED
      BY <1>2, <3>1, <3>2 DEF CallsSound, Current, Moves
  <2> QED
    BY <2>2, <2>3
<1> QED
  BY <1>1, <1>2, MovesOrNot

-----------------------------------------------------------------------------
(* Rows that are written *)

\* A text that cites all it was written from, by the versions of now.
LEMMA RowWritten ==
  ASSUME Typed, NEW k \in Kinds, NEW c \in call[k], CallsSound,
         NEW cites \in SUBSET Pairs, NEW cited \in SUBSET c.seen,
         \A m \in Of(cites) : msg[m] # "gone",
         \A p \in cited : Current(p) => p \in cites,
         NEW w, w = Text(calls, cites, cited, c.raced, 0)
  PROVE  /\ RowOK(w)
         /\ \A l \in leaving : \A ids : Found(w, l.msg, ids)
<1>3. /\ w.used = cited /\ w.cites = cites
      /\ ~w.raced => ~c.raced /\ Of(cited) \cap Leaving = {}
  <2> DEFINE r == c.raced \/ Of(cited) \cap Leaving # {}
  <2>1. w = [id |-> calls, cites |-> cites, used |-> cited, stale |-> FALSE, text |-> 0, raced |-> r]
    BY DEF Text
  <2>2. ~r => ~c.raced /\ Of(cited) \cap Leaving = {}
    OBVIOUS
  <2> HIDE DEF r
  <2> QED
    BY <2>1, <2>2
<1>4. ~w.raced => Sound(w)
  <2>1. ~c.raced => \A p \in cited : Current(p)
    BY DEF CallsSound
  <2> QED
    BY <1>3, <2>1 DEF Sound, Current
<1>5. RowOK(w)
  BY <1>3, <1>4 DEF RowOK
<1>6. \A l \in leaving : w.raced \/ l.msg \notin Of(w.used)
  <2>1. \A l \in leaving : l.msg \in Leaving
    BY DEF Leaving
  <2> QED
    BY <1>3, <2>1
<1> QED
  BY <1>5, <1>6 DEF Found

\* A row whose text is replaced rests on what it did.
LEMMA RowReworded ==
  ASSUME NEW w \in Written, NEW text, NEW v, v = [w EXCEPT !.text = text]
  PROVE  /\ RowOK(w) => RowOK(v)
         /\ \A m, ids : Found(w, m, ids) => Found(v, m, ids)
<1>1. v.id = w.id /\ v.cites = w.cites /\ v.used = w.used /\ v.stale = w.stale /\ v.raced = w.raced
  BY DEF Written
<1> QED
  BY <1>1 DEF RowOK, Sound, Found

\* Steps that only change what is written, and leave alone the messages.
LEMMA RowsAnswer ==
  ASSUME Typed, Evidence, NEW c \in call["ask"], NEW cited \in SUBSET c.seen, Answer(c, cited)
  PROVE  RowsOK'
<1> DEFINE w == Text(calls, cited, cited, c.raced, 0)
<1>0. UNCHANGED <<msg, ver, leaving, drafts>> /\ answers' = answers \cup {w}
  BY DEF Answer, Ended, messages
<1>1. cited \in SUBSET Pairs /\ "ask" \in Kinds
  <2>1. c.seen \in SUBSET Pairs
    BY CallParts DEF Kinds
  <2> QED
    BY <2>1 DEF Kinds
<1>2. \A m \in Of(cited) : msg[m] # "gone"
  BY DEF Answer, Insertable
<1>3. RowOK(w) /\ \A l \in leaving : \A ids : Found(w, l.msg, ids)
  <2>1. \A p \in cited : Current(p) => p \in cited
    OBVIOUS
  <2>2. PICK v : v = w
    OBVIOUS
  <2> HIDE DEF w
  <2>3. v = Text(calls, cited, cited, c.raced, 0)
    BY <2>2 DEF w
  <2>4. RowOK(v) /\ \A l \in leaving : \A ids : Found(v, l.msg, ids)
    BY <1>1, <1>2, <2>1, <2>3, RowWritten DEF Evidence
  <2> QED
    BY <2>2, <2>4
<1> HIDE DEF w
<1>4. \A v : RowOK(v) => RowOK(v)'
  BY <1>0 DEF RowOK, Sound
<1>5. \A v \in answers' \cup drafts' : RowOK(v)
  BY <1>0, <1>3 DEF Evidence, RowsOK
<1>6. \A l \in leaving' : /\ \A v \in answers' : Found(v, l.msg, l.answers)
                          /\ \A v \in drafts' : Found(v, l.msg, l.drafts)
  BY <1>0, <1>3 DEF Evidence, RowsOK
<1> QED
  BY <1>4, <1>5, <1>6 DEF RowsOK, Found

LEMMA RowsDraft ==
  ASSUME Typed, Evidence, NEW c \in call["draft"], NEW cited \in SUBSET c.seen, StoreDraft(c, cited)
  PROVE  RowsOK'
<1> DEFINE there == {m \in Of(cited) : msg[m] # "gone"}
<1>0. UNCHANGED <<msg, ver, leaving, answers>>
  BY DEF StoreDraft, Ended, messages
<1>1. cited \in SUBSET Pairs /\ "draft" \in Kinds
  <2>1. c.seen \in SUBSET Pairs
    BY CallParts DEF Kinds
  <2> QED
    BY <2>1 DEF Kinds
<1>2. there \in SUBSET Messages
  BY <1>1, PairsParts
<1>3. /\ Now(there) \in SUBSET Pairs
      /\ \A p \in Now(there) : p[1] \in there
      /\ \A m \in there : <<m, ver[m]>> \in Now(there)
  BY <1>2, NowTyped DEF Typed
<1>4. \A p \in cited : Current(p) => p \in Now(there)
  <2> SUFFICES ASSUME NEW p \in cited, Current(p) PROVE p \in Now(there)
    OBVIOUS
  <2>1. p = <<p[1], p[2]>> /\ p[1] \in there /\ p[2] = ver[p[1]]
    BY <1>1, PairsParts DEF Of, Current
  <2> QED
    BY <1>3, <2>1
<1>5. \A m \in Of(Now(there)) : msg[m] # "gone"
  BY <1>3 DEF Of
<1>6. drafts' = (drafts \ Held) \cup {Text(calls, Now(there), cited, c.raced, 0)}
  BY DEF StoreDraft
<1> DEFINE cites == Now(there)
<1>7. cites \in SUBSET Pairs /\ (\A p \in cited : Current(p) => p \in cites)
      /\ (\A m \in Of(cites) : msg[m] # "gone")
      /\ drafts' = (drafts \ Held) \cup {Text(calls, cites, cited, c.raced, 0)}
  BY <1>3, <1>4, <1>5, <1>6
<1> HIDE DEF cites
<1>8. PICK v : v = Text(calls, cites, cited, c.raced, 0)
  OBVIOUS
<1>9. RowOK(v) /\ \A l \in leaving : \A ids : Found(v, l.msg, ids)
  BY <1>1, <1>7, <1>8, RowWritten DEF Evidence
<1>10. drafts' = (drafts \ Held) \cup {v}
  BY <1>7, <1>8
<1>11. \A x : RowOK(x) => RowOK(x)'
  BY <1>0 DEF RowOK, Sound
<1>12. \A x \in answers' \cup drafts' : RowOK(x)
  BY <1>0, <1>9, <1>10 DEF Evidence, RowsOK
<1>13. \A l \in leaving' : /\ \A x \in answers' : Found(x, l.msg, l.answers)
                           /\ \A x \in drafts' : Found(x, l.msg, l.drafts)
  BY <1>0, <1>9, <1>10 DEF Evidence, RowsOK
<1> QED
  BY <1>11, <1>12, <1>13 DEF RowsOK, Found

\* A step that puts in place of drafts the same with other texts, or a draft
\* without evidence.
LEMMA RowsKept ==
  ASSUME Typed, Evidence, UNCHANGED <<msg, ver, leaving, answers>>,
         \A v \in drafts' : \/ \E d \in drafts : \E text : v = d \/ v = [d EXCEPT !.text = text]
                            \/ v.cites = {} /\ v.used = {}
  PROVE  RowsOK'
<1>1. drafts \subseteq Written
  BY DEF Typed, WrittenOK
<1>2. ASSUME NEW v \in drafts'
      PROVE  RowOK(v) /\ \A l \in leaving : Found(v, l.msg, l.drafts)
  <2>1. ASSUME NEW d \in drafts, NEW text, v = d \/ v = [d EXCEPT !.text = text]
        PROVE  RowOK(v) /\ \A l \in leaving : Found(v, l.msg, l.drafts)
    <3>1. RowOK(d) /\ \A l \in leaving : Found(d, l.msg, l.drafts)
      BY DEF Evidence, RowsOK
    <3> QED
      BY <1>1, <2>1, <3>1, RowReworded
  <2>2. CASE v.cites = {} /\ v.used = {}
    BY <2>2 DEF RowOK, Sound, Found, Of
  <2> QED
    BY <2>1, <2>2
<1>3. \A x : RowOK(x) => RowOK(x)'
  BY DEF RowOK, Sound
<1>4. \A x \in answers' \cup drafts' : RowOK(x)
  BY <1>2 DEF Evidence, RowsOK
<1>5. \A l \in leaving' : /\ \A x \in answers' : Found(x, l.msg, l.answers)
                          /\ \A x \in drafts' : Found(x, l.msg, l.drafts)
  BY <1>2 DEF Evidence, RowsOK
<1> QED
  BY <1>3, <1>4, <1>5 DEF RowsOK, Found

LEMMA RowsTexts ==
  ASSUME Typed, Evidence,
         Save \/ \E c \in call["rewrite"] : StoreRewrite(c)
  PROVE  RowsOK'
<1>1. CASE Save
  <2>1. UNCHANGED <<msg, ver, leaving, answers>>
    BY <1>1 DEF Save, Act, messages
  <2>2. PICK t : t = acts'
    OBVIOUS
  <2>3. CASE \E d \in drafts \ Held : drafts' = (drafts \ {d}) \cup {[d EXCEPT !.text = acts']}
    <3>1. \A v \in drafts' : \E d \in drafts : \E text : v = d \/ v = [d EXCEPT !.text = text]
      BY <2>2, <2>3
    <3> QED
      BY <2>1, <3>1, RowsKept
  <2>4. CASE drafts' = {Text(MaxCalls + acts', {}, {}, FALSE, acts')}
    <3>1. \A v \in drafts' : v.cites = {} /\ v.used = {}
      BY <2>4 DEF Text
    <3> QED
      BY <2>1, <3>1, RowsKept
  <2> QED
    BY <1>1, <2>3, <2>4 DEF Save
<1>2. ASSUME NEW c \in call["rewrite"], StoreRewrite(c) PROVE RowsOK'
  <2>1. UNCHANGED <<msg, ver, leaving, answers>>
    BY <1>2 DEF StoreRewrite, Ended, messages
  <2>2. \A v \in drafts' : \E d \in drafts : \E text : v = d \/ v = [d EXCEPT !.text = text]
    BY <1>2 DEF StoreRewrite
  <2> QED
    BY <2>1, <2>2, RowsKept
<1> QED
  BY <1>1, <1>2

-----------------------------------------------------------------------------
(* Rows whose messages change *)

\* A row that cites m is found by a lookup of the rows that do.
LEMMA CitingFinds ==
  ASSUME NEW W, NEW w \in W, NEW m \in Messages, RowOK(w)
  PROVE  Found(w, m, Citing(W, m))
<1>1. w.stale \/ w.raced \/ \A p \in w.used : p \in w.cites
  BY DEF RowOK, Sound
<1>2. m \in Of(w.used) /\ (\A p \in w.used : p \in w.cites) => m \in Of(w.cites)
  BY DEF Of
<1>3. m \in Of(w.cites) => w.id \in Citing(W, m)
  BY DEF Citing
<1> QED
  BY <1>1, <1>2, <1>3 DEF Found

\* A row that loses the citations of a message that changes, and is marked if
\* it was written from it.
LEMMA RowMarked ==
  ASSUME Typed, NEW m \in Messages,
         \A n \in Messages : n # m => msg'[n] = msg[n] /\ ver'[n] = ver[n],
         NEW w \in Written, RowOK(w), NEW ids, Found(w, m, ids),
         NEW C, (C = {} /\ w.id \in ids) \/ C = Without(w.cites, m),
         NEW v, v.id = w.id, v.cites = C, v.used = w.used, v.raced = w.raced,
         v.stale <=> w.stale \/ w.id \in ids
  PROVE  /\ RowOK(v)'
         /\ \A n, all : Found(w, n, all) => Found(v, n, all)
<1>2. w.used \in SUBSET Pairs /\ w.cites \in SUBSET Pairs
  BY WrittenFields
<1>3. C \subseteq w.cites /\ \A p \in C : p[1] # m
  BY DEF Without
<1>4. \A n \in Messages : msg'[n] = "gone" => n \notin Of(v.cites)
  BY <1>3 DEF RowOK, Of
<1>5. CASE v.stale
  BY <1>4, <1>5 DEF RowOK, Found
<1>6. CASE ~v.stale /\ w.raced
  BY <1>4, <1>6 DEF RowOK, Found
<1>7. CASE ~v.stale /\ ~w.raced
  <2>1. ~w.stale /\ w.id \notin ids /\ m \notin Of(w.used) /\ C = Without(w.cites, m) /\ Sound(w)
    BY <1>7 DEF Found, RowOK
  <2>2. \A p \in w.used : p[1] \in Messages /\ p[1] # m
    BY <1>2, <2>1, PairsParts DEF Of
  <2>3. \A p \in v.used : p \in v.cites /\ msg'[p[1]] = "live" /\ p[2] = ver'[p[1]]
    BY <2>1, <2>2 DEF Sound, Without
  <2>4. RowOK(v)'
    BY <1>4, <2>3 DEF RowOK, Sound
  <2> QED
    BY <1>7, <2>1, <2>4 DEF Found
<1> QED
  BY <1>5, <1>6, <1>7

LEMMA RowsInvalidate ==
  ASSUME Typed, Evidence, NEW m \in Messages, NEW A, NEW D, NEW b, Invalidate(m, A, D, b),
         \A n \in Messages : n # m => msg'[n] = msg[n] /\ ver'[n] = ver[n],
         \A w \in answers : Found(w, m, A),
         \A w \in drafts : Found(w, m, D)
  PROVE  /\ \A v \in answers' \cup drafts' : RowOK(v)'
         /\ \A n, all : (\A w \in answers : Found(w, n, all)) => \A v \in answers' : Found(v, n, all)
         /\ \A n, all : (\A w \in drafts : Found(w, n, all)) => \A v \in drafts' : Found(v, n, all)
<1>0. answers \subseteq Written /\ drafts \subseteq Written /\ \A w \in answers \cup drafts : RowOK(w)
  BY DEF Typed, WrittenOK, Evidence, RowsOK
<1>1. ASSUME NEW v \in answers'
      PROVE  \E w \in answers : RowOK(v)' /\ \A n, all : Found(w, n, all) => Found(v, n, all)
  <2>1. answers' = {[a EXCEPT !.stale = a.stale \/ a.id \in A,
                              !.cites = IF a.id \in A THEN {} ELSE Without(a.cites, m)] : a \in answers}
    BY DEF Invalidate
  <2>2. PICK w \in answers : v = [w EXCEPT !.stale = w.stale \/ w.id \in A,
                                           !.cites = IF w.id \in A THEN {} ELSE Without(w.cites, m)]
    BY <2>1
  <2> DEFINE C == IF w.id \in A THEN {} ELSE Without(w.cites, m)
  <2>3. w \in Written /\ RowOK(w) /\ Found(w, m, A)
    BY <1>0
  <2>4. /\ v.id = w.id /\ v.cites = C /\ v.used = w.used /\ v.raced = w.raced
        /\ v.stale <=> w.stale \/ w.id \in A
    BY <2>2, <2>3 DEF Written
  <2>5. PICK E : E = C
    OBVIOUS
  <2>6. (E = {} /\ w.id \in A) \/ E = Without(w.cites, m)
    BY <2>5
  <2> HIDE DEF C
  <2>7. RowOK(v)' /\ \A n, all : Found(w, n, all) => Found(v, n, all)
    BY <2>3, <2>4, <2>5, <2>6, RowMarked
  <2> QED
    BY <2>7
<1>2. ASSUME NEW v \in drafts'
      PROVE  \E w \in drafts : RowOK(v)' /\ \A n, all : Found(w, n, all) => Found(v, n, all)
  <2>1. drafts' = {[d EXCEPT !.stale = d.stale \/ d.id \in D, !.cites = Without(d.cites, m)] : d \in drafts}
    BY DEF Invalidate
  <2>2. PICK w \in drafts : v = [w EXCEPT !.stale = w.stale \/ w.id \in D, !.cites = Without(w.cites, m)]
    BY <2>1
  <2> DEFINE C == Without(w.cites, m)
  <2>3. w \in Written /\ RowOK(w) /\ Found(w, m, D)
    BY <1>0
  <2>4. /\ v.id = w.id /\ v.cites = C /\ v.used = w.used /\ v.raced = w.raced
        /\ v.stale <=> w.stale \/ w.id \in D
    BY <2>2, <2>3 DEF Written
  <2>5. PICK E : E = C
    OBVIOUS
  <2>6. (E = {} /\ w.id \in D) \/ E = Without(w.cites, m)
    BY <2>5
  <2> HIDE DEF C
  <2>7. RowOK(v)' /\ \A n, all : Found(w, n, all) => Found(v, n, all)
    BY <2>3, <2>4, <2>5, <2>6, RowMarked
  <2> QED
    BY <2>7
<1> QED
  BY <1>1, <1>2

LEMMA RowsIngest ==
  ASSUME Typed, Evidence, Ingest
  PROVE  RowsOK'
<1>0. /\ answers \subseteq Written /\ drafts \subseteq Written
      /\ \A w \in answers \cup drafts : RowOK(w)
      /\ msg \in [Messages -> {"live", "tombstone", "gone"}] /\ ver \in [Messages -> Versions]
      /\ \A l \in leaving : l.msg \in Messages
  BY DEF Typed, WrittenOK, Evidence, RowsOK, MessagesOK, LeavingType
<1>1. ASSUME NEW m \in Messages, Upsert(m) PROVE RowsOK'
  <2>1. PICK A, D, b : /\ A = Citing(answers, m) /\ D = Citing(drafts, m) /\ b = (invitee.by = m)
                       /\ Invalidate(m, A, D, b)
    BY <1>1 DEF Upsert
  <2>2. \A n \in Messages : n # m => msg'[n] = msg[n] /\ ver'[n] = ver[n]
    BY <1>0, <1>1 DEF Upsert
  <2>3. (\A w \in answers : Found(w, m, A)) /\ \A w \in drafts : Found(w, m, D)
    BY <1>0, <2>1, CitingFinds
  <2>4. leaving' = leaving
    BY <1>1 DEF Upsert
  <2>5. \A l \in leaving : /\ \A w \in answers : Found(w, l.msg, l.answers)
                           /\ \A w \in drafts : Found(w, l.msg, l.drafts)
    BY DEF Evidence, RowsOK
  <2>6. /\ \A v \in answers' \cup drafts' : RowOK(v)'
        /\ \A n, all : (\A w \in answers : Found(w, n, all)) => \A v \in answers' : Found(v, n, all)
        /\ \A n, all : (\A w \in drafts : Found(w, n, all)) => \A v \in drafts' : Found(v, n, all)
    BY <2>1, <2>2, <2>3, RowsInvalidate
  <2> QED
    BY <2>4, <2>5, <2>6 DEF RowsOK, Found
<1>2. ASSUME NEW m \in Messages, Leave(m) PROVE RowsOK'
  <2>1. UNCHANGED <<msg, ver, answers, drafts>>
    BY <1>2 DEF Leave, written
  <2>2. \A l \in leaving' : l.msg = m /\ l.answers = Citing(answers, m) /\ l.drafts = Citing(drafts, m)
    BY <1>2 DEF Leave
  <2>3. \A w \in answers : Found(w, m, Citing(answers, m))
    BY <1>0, CitingFinds
  <2>4. \A w \in drafts : Found(w, m, Citing(drafts, m))
    BY <1>0, CitingFinds
  <2>5. \A l \in leaving' : /\ \A w \in answers : Found(w, l.msg, l.answers)
                            /\ \A w \in drafts : Found(w, l.msg, l.drafts)
    BY <2>2, <2>3, <2>4
  <2>6. \A w \in answers \cup drafts : RowOK(w)'
    BY <1>0, <2>1 DEF RowOK, Sound
  <2> QED
    BY <2>1, <2>5, <2>6 DEF RowsOK, Found
<1>3. ASSUME NEW l \in leaving, Gone(l) PROVE RowsOK'
  <2>1. PICK m, A, D, b : /\ m = l.msg /\ A = l.answers /\ D = l.drafts
                          /\ Invalidate(m, A, D, b)
    BY <1>3 DEF Gone
  <2>2. m \in Messages /\ \A n \in Messages : n # m => msg'[n] = msg[n] /\ ver'[n] = ver[n]
    BY <1>0, <1>3, <2>1 DEF Gone
  <2>3. (\A w \in answers : Found(w, m, A)) /\ \A w \in drafts : Found(w, m, D)
    BY <2>1 DEF Evidence, RowsOK
  <2>4. leaving' = {}
    BY <1>3 DEF Gone
  <2>5. \A v \in answers' \cup drafts' : RowOK(v)'
    BY <2>1, <2>2, <2>3, RowsInvalidate
  <2> QED
    BY <2>4, <2>5 DEF RowsOK
<1>4. ASSUME UNCHANGED <<msg, ver, leaving, answers, drafts>> PROVE RowsOK'
  BY <1>4 DEF Evidence, RowsOK, RowOK, Sound, Found
<1> QED
  BY <1>1, <1>2, <1>3, <1>4 DEF Ingest, Extract, written

LEMMA EvidenceNext == Typed /\ Evidence /\ [Next]_vars => Evidence'
<1> SUFFICES ASSUME Typed, Evidence, [Next]_vars PROVE Evidence'
  OBVIOUS
<1>1. CallsSound'
  BY CallsSoundNext DEF Evidence
<1>2. ASSUME UNCHANGED <<msg, ver, leaving, answers, drafts>> PROVE RowsOK'
  BY <1>2 DEF Evidence, RowsOK, RowOK, Sound, Found
<1>3. \/ UNCHANGED <<msg, ver, leaving, answers, drafts>>
      \/ Save \/ (\E c \in call["rewrite"] : StoreRewrite(c)) \/ Ingest
      \/ \E c \in call["ask"] : \E cited \in SUBSET c.seen : Answer(c, cited)
      \/ \E c \in call["draft"] : \E cited \in SUBSET c.seen : StoreDraft(c, cited)
  BY DEF Next, User, Answered, vars, messages, written, Ask, Draft, Rewrite, Check, Start, SetStatus,
         Act, StoreCheck, Fails, Ended
<1>4. RowsOK'
  BY <1>2, <1>3, RowsTexts, RowsIngest, RowsAnswer, RowsDraft DEF Evidence
<1> QED
  BY <1>1, <1>4 DEF Evidence

\* An answer or a draft that is not marked cites everything that it was written
\* from, as it is now, unless that changed while it was being written: ask and
\* _store_draft keep the sources of what the model cited, and ingest.invalidate
\* marks what it finds to cite a message that changes.
THEOREM WrittenHolds == Spec => []WrittenSound
BY TypedInit, TypedNext, EvidenceInit, EvidenceNext, EvidenceImplies, PTL DEF Spec

\* Nothing quotes a message that was excluded, whatever the exclusion found when
\* it started: the citations go with the row of the source (ingest.exclude).
THEOREM ForgottenHolds == Spec => []Forgotten
BY TypedInit, TypedNext, EvidenceInit, EvidenceNext, EvidenceImplies, PTL DEF Spec

-----------------------------------------------------------------------------
(* A suggested reply *)

\* The invitee is as the check loaded it, or lost its suggestion since, which
\* was not one of a message that the check has read; or the check is raced.
CheckKept ==
  \A c \in call["check"] :
    \/ c.raced
    \/ /\ c.invitee.status = invitee.status
       /\ \/ c.invitee = invitee
          \/ invitee.suggested = Nobody /\ invitee.by = Nobody /\ c.invitee.by \notin Of(c.seen)

\* An exclusion that clears the suggestion found the one there is, and one of
\* a message that has a suggestion clears it.
SuggestionFound ==
  \A l \in leaving :
    /\ l.suggestion => invitee.by = l.msg
    /\ invitee.suggested # Nobody /\ ~behind.raced /\ invitee.by = l.msg => l.suggestion

Suggested == invitee.suggested # Nobody /\ ~behind.raced => invitee.by \in Messages

Suggestion == CheckKept /\ SuggestionFound /\ Suggested /\ SuggestionSound

LEMMA SuggestionInit == Init => Suggestion
BY DEF Init, Suggestion, CheckKept, SuggestionFound, Suggested, SuggestionSound, Kinds

\* A check that is not raced was there before, or loads what there is.
LEMMA Checks ==
  ASSUME Typed, [Next]_vars, NEW c \in call'["check"], ~c.raced
  PROVE  c \in call["check"] \/ c.invitee = invitee
<1>0. "check" \in Kinds /\ call \in [Kinds -> SUBSET Call]
  BY DEF Typed, CallsOK, Kinds
<1>1. CASE Starts
  <2>1. PICK k \in Kinds, S \in SUBSET Messages, draft \in {0} \cup Ids, text \in 0..MaxActs :
          call' = [call EXCEPT ![k] = {NewCall(S, draft, text)}]
    BY <1>1 DEF Starts, Start, NewCall
  <2>2. NewCall(S, draft, text).invitee = invitee
    BY DEF NewCall
  <2> QED
    BY <1>0, <2>1, <2>2
<1>2. CASE \E k \in Kinds : call' = [call EXCEPT ![k] = {}]
  BY <1>0, <1>2
<1>3. CASE call' = [call EXCEPT !["check"] = Raced(@)]
  <2>1. c \in Raced(call["check"])
    BY <1>0, <1>3
  <2> QED
    BY <1>0, <2>1, RacedFields
<1>4. ASSUME NEW m \in Messages, Touched(m) PROVE c \in call["check"]
  <2>1. call'["check"] = call["check"] \/ call'["check"] = Raced(call["check"])
    BY <1>0, <1>4 DEF Touched
  <2> QED
    BY <1>0, <2>1, RacedFields
<1> QED
  BY <1>1, <1>2, <1>3, <1>4, CallSteps DEF CallStep

\* ... and has not read a message that moves meanwhile.
LEMMA ChecksTouched ==
  ASSUME Typed, NEW m \in Messages, Touched(m), NEW c \in call'["check"], ~c.raced
  PROVE  c \in call["check"] /\ m \notin Of(c.seen)
<1>0. "check" \in Kinds /\ call \in [Kinds -> SUBSET Call]
  BY DEF Typed, CallsOK, Kinds
<1>1. call'["check"] = IF \E x \in call["check"] : m \in Of(x.seen) THEN Raced(call["check"]) ELSE call["check"]
  BY <1>0 DEF Touched
<1> QED
  BY <1>0, <1>1, RacedFields

LEMMA CheckKeptStays ==
  ASSUME Typed, CheckKept, [Next]_vars, UNCHANGED invitee
  PROVE  CheckKept'
BY Checks DEF CheckKept

\* Steps that leave alone the suggestion and what it rests on.
LEMMA SuggestionStays ==
  ASSUME Typed, Suggestion, [Next]_vars, UNCHANGED <<msg, ver, leaving, invitee, behind>>
  PROVE  Suggestion'
<1>1. CheckKept'
  BY CheckKeptStays DEF Suggestion
<1>2. SuggestionFound' /\ Suggested' /\ SuggestionSound'
  BY DEF Suggestion, SuggestionFound, Suggested, SuggestionSound, Now
<1> QED
  BY <1>1, <1>2 DEF Suggestion

LEMMA SuggestionStored ==
  ASSUME Typed, CallsSound, Suggestion, NEW c \in call["check"],
         NEW status \in {"accepted", "maybe", "unclear"}, NEW p \in c.seen, StoreCheck(c, status, p)
  PROVE  Suggestion'
<1>0. /\ "check" \in Kinds /\ call \in [Kinds -> SUBSET Call]
      /\ invitee \in Invitee /\ behind \in [pair : SUBSET Pairs, raced : BOOLEAN]
      /\ p \in Pairs /\ p = <<p[1], p[2]>> /\ p[1] \in Messages
  <2>1. "check" \in Kinds
    BY DEF Kinds
  <2>2. p \in Pairs
    BY <2>1, CallParts
  <2> QED
    BY <2>1, <2>2, PairsParts DEF Typed, CallsOK, WrittenOK
<1>1. CheckKept'
  <2>1. call' = [call EXCEPT !["check"] = {}]
    BY DEF StoreCheck, Ended
  <2> QED
    BY <1>0, <2>1 DEF CheckKept
<1>2. UNCHANGED <<msg, ver, leaving>> /\ \A l \in leaving : ~l.suggestion
  BY DEF StoreCheck, Ended, messages, Unlocked
<1>3. CASE status \notin {"unclear", c.invitee.status}
  <2>1. Suggest(c, status, p[1])
    BY <1>3 DEF StoreCheck
  <2> DEFINE late == c.raced \/ p[1] \in Leaving
  <2>2. behind' = [pair |-> {p}, raced |-> late]
    BY <1>3 DEF StoreCheck
  <2>3. late <=> c.raced \/ p[1] \in Leaving
    OBVIOUS
  <2> HIDE DEF late
  <2>4. behind'.pair = {p} /\ (behind'.raced <=> late)
    BY <2>2
  <2>5. CASE late
    BY <1>1, <1>2, <2>4, <2>5 DEF Suggestion, SuggestionFound, Suggested, SuggestionSound
  <2>6. CASE ~late
    <3>1. /\ ~c.raced /\ p[1] \notin Leaving
          /\ msg[p[1]] = "live" /\ p[2] = ver[p[1]]
      BY <1>0, <2>3, <2>6 DEF CallsSound, Current
    <3>2. /\ c.invitee.status = invitee.status
          /\ \/ c.invitee = invitee
             \/ invitee.suggested = Nobody /\ invitee.by = Nobody /\ c.invitee.by \notin Of(c.seen)
      BY <3>1 DEF Suggestion, CheckKept
    <3>3. p[1] \in Of(c.seen)
      BY DEF Of
    <3>4. /\ invitee'.status = invitee.status
          /\ invitee'.suggested = Column(c.invitee.suggested, status, invitee.suggested)
          /\ invitee'.by = Column(c.invitee.by, p[1], invitee.by)
      BY <1>0, <2>1 DEF Suggest, Invitee
    <3>5. invitee'.by = p[1] /\ invitee'.suggested \in {Nobody, status}
      BY <3>2, <3>3, <3>4 DEF Column
    <3>6. status # invitee'.status
      BY <1>3, <3>2, <3>4
    <3>7. Now({invitee.by})' = {p}
      BY <1>0, <1>2, <3>1, <3>5 DEF Now
    <3>8. SuggestionSound'
      BY <1>2, <2>4, <3>1, <3>5, <3>6, <3>7 DEF SuggestionSound
    <3>9. SuggestionFound'
      <4>1. \A l \in leaving : l.msg # p[1]
        BY <3>1 DEF Leaving
      <4> QED
        BY <1>2, <3>5, <4>1 DEF SuggestionFound
    <3>10. Suggested'
      BY <1>0, <3>5 DEF Suggested
    <3> QED
      BY <1>1, <3>8, <3>9, <3>10 DEF Suggestion
  <2> QED
    BY <2>5, <2>6
<1>4. CASE ~(status \notin {"unclear", c.invitee.status})
  <2>1. Suggest(c, Nobody, Nobody)
    BY <1>4 DEF StoreCheck
  <2> DEFINE late == behind.raced \/ c.raced
  <2>2. behind' = [behind EXCEPT !.raced = late]
    BY <1>4 DEF StoreCheck
  <2>3. late <=> behind.raced \/ c.raced
    OBVIOUS
  <2> HIDE DEF late
  <2>4. behind'.raced <=> late
    BY <1>0, <2>2
  <2>5. CASE late
    BY <1>1, <1>2, <2>4, <2>5 DEF Suggestion, SuggestionFound, Suggested, SuggestionSound
  <2>6. CASE ~late
    <3>1. c.invitee = invitee \/ invitee.suggested = Nobody
      BY <2>3, <2>6 DEF Suggestion, CheckKept
    <3>2. invitee'.suggested = Column(c.invitee.suggested, Nobody, invitee.suggested)
      BY <1>0, <2>1 DEF Suggest, Invitee
    <3>3. invitee'.suggested = Nobody
      BY <3>1, <3>2 DEF Column
    <3> QED
      BY <1>1, <1>2, <3>3 DEF Suggestion, SuggestionFound, Suggested, SuggestionSound
  <2> QED
    BY <2>5, <2>6
<1> QED
  BY <1>3, <1>4

LEMMA SuggestionSet ==
  ASSUME Typed, Suggestion, NEW status \in Statuses, SetStatus(status)
  PROVE  Suggestion'
<1>0. "check" \in Kinds /\ call \in [Kinds -> SUBSET Call] /\ invitee \in Invitee
  BY DEF Typed, CallsOK, WrittenOK, Kinds
<1>1. UNCHANGED leaving /\ \A l \in leaving : ~l.suggestion
  BY DEF SetStatus, Act, messages, Unlocked
<1>2. invitee'.suggested = Nobody
  BY <1>0 DEF SetStatus, NoSuggestion, Invitee
<1>3. CheckKept'
  <2>1. call'["check"] = Raced(call["check"])
    BY <1>0 DEF SetStatus
  <2>2. \A c \in call'["check"] : c.raced
    BY <1>0, <2>1, RacedFields
  <2> QED
    BY <2>2 DEF CheckKept
<1> QED
  BY <1>1, <1>2, <1>3 DEF Suggestion, SuggestionFound, Suggested, SuggestionSound

\* A change of a message other than the suggestion's, or of one that takes the
\* suggestion with it.
LEMMA SuggestionMoves ==
  ASSUME Typed, Suggestion, NEW m \in Messages, NEW A, NEW D, NEW clear, Invalidate(m, A, D, clear),
         \A n \in Messages : n # m => msg'[n] = msg[n] /\ ver'[n] = ver[n],
         leaving' \subseteq leaving,
         clear => invitee.by = m /\ \A l \in leaving' : ~l.suggestion,
         ~clear /\ invitee.suggested # Nobody /\ ~behind.raced => invitee.by # m
  PROVE  Suggestion'
<1>0. invitee \in Invitee
  BY DEF Typed, WrittenOK
<1>1. ASSUME NEW c \in call'["check"], ~c.raced
      PROVE  /\ m \notin Of(c.seen) /\ c.invitee.status = invitee.status
             /\ \/ c.invitee = invitee
                \/ invitee.suggested = Nobody /\ invitee.by = Nobody /\ c.invitee.by \notin Of(c.seen)
  <2>1. c \in call["check"] /\ m \notin Of(c.seen)
    BY <1>1, ChecksTouched DEF Invalidate
  <2> QED
    BY <1>1, <2>1 DEF Suggestion, CheckKept
<1>2. CASE clear
  <2>1. invitee' = NoSuggestion
    BY <1>2 DEF Invalidate
  <2>2. invitee'.suggested = Nobody /\ invitee'.by = Nobody /\ invitee'.status = invitee.status
    BY <1>0, <2>1 DEF NoSuggestion, Invitee
  <2>3. CheckKept'
    BY <1>1, <1>2, <2>2 DEF CheckKept
  <2> QED
    BY <1>2, <2>2, <2>3 DEF Suggestion, SuggestionFound, Suggested, SuggestionSound
<1>3. CASE ~clear
  <2>1. UNCHANGED <<invitee, behind>>
    BY <1>3 DEF Invalidate
  <2>2. CheckKept'
    BY <1>1, <2>1 DEF CheckKept
  <2>3. SuggestionFound' /\ Suggested'
    BY <2>1 DEF Suggestion, SuggestionFound, Suggested
  <2>4. ASSUME invitee.suggested # Nobody, ~behind.raced
        PROVE  /\ behind.pair = Now({invitee.by})' /\ msg'[invitee.by] = "live"
               /\ invitee.suggested # invitee.status
    <3>1. invitee.by \in Messages /\ invitee.by # m
      BY <1>3, <2>4 DEF Suggestion, Suggested
    <3>2. /\ behind.pair = {<<invitee.by, ver[invitee.by]>>} /\ msg[invitee.by] = "live"
          /\ invitee.suggested # invitee.status
      BY <2>4 DEF Suggestion, SuggestionSound, Now
    <3>3. Now({invitee.by})' = {<<invitee.by, ver'[invitee.by]>>}
      BY <2>1 DEF Now
    <3> QED
      BY <3>1, <3>2, <3>3
  <2>5. SuggestionSound'
    BY <2>1, <2>4 DEF SuggestionSound
  <2> QED
    BY <2>2, <2>3, <2>5 DEF Suggestion
<1> QED
  BY <1>2, <1>3

LEMMA SuggestionIngest ==
  ASSUME Typed, Suggestion, Ingest
  PROVE  Suggestion'
<1>0. /\ msg \in [Messages -> {"live", "tombstone", "gone"}] /\ ver \in [Messages -> Versions]
      /\ \A l \in leaving : l.msg \in Messages
      /\ AtMostOne(leaving)
  BY DEF Typed, MessagesOK, LeavingType
<1>a. [Next]_vars
  BY DEF Next
<1>1. ASSUME NEW m \in Messages, Upsert(m) PROVE Suggestion'
  <2>1. PICK A, D, clear : clear = (invitee.by = m) /\ Invalidate(m, A, D, clear)
    BY <1>1 DEF Upsert
  <2>2. \A n \in Messages : n # m => msg'[n] = msg[n] /\ ver'[n] = ver[n]
    BY <1>0, <1>1 DEF Upsert
  <2>3. leaving' = leaving /\ (invitee.by = m => \A l \in leaving : ~l.suggestion)
    BY <1>1 DEF Upsert, Unlocked
  <2> QED
    BY <2>1, <2>2, <2>3, SuggestionMoves
<1>2. ASSUME NEW m \in Messages, Leave(m) PROVE Suggestion'
  <2>1. UNCHANGED <<msg, ver, invitee, behind>>
    BY <1>2 DEF Leave, written
  <2> DEFINE cites == invitee.by = m
  <2>2. \A l \in leaving' : l.msg = m /\ (l.suggestion <=> invitee.by = m)
    <3>1. leaving' = {[msg |-> m, answers |-> Citing(answers, m), drafts |-> Citing(drafts, m),
                       suggestion |-> cites]}
      BY <1>2 DEF Leave
    <3>2. cites <=> invitee.by = m
      OBVIOUS
    <3> HIDE DEF cites
    <3>3. \A l \in leaving' : l.msg = m /\ l.suggestion = cites
      BY <3>1
    <3> QED
      BY <3>2, <3>3
  <2>3. CheckKept'
    BY <1>a, <2>1, CheckKeptStays DEF Suggestion
  <2>4. SuggestionFound'
    BY <2>1, <2>2 DEF SuggestionFound
  <2>5. Suggested' /\ SuggestionSound'
    BY <2>1 DEF Suggestion, Suggested, SuggestionSound, Now
  <2> QED
    BY <2>3, <2>4, <2>5 DEF Suggestion
<1>3. ASSUME NEW l \in leaving, Gone(l) PROVE Suggestion'
  <2>1. PICK m, A, D, clear : /\ m = l.msg /\ clear = l.suggestion
                              /\ Invalidate(m, A, D, clear)
    BY <1>3 DEF Gone
  <2>2. m \in Messages /\ \A n \in Messages : n # m => msg'[n] = msg[n] /\ ver'[n] = ver[n]
    BY <1>0, <1>3, <2>1 DEF Gone
  <2>3. leaving' = {}
    BY <1>3 DEF Gone
  <2>4. /\ l.suggestion => invitee.by = m
        /\ invitee.suggested # Nobody /\ ~behind.raced /\ invitee.by = m => l.suggestion
    BY <2>1 DEF Suggestion, SuggestionFound
  <2> QED
    BY <2>1, <2>2, <2>3, <2>4, SuggestionMoves
<1>4. ASSUME NEW m \in Messages, Extract(m) PROVE Suggestion'
  <2>1. UNCHANGED <<msg, ver, leaving, invitee, behind>>
    BY <1>4 DEF Extract, written
  <2> QED
    BY <1>a, <2>1, SuggestionStays
<1> QED
  BY <1>1, <1>2, <1>3, <1>4 DEF Ingest

LEMMA SuggestionNext == Typed /\ CallsSound /\ Suggestion /\ [Next]_vars => Suggestion'
<1> SUFFICES ASSUME Typed, CallsSound, Suggestion, [Next]_vars PROVE Suggestion'
  OBVIOUS
<1>1. \/ UNCHANGED <<msg, ver, leaving, invitee, behind>>
      \/ Ingest \/ \E status \in Statuses : SetStatus(status)
      \/ \E c \in call["check"] :
           \E status \in {"accepted", "maybe", "unclear"}, p \in c.seen : StoreCheck(c, status, p)
  BY DEF Next, User, Answered, vars, messages, written, Ask, Draft, Rewrite, Check, Start, Save, Act,
         Answer, StoreDraft, StoreRewrite, Fails, Ended
<1> QED
  BY <1>1, SuggestionStays, SuggestionIngest, SuggestionSet, SuggestionStored

\* A suggested reply is that of what its message says now, and not the status
\* there is, unless one of them changed while the check was reading: suggest_rsvp
\* stores the columns that differ from those it loaded, and a change of the
\* message clears them (gatherings.suggest_rsvp, ingest.invalidate).
THEOREM SuggestionHolds == Spec => []SuggestionSound
<1>1. Evidence => CallsSound
  BY DEF Evidence
<1>2. Suggestion => SuggestionSound
  BY DEF Suggestion
<1> QED
  BY <1>1, <1>2, TypedInit, TypedNext, EvidenceInit, EvidenceNext, SuggestionInit, SuggestionNext,
     PTL DEF Spec

-----------------------------------------------------------------------------
(* What goes wrong goes wrong during a call of the model                     *)

\* What a request has read does not change while it runs, and is not being
\* excluded; nor does the user set the status of an invitee being checked.
Undisturbed ==
  /\ \A k \in Kinds : \A c \in call[k] : \A m \in Of(c.seen) :
       m \notin Leaving /\ UNCHANGED <<msg[m], ver[m]>>
  /\ (\E status \in Statuses : SetStatus(status)) => call["check"] = {}

\* A request is only raced by an exclusion that is still under way.
CallsQuiet ==
  \A k \in Kinds : \A c \in call[k] : c.raced => Of(c.seen) \cap Leaving # {}

NoneRaced ==
  /\ CallsQuiet
  /\ \A w \in answers \cup drafts : ~w.raced
  /\ ~behind.raced

LEMMA TextRaced ==
  ASSUME NEW id, NEW cites, NEW used, NEW late, NEW text, ~late, Of(used) \cap Leaving = {}
  PROVE  ~Text(id, cites, used, late, text).raced
<1> DEFINE r == late \/ Of(used) \cap Leaving # {}
<1>1. Text(id, cites, used, late, text)
        = [id |-> id, cites |-> cites, used |-> used, stale |-> FALSE, text |-> text, raced |-> r]
  BY DEF Text
<1>2. ~r
  OBVIOUS
<1> HIDE DEF r
<1> QED
  BY <1>1, <1>2

\* As long as nothing is disturbed no request that runs is raced ...
LEMMA QuietCalls ==
  ASSUME CallsQuiet, Undisturbed
  PROVE  \A k \in Kinds : \A c \in call[k] : ~c.raced /\ Of(c.seen) \cap Leaving = {}
BY DEF CallsQuiet, Undisturbed

\* ... and one that an exclusion touches was read by it.
LEMMA QuietTouched ==
  ASSUME CallsOK, NEW m, Touched(m), NEW k \in Kinds, NEW c \in call'[k],
         \A x \in call[k] : ~x.raced
  PROVE  \/ c \in call[k] /\ ~c.raced
         \/ m \in Of(c.seen) /\ \E x \in call[k] : m \in Of(x.seen)
<1>1. call'[k] = IF \E x \in call[k] : m \in Of(x.seen) THEN Raced(call[k]) ELSE call[k]
  BY DEF Touched
<1>2. CASE \E x \in call[k] : m \in Of(x.seen)
  <2>1. PICK x \in call[k] : m \in Of(x.seen)
    BY <1>2
  <2>2. call[k] = {x} /\ x \in Call
    BY <2>1 DEF CallsOK, AtMostOne
  <2>3. c = [x EXCEPT !.raced = TRUE]
    BY <1>1, <1>2, <2>2 DEF Raced
  <2>4. c.seen = x.seen
    BY <2>2, <2>3 DEF Call
  <2> QED
    BY <2>1, <2>4
<1>3. CASE ~\E x \in call[k] : m \in Of(x.seen)
  BY <1>1, <1>3
<1> QED
  BY <1>2, <1>3

LEMMA CallsQuietNext == ASSUME Typed, CallsQuiet, Next, Undisturbed PROVE CallsQuiet'
<1>0. /\ call \in [Kinds -> SUBSET Call] /\ CallsOK /\ "check" \in Kinds
      /\ \A k \in Kinds : \A c \in call[k] : ~c.raced /\ Of(c.seen) \cap Leaving = {}
      /\ ver \in [Messages -> Versions] /\ \A v \in Versions : v # v + 1
      /\ \A l \in leaving : l.msg \in Leaving
  <2>1. \A v \in Versions : v # v + 1
    BY AnswersAssumption DEF Versions
  <2> QED
    BY <2>1, QuietCalls DEF Typed, CallsOK, MessagesOK, Kinds, Leaving
<1>1. SUFFICES ASSUME NEW k \in Kinds, NEW c \in call'[k]
               PROVE  ~c.raced \/ Of(c.seen) \cap Leaving' # {}
  BY DEF CallsQuiet
<1>2. ASSUME c \in call[k] PROVE ~c.raced
  BY <1>0, <1>2
<1>3. CASE Starts
  <2>1. PICK j \in Kinds, S \in SUBSET Messages, draft \in {0} \cup Ids, text \in 0..MaxActs :
          call' = [call EXCEPT ![j] = {NewCall(S, draft, text)}]
    BY <1>3 DEF Starts, Start, NewCall
  <2>2. ~NewCall(S, draft, text).raced
    BY DEF NewCall
  <2> QED
    BY <1>0, <1>2, <2>1, <2>2
<1>4. CASE UNCHANGED call \/ \E j \in Kinds : call' = [call EXCEPT ![j] = {}]
  BY <1>0, <1>2, <1>4
<1>5. CASE \E status \in Statuses : SetStatus(status)
  <2>1. call["check"] = {} /\ call' = [call EXCEPT !["check"] = Raced(@)]
    BY <1>5 DEF Undisturbed, SetStatus
  <2>2. Raced({}) = {}
    BY DEF Raced
  <2> QED
    BY <1>0, <1>2, <2>1, <2>2
<1>6. ASSUME NEW m \in Messages, Upsert(m) PROVE ~c.raced
  <2>1. Touched(m) /\ ver'[m] # ver[m]
    BY <1>0, <1>6 DEF Upsert, Invalidate
  <2>2. \A x \in call[k] : m \notin Of(x.seen)
    BY <2>1 DEF Undisturbed
  <2> QED
    BY <1>0, <2>1, <2>2, QuietTouched
<1>7. ASSUME NEW m \in Messages, Leave(m) PROVE ~c.raced \/ Of(c.seen) \cap Leaving' # {}
  <2>1. Touched(m) /\ m \in Leaving'
    BY <1>7 DEF Leave, Leaving
  <2> QED
    BY <1>0, <2>1, QuietTouched
<1>8. ASSUME NEW l \in leaving, Gone(l) PROVE ~c.raced
  <2>1. Touched(l.msg)
    BY <1>8 DEF Gone, Invalidate
  <2>2. \A x \in call[k] : l.msg \notin Of(x.seen)
    BY <1>0
  <2> QED
    BY <1>0, <2>1, <2>2, QuietTouched
<1>9. \/ Starts \/ UNCHANGED call \/ (\E j \in Kinds : call' = [call EXCEPT ![j] = {}])
      \/ (\E status \in Statuses : SetStatus(status))
      \/ \E m \in Messages : Upsert(m) \/ Leave(m)
      \/ \E l \in leaving : Gone(l)
  <2>1. CASE User
    BY <2>1, UserStarts DEF Save
  <2>2. CASE Answered
    BY <2>2 DEF Answered, Kinds, Answer, StoreDraft, StoreRewrite, StoreCheck, Fails, Ended
  <2>3. CASE Ingest
    BY <2>3 DEF Ingest, Extract
  <2> QED
    BY <2>1, <2>2, <2>3 DEF Next
<1> QED
  BY <1>3, <1>4, <1>5, <1>6, <1>7, <1>8, <1>9

LEMMA TextsQuiet ==
  ASSUME Typed, NoneRaced, Next, Undisturbed
  PROVE  (\A w \in answers' \cup drafts' : ~w.raced) /\ ~behind.raced'
<1>0. /\ \A k \in Kinds : \A c \in call[k] : ~c.raced /\ Of(c.seen) \cap Leaving = {}
      /\ answers \subseteq Written /\ drafts \subseteq Written
      /\ \A w \in answers \cup drafts : ~w.raced
      /\ ~behind.raced
      /\ behind \in [pair : SUBSET Pairs, raced : BOOLEAN]
  BY QuietCalls DEF NoneRaced, Typed, WrittenOK
<1>1. CASE UNCHANGED <<answers, drafts, behind>>
  BY <1>0, <1>1
<1>2. ASSUME NEW c \in call["ask"], NEW cited \in SUBSET c.seen, Answer(c, cited)
      PROVE  (\A w \in answers' \cup drafts' : ~w.raced) /\ ~behind.raced'
  <2>1. ~c.raced /\ Of(cited) \cap Leaving = {}
    BY <1>0 DEF Kinds, Of
  <2>2. ~Text(calls, cited, cited, c.raced, 0).raced
    BY <2>1, TextRaced
  <2>3. answers' = answers \cup {Text(calls, cited, cited, c.raced, 0)} /\ UNCHANGED <<drafts, behind>>
    BY <1>2 DEF Answer
  <2> QED
    BY <1>0, <2>2, <2>3
<1>3. ASSUME NEW c \in call["draft"], NEW cited \in SUBSET c.seen, StoreDraft(c, cited)
      PROVE  (\A w \in answers' \cup drafts' : ~w.raced) /\ ~behind.raced'
  <2> DEFINE cites == Now({m \in Of(cited) : msg[m] # "gone"})
  <2>1. ~c.raced /\ Of(cited) \cap Leaving = {}
    BY <1>0 DEF Kinds, Of
  <2>2. ~Text(calls, cites, cited, c.raced, 0).raced
    BY <2>1, TextRaced
  <2>3. /\ drafts' = (drafts \ Held) \cup {Text(calls, cites, cited, c.raced, 0)}
        /\ UNCHANGED <<answers, behind>>
    BY <1>3 DEF StoreDraft
  <2> HIDE DEF cites
  <2> QED
    BY <1>0, <2>2, <2>3
<1>4. ASSUME NEW c \in call["rewrite"], StoreRewrite(c)
      PROVE  (\A w \in answers' \cup drafts' : ~w.raced) /\ ~behind.raced'
  <2>1. /\ drafts' = {IF d.id = c.draft THEN [d EXCEPT !.text = c.text] ELSE d : d \in drafts}
        /\ UNCHANGED <<answers, behind>>
    BY <1>4 DEF StoreRewrite
  <2>2. \A d \in drafts : ~[d EXCEPT !.text = c.text].raced
    BY <1>0 DEF Written
  <2> QED
    BY <1>0, <2>1, <2>2
<1>5. ASSUME NEW c \in call["check"], NEW status \in {"accepted", "maybe", "unclear"},
             NEW p \in c.seen, StoreCheck(c, status, p)
      PROVE  (\A w \in answers' \cup drafts' : ~w.raced) /\ ~behind.raced'
  <2>1. ~c.raced /\ p[1] \notin Leaving
    BY <1>0 DEF Kinds, Of
  <2>2. UNCHANGED <<answers, drafts>>
    BY <1>5 DEF StoreCheck
  <2> DEFINE fresh == c.raced \/ p[1] \in Leaving
             kept  == behind.raced \/ c.raced
  <2>3. ~fresh /\ ~kept
    BY <1>0, <2>1
  <2>4. behind' = [pair |-> {p}, raced |-> fresh] \/ behind' = [behind EXCEPT !.raced = kept]
    BY <1>5 DEF StoreCheck
  <2> HIDE DEF fresh, kept
  <2>5. ~behind'.raced
    BY <1>0, <2>3, <2>4
  <2> QED
    BY <1>0, <2>2, <2>5
<1>6. ASSUME NEW status \in Statuses, SetStatus(status)
      PROVE  (\A w \in answers' \cup drafts' : ~w.raced) /\ ~behind.raced'
  BY <1>0, <1>6 DEF SetStatus
<1>7. CASE Save
  <2>1. UNCHANGED <<answers, behind>>
    BY <1>7 DEF Save
  <2>2. PICK t : t = acts'
    OBVIOUS
  <2>3. \A d \in drafts : ~[d EXCEPT !.text = t].raced
    BY <1>0 DEF Written
  <2>4. ~Text(MaxCalls + t, {}, {}, FALSE, t).raced
    <3>1. Of({}) \cap Leaving = {}
      BY DEF Of
    <3> QED
      BY <3>1, TextRaced
  <2>5. \/ \E d \in drafts : drafts' = (drafts \ {d}) \cup {[d EXCEPT !.text = t]}
        \/ drafts' = {Text(MaxCalls + t, {}, {}, FALSE, t)}
    BY <1>7, <2>2 DEF Save
  <2> QED
    BY <1>0, <2>1, <2>3, <2>4, <2>5
<1>8. ASSUME NEW m, NEW A, NEW D, NEW s, Invalidate(m, A, D, s)
      PROVE  (\A w \in answers' \cup drafts' : ~w.raced) /\ ~behind.raced'
  <2>1. /\ answers' = {[a EXCEPT !.stale = @ \/ a.id \in A,
                                 !.cites = IF a.id \in A THEN {} ELSE Without(@, m)] : a \in answers}
        /\ drafts' = {[d EXCEPT !.stale = @ \/ d.id \in D, !.cites = Without(@, m)] : d \in drafts}
        /\ behind' = behind \/ behind' = [pair |-> {}, raced |-> FALSE]
    BY <1>8 DEF Invalidate
  <2>2. \A w \in Written : \A b, C : [w EXCEPT !.stale = b, !.cites = C].raced = w.raced
    BY DEF Written
  <2>3. ASSUME NEW w \in answers' PROVE ~w.raced
    <3>1. PICK a \in answers :
            w = [a EXCEPT !.stale = a.stale \/ a.id \in A,
                          !.cites = IF a.id \in A THEN {} ELSE Without(a.cites, m)]
      BY <2>1
    <3> QED
      BY <1>0, <2>2, <3>1
  <2>4. ASSUME NEW w \in drafts' PROVE ~w.raced
    <3>1. PICK d \in drafts :
            w = [d EXCEPT !.stale = d.stale \/ d.id \in D, !.cites = Without(d.cites, m)]
      BY <2>1
    <3> QED
      BY <1>0, <2>2, <3>1
  <2>5. ~behind'.raced
    <3>1. CASE behind' = behind
      BY <1>0, <3>1
    <3>2. CASE behind' = [pair |-> {}, raced |-> FALSE]
      BY <3>2
    <3> QED
      BY <2>1, <3>1, <3>2
  <2> QED
    BY <2>3, <2>4, <2>5
<1>9. \/ UNCHANGED <<answers, drafts, behind>>
      \/ \E c \in call["ask"] : \E cited \in SUBSET c.seen : Answer(c, cited)
      \/ \E c \in call["draft"] : \E cited \in SUBSET c.seen : StoreDraft(c, cited)
      \/ \E c \in call["rewrite"] : StoreRewrite(c)
      \/ \E c \in call["check"] :
           \E status \in {"accepted", "maybe", "unclear"}, p \in c.seen : StoreCheck(c, status, p)
      \/ \E status \in Statuses : SetStatus(status)
      \/ Save
      \/ \E m, A, D, s : Invalidate(m, A, D, s)
  <2>1. CASE User
    BY <2>1 DEF User, Ask, Draft, Rewrite, Check, Start, written
  <2>2. CASE Answered
    BY <2>2 DEF Answered, Fails, written
  <2>3. CASE Ingest
    BY <2>3 DEF Ingest, Upsert, Leave, Gone, Extract, written
  <2> QED
    BY <2>1, <2>2, <2>3 DEF Next
<1> QED
  BY <1>1, <1>2, <1>3, <1>4, <1>5, <1>6, <1>7, <1>8, <1>9

LEMMA NoneRacedNext == Typed /\ NoneRaced /\ [Next]_vars /\ [Undisturbed]_vars => NoneRaced'
<1> SUFFICES ASSUME Typed, NoneRaced, [Next]_vars, [Undisturbed]_vars PROVE NoneRaced'
  OBVIOUS
<1>1. CASE UNCHANGED vars
  BY <1>1 DEF vars, messages, written, NoneRaced, CallsQuiet, Leaving
<1>2. CASE Next /\ Undisturbed
  BY <1>2, CallsQuietNext, TextsQuiet DEF NoneRaced
<1> QED
  BY <1>1, <1>2

LEMMA NoneRacedInit == Init => NoneRaced
BY DEF Init, NoneRaced, CallsQuiet

\* No answer and no draft that is not marked contains deleted evidence, and a
\* suggested reply is that of a message that is there, as long as no message
\* changes or is excluded between the reading and the writing of a request
\* (ingest.invalidate; "invalidates cached answers/drafts that contain deleted
\* evidence", EXECUTION-PLAN.md:149).
THEOREM DeletionMarks == Spec /\ [][Undisturbed]_vars => [](DeletedMarked /\ SuggestionLive)
<1>1. Evidence /\ NoneRaced => DeletedMarked
  BY DEF Evidence, RowsOK, RowOK, Sound, NoneRaced, DeletedMarked
<1>2. Suggestion /\ NoneRaced => SuggestionLive
  BY DEF Suggestion, SuggestionSound, NoneRaced, SuggestionLive
<1>3. Evidence => CallsSound
  BY DEF Evidence
<1> QED
  BY <1>1, <1>2, <1>3, TypedInit, TypedNext, EvidenceInit, EvidenceNext, SuggestionInit,
     SuggestionNext, NoneRacedInit, NoneRacedNext, PTL DEF Spec

-----------------------------------------------------------------------------
(* What the user saved is not replaced                                       *)

\* The user saves no draft while one is being rewritten.
SavedAlone == Save => call["rewrite"] = {}

\* Drafts have ids of their own: the number of the request that wrote one, or a
\* number beyond all requests for one of the user's.
OwnIds ==
  /\ \A d \in drafts : /\ d.text <= acts
                       /\ d.id <= calls \/ (d.id > MaxCalls /\ d.id <= MaxCalls + acts)
  /\ \A d, e \in drafts : d.id = e.id => d = e
  /\ call["draft"] # {} => \A d \in drafts : d.id # calls

\* A rewrite has the text of its draft, which was there when it started.
RewritesLast ==
  \A c \in call["rewrite"] : /\ c.draft < calls \/ c.draft > MaxCalls
                             /\ c.text <= acts
                             /\ \A d \in drafts : d.id = c.draft => d.text <= c.text

Texts == OwnIds /\ RewritesLast

LEMMA TextsInit == Init => Texts
BY DEF Init, Texts, OwnIds, RewritesLast, Kinds

\* The rewrites under way are those there were, in draft and text.
SameRewrites ==
  \A c \in call'["rewrite"] :
    \E x \in call["rewrite"] : c.draft = x.draft /\ c.text = x.text

LEMMA TouchedRewrites ==
  ASSUME CallsOK, NEW m, Touched(m)
  PROVE  SameRewrites /\ (call'["draft"] # {} => call["draft"] # {})
<1>1. \A k \in Kinds : call'[k] \in {call[k], Raced(call[k])}
  BY DEF Touched
<1>2. ASSUME NEW C \in SUBSET Call, NEW c \in Raced(C)
      PROVE  \E x \in C : c.draft = x.draft /\ c.text = x.text
  BY <1>2 DEF Raced, Call
<1>3. "rewrite" \in Kinds /\ "draft" \in Kinds
  BY DEF Kinds
<1>4. SameRewrites
  BY <1>1, <1>2, <1>3 DEF SameRewrites, CallsOK
<1>5. Raced({}) = {}
  BY DEF Raced
<1> QED
  BY <1>1, <1>3, <1>4, <1>5

\* Steps that may take drafts away or mark them.
LEMMA TextsMarked ==
  ASSUME Typed, Texts, SameRewrites, call'["draft"] # {} => call["draft"] # {},
         UNCHANGED <<calls, acts>>,
         NEW f, \A e \in drafts' : \E d \in drafts : e = f[d] /\ e.id = d.id /\ e.text = d.text
  PROVE  Texts' /\ \A d \in drafts, e \in drafts' : d.id = e.id => e.text >= d.text
<1>0. drafts \subseteq Written /\ \A d \in drafts : d.text \in Nat
  <2>1. drafts \subseteq Written
    BY DEF Typed, WrittenOK
  <2> QED
    BY <2>1, AnswersAssumption DEF Written
<1>1. OwnIds'
  BY DEF Texts, OwnIds
<1>2. RewritesLast'
  BY DEF Texts, RewritesLast, SameRewrites
<1>3. ASSUME NEW d \in drafts, NEW e \in drafts', d.id = e.id PROVE e.text >= d.text
  <2>1. PICK x \in drafts : e.id = x.id /\ e.text = x.text
    OBVIOUS
  <2>2. x = d
    BY <1>3, <2>1 DEF Texts, OwnIds
  <2> QED
    BY <1>0, <2>1, <2>2
<1> QED
  BY <1>1, <1>2, <1>3 DEF Texts

LEMMA TextsStored ==
  ASSUME Typed, Texts, NEW c \in call["draft"], NEW cited \in SUBSET c.seen, StoreDraft(c, cited)
  PROVE  Texts' /\ \A d \in drafts, e \in drafts' : d.id = e.id => e.text >= d.text
<1> DEFINE w == Text(calls, Now({m \in Of(cited) : msg[m] # "gone"}), cited, c.raced, 0)
<1>1. /\ drafts' = (drafts \ Held) \cup {w}
      /\ call' = [call EXCEPT !["draft"] = {}] /\ UNCHANGED <<calls, acts>>
  BY DEF StoreDraft, Ended, bounds
<1>2. w.id = calls /\ w.text = 0
  BY DEF Text
<1> HIDE DEF w
<1>3. /\ call \in [Kinds -> SUBSET Call] /\ "draft" \in Kinds /\ "rewrite" \in Kinds
      /\ calls \in 0..MaxCalls /\ acts \in Nat /\ MaxCalls \in Nat
      /\ drafts \subseteq Written
  BY AnswersAssumption DEF Typed, CallsOK, BoundsOK, Kinds, WrittenOK
<1>4. \A d \in drafts : d.id # calls /\ d.text \in Nat
  BY <1>3, AnswersAssumption DEF Texts, OwnIds, Written
<1>5. call'["draft"] = {} /\ call'["rewrite"] = call["rewrite"]
  BY <1>1, <1>3
<1>6. \A e \in drafts' : e \in drafts \/ e = w
  BY <1>1
<1>7. OwnIds'
  BY <1>1, <1>2, <1>3, <1>4, <1>5, <1>6 DEF Texts, OwnIds
<1>8. \A x \in call["rewrite"] : x.draft # calls /\ x.text \in Nat
  <2>1. \A x \in call["rewrite"] : x.draft \in {0} \cup Ids /\ x.text \in 0..MaxActs
    BY <1>3 DEF Call
  <2>2. \A x \in call["rewrite"] : x.draft \in Nat
    BY <2>1, AnswersAssumption DEF Ids
  <2> QED
    BY <1>3, <2>1, <2>2 DEF Texts, RewritesLast
<1>9. RewritesLast'
  BY <1>1, <1>2, <1>5, <1>6, <1>8 DEF Texts, RewritesLast
<1>10. \A d \in drafts, e \in drafts' : d.id = e.id => e.text >= d.text
  BY <1>2, <1>4, <1>6 DEF Texts, OwnIds
<1> QED
  BY <1>7, <1>9, <1>10 DEF Texts

LEMMA TextsRewritten ==
  ASSUME Typed, Texts, NEW c \in call["rewrite"], StoreRewrite(c)
  PROVE  Texts' /\ \A d \in drafts, e \in drafts' : d.id = e.id => e.text >= d.text
<1>1. /\ drafts' = {IF d.id = c.draft THEN [d EXCEPT !.text = c.text] ELSE d : d \in drafts}
      /\ call' = [call EXCEPT !["rewrite"] = {}] /\ UNCHANGED <<calls, acts>>
  BY DEF StoreRewrite, Ended, bounds
<1>2. /\ call \in [Kinds -> SUBSET Call] /\ "draft" \in Kinds /\ "rewrite" \in Kinds
      /\ drafts \subseteq Written /\ \A d \in drafts : d.text \in Nat
  BY AnswersAssumption DEF Typed, CallsOK, Kinds, WrittenOK, Written
<1>3. call'["draft"] = call["draft"] /\ call'["rewrite"] = {}
  BY <1>1, <1>2
<1>4. ASSUME NEW e \in drafts'
      PROVE  \E d \in drafts : /\ e = IF d.id = c.draft THEN [d EXCEPT !.text = c.text] ELSE d
                               /\ e.id = d.id
                               /\ e.text = IF d.id = c.draft THEN c.text ELSE d.text
  <2>1. PICK d \in drafts : e = IF d.id = c.draft THEN [d EXCEPT !.text = c.text] ELSE d
    BY <1>1
  <2> QED
    BY <1>2, <2>1 DEF Written
<1>5. c.text <= acts /\ \A d \in drafts : d.id = c.draft => d.text <= c.text
  BY DEF Texts, RewritesLast
<1>6. OwnIds'
  BY <1>1, <1>3, <1>4, <1>5 DEF Texts, OwnIds
<1>7. RewritesLast'
  BY <1>3 DEF RewritesLast
<1>8. c.text \in Nat
  BY <1>2, AnswersAssumption DEF Call
<1>9. ASSUME NEW d \in drafts, NEW e \in drafts', d.id = e.id PROVE e.text >= d.text
  <2>1. PICK x \in drafts : e.id = x.id /\ e.text = IF x.id = c.draft THEN c.text ELSE x.text
    BY <1>4
  <2>2. x = d
    BY <1>9, <2>1 DEF Texts, OwnIds
  <2> QED
    BY <1>2, <1>5, <1>8, <2>1, <2>2
<1> QED
  BY <1>6, <1>7, <1>9 DEF Texts

LEMMA TextsSaved ==
  ASSUME Typed, Texts, Save, call["rewrite"] = {}
  PROVE  Texts' /\ \A d \in drafts, e \in drafts' : d.id = e.id => e.text >= d.text
<1>1. acts' = acts + 1 /\ UNCHANGED <<calls, call>>
  BY DEF Save, Act
<1>2. /\ drafts \subseteq Written /\ \A d \in drafts : d.text \in Nat /\ d.id \in Nat
      /\ acts \in Nat /\ MaxCalls \in Nat /\ calls \in 0..MaxCalls
  BY AnswersAssumption DEF Typed, WrittenOK, Written, BoundsOK, Ids
<1>3. RewritesLast'
  BY <1>1 DEF RewritesLast
<1>4. CASE \E d \in drafts \ Held : drafts' = (drafts \ {d}) \cup {[d EXCEPT !.text = acts']}
  <2>1. PICK d \in drafts : drafts' = (drafts \ {d}) \cup {[d EXCEPT !.text = acts']}
    BY <1>4
  <2>2. PICK w : w = [d EXCEPT !.text = acts']
    OBVIOUS
  <2>3. w.id = d.id /\ w.text = acts + 1 /\ drafts' = (drafts \ {d}) \cup {w}
    BY <1>1, <1>2, <2>1, <2>2 DEF Written
  <2>a. \A x \in drafts : /\ x.text <= acts
                          /\ x.id <= calls \/ (x.id > MaxCalls /\ x.id <= MaxCalls + acts)
    BY DEF Texts, OwnIds
  <2>b. ASSUME NEW e \in drafts'
        PROVE  e.text <= acts' /\ (e.id <= calls \/ (e.id > MaxCalls /\ e.id <= MaxCalls + acts'))
    BY <1>1, <1>2, <2>3, <2>a
  <2>c. \A x, y \in drafts' : x.id = y.id => x = y
    BY <2>3 DEF Texts, OwnIds
  <2>d. call["draft"] # {} => \A x \in drafts' : x.id # calls
    BY <2>3 DEF Texts, OwnIds
  <2>4. OwnIds'
    BY <1>1, <2>b, <2>c, <2>d DEF OwnIds
  <2>5. \A x \in drafts, e \in drafts' : x.id = e.id => e.text >= x.text
    BY <1>2, <2>3 DEF Texts, OwnIds
  <2> QED
    BY <1>3, <2>4, <2>5 DEF Texts
<1>5. CASE drafts = {} /\ drafts' = {Text(MaxCalls + acts', {}, {}, FALSE, acts')}
  <2>1. PICK w : w = Text(MaxCalls + acts', {}, {}, FALSE, acts')
    OBVIOUS
  <2>2. w.id = MaxCalls + acts' /\ w.text = acts' /\ drafts' = {w}
    BY <1>5, <2>1 DEF Text
  <2>3. OwnIds'
    BY <1>1, <1>2, <2>2 DEF Texts, OwnIds
  <2> QED
    BY <1>3, <1>5, <2>3 DEF Texts
<1> QED
  BY <1>4, <1>5 DEF Save

LEMMA TextsStart ==
  ASSUME Typed, Texts, User, ~Save
  PROVE  Texts' /\ UNCHANGED drafts
<1>0. /\ call \in [Kinds -> SUBSET Call] /\ "draft" \in Kinds /\ "rewrite" \in Kinds
      /\ MaxCalls \in Nat /\ calls \in 0..MaxCalls
      /\ drafts \subseteq Written /\ \A d \in drafts : d.id \in Nat /\ d.text \in Nat
  BY AnswersAssumption DEF Typed, CallsOK, BoundsOK, Kinds, WrittenOK, Written, Ids
<1>1. ASSUME NEW k \in Kinds, NEW S, NEW draft, NEW text, Start(k, S, draft, text),
             k = "rewrite" => \E d \in drafts : draft = d.id /\ text = d.text
      PROVE  Texts' /\ UNCHANGED drafts
  <2>1. /\ calls < MaxCalls /\ calls' = calls + 1 /\ UNCHANGED <<acts, drafts>>
        /\ call' = [call EXCEPT ![k] = {NewCall(S, draft, text)}]
    BY <1>1 DEF Start, NewCall, written
  <2>2. NewCall(S, draft, text).draft = draft /\ NewCall(S, draft, text).text = text
    BY DEF NewCall
  <2>3. OwnIds'
    BY <1>0, <2>1 DEF Texts, OwnIds
  <2>4. ASSUME NEW c \in call'["rewrite"]
        PROVE  /\ c.draft < calls' \/ c.draft > MaxCalls
               /\ c.text <= acts
               /\ \A d \in drafts : d.id = c.draft => d.text <= c.text
    <3>1. CASE k = "rewrite"
      <4>1. c = NewCall(S, draft, text)
        BY <1>0, <2>1, <3>1
      <4>2. PICK d \in drafts : draft = d.id /\ text = d.text
        BY <1>1, <3>1
      <4> QED
        BY <1>0, <2>1, <2>2, <4>1, <4>2 DEF Texts, OwnIds
    <3>2. CASE k # "rewrite"
      <4>1. c \in call["rewrite"] /\ c \in Call
        BY <1>0, <2>1, <3>2
      <4>2. c.draft \in Nat
        BY <4>1, AnswersAssumption DEF Call, Ids
      <4> QED
        BY <1>0, <2>1, <4>1, <4>2 DEF Texts, RewritesLast
    <3> QED
      BY <3>1, <3>2
  <2> QED
    BY <2>1, <2>3, <2>4 DEF Texts, RewritesLast
<1>2. ASSUME NEW status \in Statuses, SetStatus(status) PROVE Texts' /\ UNCHANGED drafts
  <2>1. /\ acts' = acts + 1 /\ UNCHANGED <<calls, drafts>>
        /\ call' = [call EXCEPT !["check"] = Raced(@)]
    BY <1>2 DEF SetStatus, Act
  <2>2. call'["draft"] = call["draft"] /\ call'["rewrite"] = call["rewrite"]
    BY <1>0, <2>1
  <2>3. acts \in Nat /\ \A c \in call["rewrite"] : c.text \in Nat
    <3>1. acts \in Nat
      BY AnswersAssumption DEF Typed, BoundsOK
    <3>2. \A c \in call["rewrite"] : c.text \in Nat
      BY <1>0, AnswersAssumption DEF Call
    <3> QED
      BY <3>1, <3>2
  <2>4. OwnIds'
    BY <1>0, <2>1, <2>2, <2>3 DEF Texts, OwnIds
  <2>5. RewritesLast'
    BY <1>0, <2>1, <2>2, <2>3 DEF Texts, RewritesLast
  <2> QED
    BY <2>1, <2>4, <2>5 DEF Texts
<1> QED
  BY <1>1, <1>2 DEF User, Ask, Draft, Rewrite, Check, Kinds

LEMMA TextsNext ==
  Typed /\ Texts /\ [Next]_vars /\ [SavedAlone]_vars
    => Texts' /\ \A d \in drafts, e \in drafts' : d.id = e.id => e.text >= d.text
<1> SUFFICES ASSUME Typed, Texts, [Next]_vars, [SavedAlone]_vars
             PROVE  Texts' /\ \A d \in drafts, e \in drafts' : d.id = e.id => e.text >= d.text
  OBVIOUS
<1>0. /\ CallsOK /\ call \in [Kinds -> SUBSET Call] /\ "draft" \in Kinds /\ "rewrite" \in Kinds
      /\ drafts \subseteq Written /\ \A d \in drafts : d.text \in Nat
  BY AnswersAssumption DEF Typed, CallsOK, Kinds, WrittenOK, Written
<1>1. CASE UNCHANGED drafts /\ Texts'
  BY <1>0, <1>1 DEF Texts, OwnIds
<1>2. CASE UNCHANGED vars
  <2>1. UNCHANGED <<drafts, call, calls, acts>>
    BY <1>2 DEF vars, written, bounds
  <2>2. Texts'
    BY <2>1 DEF Texts, OwnIds, RewritesLast
  <2> QED
    BY <1>1, <2>1, <2>2
<1>3. CASE User
  <2>1. Save => call["rewrite"] = {}
    <3>1. Save => acts' # acts
      BY AnswersAssumption DEF Save, Act, Typed, BoundsOK
    <3>2. Save => ~UNCHANGED vars
      BY <3>1 DEF vars, bounds
    <3> QED
      BY <3>2 DEF SavedAlone
  <2> QED
    BY <1>1, <1>3, <2>1, TextsSaved, TextsStart
<1>4. CASE Answered
  <2>1. ASSUME NEW k \in Kinds, Ended(k), UNCHANGED drafts PROVE Texts'
    <3>1. UNCHANGED <<drafts, calls, acts>> /\ call' = [call EXCEPT ![k] = {}]
      BY <2>1 DEF Ended, bounds
    <3>2. call'["draft"] \in {{}, call["draft"]} /\ call'["rewrite"] \in {{}, call["rewrite"]}
      BY <1>0, <3>1
    <3> QED
      BY <3>1, <3>2 DEF Texts, OwnIds, RewritesLast
  <2>2. \/ \E k \in Kinds : Ended(k) /\ UNCHANGED drafts
        \/ \E c \in call["draft"] : \E cited \in SUBSET c.seen : StoreDraft(c, cited)
        \/ \E c \in call["rewrite"] : StoreRewrite(c)
    BY <1>4 DEF Answered, Kinds, Answer, StoreCheck, Fails, written
  <2> QED
    BY <1>1, <2>1, <2>2, TextsStored, TextsRewritten
<1>5. CASE Ingest
  <2>1. UNCHANGED <<calls, acts>>
    BY <1>5 DEF Ingest, Upsert, Leave, Gone, Extract, Change, bounds
  <2>2. ASSUME UNCHANGED drafts, UNCHANGED call \/ \E m : Touched(m) PROVE Texts'
    <3>1. SameRewrites /\ (call'["draft"] # {} => call["draft"] # {})
      BY <1>0, <2>2, TouchedRewrites DEF SameRewrites
    <3> QED
      BY <2>1, <2>2, <3>1 DEF Texts, OwnIds, RewritesLast, SameRewrites
  <2>3. ASSUME NEW m, NEW A, NEW D, NEW s, Invalidate(m, A, D, s)
        PROVE  Texts' /\ \A d \in drafts, e \in drafts' : d.id = e.id => e.text >= d.text
    <3> DEFINE f == [d \in drafts |-> [d EXCEPT !.stale = d.stale \/ d.id \in D,
                                                !.cites = Without(d.cites, m)]]
    <3>1. SameRewrites /\ (call'["draft"] # {} => call["draft"] # {})
      BY <1>0, <2>3, TouchedRewrites DEF Invalidate
    <3>2. drafts' = {[d EXCEPT !.stale = @ \/ d.id \in D, !.cites = Without(@, m)] : d \in drafts}
      BY <2>3 DEF Invalidate
    <3>3. \A w \in Written : \A b, C : /\ [w EXCEPT !.stale = b, !.cites = C].id = w.id
                                       /\ [w EXCEPT !.stale = b, !.cites = C].text = w.text
      BY DEF Written
    <3>4. ASSUME NEW e \in drafts'
          PROVE  \E d \in drafts : e = f[d] /\ e.id = d.id /\ e.text = d.text
      <4>1. PICK d \in drafts :
              e = [d EXCEPT !.stale = d.stale \/ d.id \in D, !.cites = Without(d.cites, m)]
        BY <3>2
      <4>2. e.id = d.id /\ e.text = d.text
        BY <1>0, <3>3, <4>1
      <4>3. e = f[d]
        BY <4>1
      <4> QED
        BY <4>2, <4>3
    <3> HIDE DEF f
    <3> QED
      BY <2>1, <3>1, <3>4, TextsMarked
  <2>4. \/ UNCHANGED drafts /\ (UNCHANGED call \/ \E m : Touched(m))
        \/ \E m, A, D, s : Invalidate(m, A, D, s)
    BY <1>5 DEF Ingest, Upsert, Leave, Gone, Extract, written
  <2> QED
    BY <1>1, <2>2, <2>3, <2>4
<1> QED
  BY <1>2, <1>3, <1>4, <1>5 DEF Next

\* A text that the user saved is not replaced by an older one, as long as no
\* draft is saved while the model rewrites one: gatherings.rewrite_draft stores
\* what it made of the text it read, whatever the draft has become.
THEOREM SavesStand == Spec /\ [][SavedAlone]_vars => SavesKept
<1>1. Typed /\ Texts /\ [Next]_vars /\ [SavedAlone]_vars
        => [\A d \in drafts, e \in drafts' : d.id = e.id => e.text >= d.text]_vars
  BY TextsNext
<1>2. Typed /\ Texts /\ [Next]_vars /\ [SavedAlone]_vars => Texts'
  BY TextsNext
<1> QED
  BY <1>1, <1>2, TypedInit, TypedNext, TextsInit, PTL DEF Spec, SavesKept
=============================================================================
