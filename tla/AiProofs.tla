------------------------------ MODULE AiProofs ------------------------------
(* Theorems about the AI tiers.  First about AiBudget, for every number of  *)
(* calls and workspaces and every limit; then about Cutover, which this     *)
(* module instantiates.                                                     *)
EXTENDS AiBudget, TLAPS, FiniteSetTheorems, WellFoundedInduction

-----------------------------------------------------------------------------
(* Sums.  The library's induction theorems cannot be instantiated here, so  *)
(* induction is by a least counterexample: a set of natural numbers has a   *)
(* least element, and a family of finite sets one of the fewest members.    *)

LEMMA LeastNat ==
  ASSUME NEW T, T \subseteq Nat, T # {}
  PROVE  \E n \in T : \A m \in T : n <= m
<1>1. PICK n \in T : \A m \in T : <<m, n>> \notin OpToRel(<, Nat)
  BY NatLessThanWellFounded, WFMin
<1>2. \A m \in T : ~(m < n)
  BY <1>1 DEF OpToRel
<1> QED
  BY <1>2

LEMMA LeastSet ==
  ASSUME NEW B, \A s \in B : IsFiniteSet(s), B # {}
  PROVE  \E s \in B : \A t \in B : Cardinality(s) <= Cardinality(t)
<1> DEFINE T == {Cardinality(s) : s \in B}
<1>1. T \subseteq Nat /\ T # {}
  BY FS_CardinalityType
<1>2. PICK n \in T : \A m \in T : n <= m
  BY <1>1, LeastNat
<1> QED
  BY <1>2

LEMMA WithoutIsSmaller ==
  ASSUME NEW s, IsFiniteSet(s), NEW x \in s
  PROVE  /\ IsFiniteSet(s \ {x})
         /\ Cardinality(s) \in Nat /\ Cardinality(s \ {x}) \in Nat
         /\ Cardinality(s \ {x}) < Cardinality(s)
<1>1. Cardinality(s) \in Nat /\ IsFiniteSet(s \ {x}) /\ Cardinality(s \ {x}) = Cardinality(s) - 1
  BY FS_RemoveElement, FS_CardinalityType
<1>2. Cardinality(s \ {x}) \in Nat
  BY <1>1, FS_CardinalityType
<1> QED
  BY <1>1, <1>2

Any(s) == CHOOSE x \in s : TRUE

LEMMA AnyIn == ASSUME NEW s, s # {} PROVE Any(s) \in s
BY DEF Any

\* g gives each set of S the sum of F over it, as MapThenSumSet adds it up.
Adds(g, F, S) ==
  g = [s \in S |-> IF s = {} THEN 0 ELSE F[Any(s)] + g[s \ {Any(s)}]]

\* The sum over a set is made from that over a smaller one.
LEMMA SumExists ==
  ASSUME NEW U, IsFiniteSet(U), NEW F
  PROVE  \E g : Adds(g, F, SUBSET U)
<1> DEFINE Below(n) == {s \in SUBSET U : Cardinality(s) < n}
           Bad == {n \in Nat : ~ \E g : Adds(g, F, Below(n))}
<1>1. \A s \in SUBSET U : IsFiniteSet(s) /\ Cardinality(s) \in Nat
  BY FS_Subset, FS_CardinalityType
<1>2. Bad = {}
  <2> SUFFICES ASSUME Bad # {} PROVE FALSE
    OBVIOUS
  <2>1. Bad \subseteq Nat
    OBVIOUS
  <2> HIDE DEF Bad
  <2>2. PICK n \in Bad : \A m \in Bad : n <= m
    BY <2>1, LeastNat
  <2>5. n # 0 => n - 1 \in Nat /\ n - 1 \notin Bad
    BY <2>1, <2>2
  <2> USE DEF Bad
  <2>3. CASE n = 0
    <3>1. Below(n) = {}
      BY <1>1, <2>3
    <3>2. Adds([s \in {} |-> 0], F, {})
      BY DEF Adds
    <3> QED
      BY <2>2, <3>1, <3>2
  <2>4. CASE n \in Nat /\ n # 0
    <3>1. n - 1 \in Nat /\ n - 1 \notin Bad
      BY <2>4, <2>5
    <3>2. PICK g : Adds(g, F, Below(n - 1))
      BY <3>1
    <3> DEFINE h == [s \in Below(n) |-> IF s = {} THEN 0 ELSE F[Any(s)] + g[s \ {Any(s)}]]
    <3>3. ASSUME NEW s \in Below(n), s # {}
          PROVE  h[s \ {Any(s)}] = g[s \ {Any(s)}]
      <4> DEFINE t == s \ {Any(s)}
      <4>1. Any(s) \in s /\ s \in SUBSET U
        BY <3>3, AnyIn
      <4>2. Cardinality(t) < Cardinality(s) /\ Cardinality(t) \in Nat /\ Cardinality(s) \in Nat
        BY <1>1, <4>1, WithoutIsSmaller
      <4>3. Cardinality(s) < n
        OBVIOUS
      <4>4. t \in Below(n) /\ t \in Below(n - 1)
        BY <2>4, <4>1, <4>2, <4>3
      <4> HIDE DEF t, Below
      <4>5. g[t] = IF t = {} THEN 0 ELSE F[Any(t)] + g[t \ {Any(t)}]
        BY <3>2, <4>4 DEF Adds
      <4>6. h[t] = IF t = {} THEN 0 ELSE F[Any(t)] + g[t \ {Any(t)}]
        BY <4>4
      <4>7. h[t] = g[t]
        BY <4>5, <4>6
      <4> QED
        BY <4>7 DEF t
    <3> HIDE DEF Below
    <3>4. Adds(h, F, Below(n))
      BY <3>3 DEF Adds
    <3> QED
      BY <2>2, <3>4
  <2> QED
    BY <2>1, <2>2, <2>3, <2>4
<1>3. Cardinality(U) + 1 \in Nat
  BY FS_CardinalityType
<1>4. \A s \in SUBSET U : Cardinality(s) <= Cardinality(U)
  BY FS_Subset
<1>5. Below(Cardinality(U) + 1) = SUBSET U
  BY <1>1, <1>3, <1>4
<1> QED
  BY <1>2, <1>3, <1>5

\* Sums of natural numbers.
Sums(g, F, U) == IsFiniteSet(U) /\ F \in [U -> Nat] /\ Adds(g, F, SUBSET U)

LEMMA SumTyped ==
  ASSUME NEW U, NEW F, NEW g, Sums(g, F, U)
  PROVE  g \in [SUBSET U -> Nat]
<1> DEFINE Bad == {s \in SUBSET U : g[s] \notin Nat}
<1>0. IsFiniteSet(U) /\ F \in [U -> Nat] /\ Adds(g, F, SUBSET U)
  BY DEF Sums
<1>1. \A s \in SUBSET U : IsFiniteSet(s)
  BY <1>0, FS_Subset
<1>2. Bad = {}
  <2> SUFFICES ASSUME Bad # {} PROVE FALSE
    OBVIOUS
  <2>1. \A s \in Bad : IsFiniteSet(s) /\ s \subseteq U
    BY <1>1
  <2> HIDE DEF Bad
  <2>2. PICK s \in Bad : \A t \in Bad : Cardinality(s) <= Cardinality(t)
    BY <2>1, LeastSet
  <2>3. g[s] = IF s = {} THEN 0 ELSE F[Any(s)] + g[s \ {Any(s)}]
    BY <1>0, <2>1 DEF Adds
  <2>4. g[s] \notin Nat
    BY <2>2 DEF Bad
  <2>5. s # {} /\ Any(s) \in s
    BY <2>3, <2>4, AnyIn
  <2>6. s \ {Any(s)} \notin Bad
    BY <2>1, <2>2, <2>5, WithoutIsSmaller
  <2>7. g[s \ {Any(s)}] \in Nat
    BY <2>1, <2>6 DEF Bad
  <2>8. F[Any(s)] \in Nat
    BY <1>0, <2>1, <2>5
  <2> QED
    BY <2>3, <2>4, <2>5, <2>7, <2>8
<1>3. DOMAIN g = SUBSET U /\ g = [s \in DOMAIN g |-> g[s]]
  BY <1>0 DEF Adds
<1> QED
  BY <1>2, <1>3

\* Whatever member is counted first.
LEMMA SumWithout ==
  ASSUME NEW U, NEW F, NEW g, Sums(g, F, U), NEW r, r \subseteq U, NEW x \in r
  PROVE  g[r] = F[x] + g[r \ {x}]
<1> DEFINE Fails(s) == \E y \in s : g[s] # F[y] + g[s \ {y}]
           Bad == {s \in SUBSET U : Fails(s)}
<1>0. IsFiniteSet(U) /\ F \in [U -> Nat] /\ Adds(g, F, SUBSET U)
  BY DEF Sums
<1>1. \A s \in SUBSET U : IsFiniteSet(s)
  BY <1>0, FS_Subset
<1>2. g \in [SUBSET U -> Nat]
  BY SumTyped
<1>3. Bad = {}
  <2> SUFFICES ASSUME Bad # {} PROVE FALSE
    OBVIOUS
  <2>1. \A s \in Bad : IsFiniteSet(s) /\ s \subseteq U
    BY <1>1
  <2>2. \A s \in SUBSET U : s \notin Bad => \A y \in s : g[s] = F[y] + g[s \ {y}]
    OBVIOUS
  <2>3. \A s \in Bad : Fails(s)
    OBVIOUS
  <2> HIDE DEF Bad
  <2>4. PICK s \in Bad : \A t \in Bad : Cardinality(s) <= Cardinality(t)
    BY <2>1, LeastSet
  <2>5. PICK y \in s : g[s] # F[y] + g[s \ {y}]
    BY <2>3
  <2>6. PICK z \in s : z = Any(s)
    BY <2>5, AnyIn
  <2>7. g[s] = F[z] + g[s \ {z}] /\ y # z
    BY <1>0, <2>1, <2>5, <2>6 DEF Adds
  <2>8. s \ {y} \notin Bad /\ s \ {z} \notin Bad
    BY <2>1, <2>4, WithoutIsSmaller
  <2>9. PICK t : t = (s \ {z}) \ {y} /\ t = (s \ {y}) \ {z}
    OBVIOUS
  <2>10. g[s \ {y}] = F[z] + g[t] /\ g[s \ {z}] = F[y] + g[t]
    BY <2>1, <2>2, <2>7, <2>8, <2>9
  <2>11. F[y] \in Nat /\ F[z] \in Nat /\ g[t] \in Nat
    BY <1>0, <1>2, <2>1, <2>9
  <2>12. F[y] + g[s \ {y}] = F[z] + g[s \ {z}]
    BY <2>10, <2>11
  <2> QED
    BY <2>5, <2>7, <2>12
<1> QED
  BY <1>3

\* Sums of the same numbers are the same.
LEMMA SumSame ==
  ASSUME NEW U, NEW F, NEW g, Sums(g, F, U), NEW V, NEW G, NEW h, Sums(h, G, V),
         NEW r, r \subseteq U, r \subseteq V, \A x \in r : F[x] = G[x]
  PROVE  g[r] = h[r]
<1> DEFINE Bad == {s \in SUBSET r : g[s] # h[s]}
<1>0. IsFiniteSet(U) /\ Adds(g, F, SUBSET U) /\ Adds(h, G, SUBSET V)
  BY DEF Sums
<1>1. \A s \in SUBSET r : IsFiniteSet(s)
  BY <1>0, FS_Subset
<1>2. Bad = {}
  <2> SUFFICES ASSUME Bad # {} PROVE FALSE
    OBVIOUS
  <2>1. \A s \in Bad : IsFiniteSet(s) /\ s \subseteq r /\ g[s] # h[s]
    BY <1>1
  <2>2. \A s \in SUBSET r : s \notin Bad => g[s] = h[s]
    OBVIOUS
  <2> HIDE DEF Bad
  <2>3. PICK s \in Bad : \A t \in Bad : Cardinality(s) <= Cardinality(t)
    BY <2>1, LeastSet
  <2>4. /\ g[s] = IF s = {} THEN 0 ELSE F[Any(s)] + g[s \ {Any(s)}]
        /\ h[s] = IF s = {} THEN 0 ELSE G[Any(s)] + h[s \ {Any(s)}]
    BY <1>0, <2>1 DEF Adds
  <2>5. s # {} /\ Any(s) \in s
    BY <2>1, <2>4, AnyIn
  <2>6. s \ {Any(s)} \notin Bad
    BY <2>1, <2>3, <2>5, WithoutIsSmaller
  <2>7. g[s \ {Any(s)}] = h[s \ {Any(s)}] /\ F[Any(s)] = G[Any(s)]
    BY <2>1, <2>2, <2>5, <2>6
  <2> QED
    BY <2>1, <2>4, <2>5, <2>7
<1> QED
  BY <1>2

\* When one member x comes, goes or changes its number, the sum changes by that.
LEMMA SumChanges ==
  ASSUME NEW U, NEW F, NEW g, Sums(g, F, U), NEW G, NEW h, Sums(h, G, U),
         NEW p, p \subseteq U, NEW q, q \subseteq U, NEW x \in U, p \ {x} = q \ {x},
         \A y \in U \ {x} : F[y] = G[y]
  PROVE  /\ g[p] \in Nat /\ h[q] \in Nat
         /\ x \in p => g[p] >= F[x]
         /\ h[q] = g[p] - (IF x \in p THEN F[x] ELSE 0) + (IF x \in q THEN G[x] ELSE 0)
<1>1. /\ g \in [SUBSET U -> Nat] /\ h \in [SUBSET U -> Nat]
      /\ F[x] \in Nat /\ G[x] \in Nat
  BY SumTyped DEF Sums
<1>2. PICK r \in SUBSET U : r = p \ {x} /\ r = q \ {x}
  OBVIOUS
<1>3. g[r] = h[r]
  <2>1. \A y \in r : F[y] = G[y]
    BY <1>2
  <2>2. r \subseteq U
    OBVIOUS
  <2> QED
    BY <2>1, <2>2, SumSame
<1>4. g[p] = g[r] + (IF x \in p THEN F[x] ELSE 0)
  <2>1. CASE x \in p
    <3>1. g[p] = F[x] + g[p \ {x}]
      BY <2>1, SumWithout
    <3>2. g[p \ {x}] = g[r] /\ g[r] \in Nat
      BY <1>1, <1>2
    <3> QED
      BY <1>1, <2>1, <3>1, <3>2
  <2>2. CASE x \notin p
    <3>1. r = p
      BY <1>2, <2>2
    <3> QED
      BY <1>1, <2>2, <3>1
  <2> QED
    BY <2>1, <2>2
<1>5. h[q] = h[r] + (IF x \in q THEN G[x] ELSE 0)
  <2>1. CASE x \in q
    <3>1. h[q] = G[x] + h[q \ {x}]
      BY <2>1, SumWithout
    <3>2. h[q \ {x}] = h[r] /\ h[r] \in Nat
      BY <1>1, <1>2
    <3> QED
      BY <1>1, <2>1, <3>1, <3>2
  <2>2. CASE x \notin q
    <3>1. r = q
      BY <1>2, <2>2
    <3> QED
      BY <1>1, <2>2, <3>1
  <2> QED
    BY <2>1, <2>2
<1>6. g[r] \in Nat /\ g[p] \in Nat /\ h[q] \in Nat
  BY <1>1
<1> QED
  BY <1>1, <1>3, <1>4, <1>5, <1>6

LEMMA SumZero ==
  ASSUME NEW U, NEW F, NEW g, Sums(g, F, U), \A x \in U : F[x] = 0,
         NEW p, p \subseteq U
  PROVE  g[p] = 0
<1> DEFINE Bad == {s \in SUBSET U : g[s] # 0}
<1>0. IsFiniteSet(U) /\ Adds(g, F, SUBSET U)
  BY DEF Sums
<1>1. \A s \in SUBSET U : IsFiniteSet(s)
  BY <1>0, FS_Subset
<1>2. Bad = {}
  <2> SUFFICES ASSUME Bad # {} PROVE FALSE
    OBVIOUS
  <2>1. \A s \in Bad : IsFiniteSet(s) /\ s \subseteq U /\ g[s] # 0
    BY <1>1
  <2>2. \A s \in SUBSET U : s \notin Bad => g[s] = 0
    OBVIOUS
  <2> HIDE DEF Bad
  <2>3. PICK s \in Bad : \A t \in Bad : Cardinality(s) <= Cardinality(t)
    BY <2>1, LeastSet
  <2>4. g[s] = IF s = {} THEN 0 ELSE F[Any(s)] + g[s \ {Any(s)}]
    BY <1>0, <2>1 DEF Adds
  <2>5. s # {} /\ Any(s) \in s
    BY <2>1, <2>4, AnyIn
  <2>6. s \ {Any(s)} \notin Bad
    BY <2>1, <2>3, <2>5, WithoutIsSmaller
  <2> QED
    BY <2>1, <2>2, <2>4, <2>5, <2>6
<1> QED
  BY <1>2

-----------------------------------------------------------------------------
(* Calls, their rows and the counters *)

USE AiBudgetAssumption DEF Days, Unknown

UsageRow == [status   : {"none", "reserved", "reconciled", "failed"},
             day      : Days,
             reserved : Nat,
             billed   : Nat \cup {Unknown}]

LEMMA UsageReserved ==
  ASSUME NEW u \in UsageRow, NEW n \in Nat
  PROVE  [u EXCEPT !.status = "reserved", !.reserved = n] \in UsageRow
BY DEF UsageRow

LEMMA UsageSettled ==
  ASSUME NEW u \in UsageRow, NEW st \in {"reconciled", "failed"}, NEW b \in Nat \cup {Unknown}
  PROVE  [u EXCEPT !.status = st, !.billed = b] \in UsageRow
BY DEF UsageRow

LEMMA AdjustTyped ==
  ASSUME TypeOK, NEW scopes, NEW d \in Days, NEW delta \in Int, Adjust(scopes, d, delta)
  PROVE  tokens' \in [Scopes -> [Days -> Nat]]
BY DEF Adjust, TypeOK

LEMMA TypeInit == Init => TypeOK
BY DEF Init, TypeOK, NoUsage

LEMMA TypeNext == TypeOK /\ [Next]_vars => TypeOK'
<1> SUFFICES ASSUME TypeOK, [Next]_vars PROVE TypeOK'
  OBVIOUS
<1> USE DEF TypeOK
<1>1. CASE Midnight
  BY <1>1 DEF Midnight
<1>2. ASSUME NEW c \in Calls, Begin(c) PROVE TypeOK'
  BY <1>2, ZenonT(30) DEF Begin
<1>3. ASSUME NEW c \in Calls, NEW n \in Estimates, Reserve(c, n) PROVE TypeOK'
  <2>1. usage[c].day \in Days /\ n \in Int
    OBVIOUS
  <2>2. tokens' \in [Scopes -> [Days -> Nat]]
    BY <1>3, <2>1, AdjustTyped DEF Reserve
  <2>3. usage' = [usage EXCEPT ![c] = [@ EXCEPT !.status = "reserved", !.reserved = n]]
    BY <1>3 DEF Reserve
  <2>4. [usage[c] EXCEPT !.status = "reserved", !.reserved = n] \in UsageRow
    BY UsageReserved DEF UsageRow
  <2>5. usage' \in [Calls -> UsageRow]
    BY <2>3, <2>4 DEF UsageRow
  <2>6. /\ UNCHANGED <<today, answer>>
        /\ pc' = [pc EXCEPT ![c] = "waiting"]
    BY <1>3 DEF Reserve
  <2> QED
    BY <2>2, <2>5, <2>6 DEF UsageRow
<1>4. ASSUME NEW c \in Calls, NEW n \in Estimates, Refuse(c, n) PROVE TypeOK'
  BY <1>4 DEF Refuse
<1>5. ASSUME NEW c \in Calls, Acquire(c) \/ Die(c) PROVE TypeOK'
  BY <1>5 DEF Acquire, Die
<1>6. ASSUME NEW c \in Calls, NEW failed \in BOOLEAN, NEW billed \in Bills \cup {Unknown},
             Return(c, failed, billed)
      PROVE  TypeOK'
  <2>1. answer' \in [Calls -> [failed : BOOLEAN, billed : Nat \cup {Unknown}]]
    BY <1>6, Zenon DEF Return
  <2> QED
    BY <1>6, <2>1 DEF Return
<1>7. ASSUME NEW c \in Calls, Reconcile(c) PROVE TypeOK'
  <2>1. ChargedDay(c) \in Days /\ Correction(c) \in Int
    BY DEF ChargedDay, Correction
  <2>2. tokens' \in [Scopes -> [Days -> Nat]]
    BY <1>7, <2>1, AdjustTyped DEF Reconcile
  <2> DEFINE outcome == IF answer[c].failed THEN "failed" ELSE "reconciled"
  <2>3. outcome \in {"failed", "reconciled"}
    BY Zenon
  <2> HIDE DEF outcome
  <2>4. usage' = [usage EXCEPT ![c] = [@ EXCEPT !.status = outcome, !.billed = answer[c].billed]]
    BY <1>7 DEF Reconcile, outcome
  <2>5. [usage[c] EXCEPT !.status = outcome, !.billed = answer[c].billed] \in UsageRow
    <3>1. usage[c] \in UsageRow /\ answer[c].billed \in Nat \cup {Unknown}
      BY DEF UsageRow
    <3> HIDE DEF TypeOK, Unknown, Days
    <3> QED
      BY <3>1, <2>3, UsageSettled
  <2>6. usage' \in [Calls -> UsageRow]
    BY <2>4, <2>5 DEF UsageRow
  <2>7. /\ UNCHANGED <<today, answer>>
        /\ pc' = [pc EXCEPT ![c] = "ended"]
    BY <1>7 DEF Reconcile
  <2> QED
    BY <2>2, <2>6, <2>7 DEF UsageRow
<1>8. CASE UNCHANGED vars
  BY <1>8 DEF vars
<1> QED
  BY <1>1, <1>2, <1>3, <1>4, <1>5, <1>6, <1>7, <1>8 DEF Next, Step

\* The counters stay natural numbers and every record keeps its shape.
THEOREM TypeCorrect == Spec => []TypeOK
BY TypeInit, TypeNext, PTL DEF Spec

-----------------------------------------------------------------------------
(* The limits *)

NoOverbilling == \A c \in Calls : ~Overbilled(c)

Reserved == {"waiting", "calling", "answered"}

\* The row of a call that holds a reservation says so, and no bill yet; a row
\* without one says nothing.
Rows ==
  \A c \in Calls :
    /\ pc[c] \in {"idle", "dated"} => usage[c].reserved = 0 /\ usage[c].billed = Unknown
    /\ pc[c] \in Reserved => usage[c].billed = Unknown

LimitInv == TypeOK /\ Rows /\ WithinLimit

LEMMA RowsNext == ASSUME LimitInv, [Next]_vars PROVE Rows'
<1> USE DEF LimitInv, TypeOK, Rows, Reserved
<1>1. CASE Midnight \/ UNCHANGED vars
  BY <1>1 DEF Midnight, vars
<1>2. ASSUME NEW c \in Calls, Begin(c) \/ Acquire(c) \/ Die(c) PROVE Rows'
  BY <1>2 DEF Begin, Acquire, Die
<1>3. ASSUME NEW c \in Calls, NEW n \in Estimates, Reserve(c, n) \/ Refuse(c, n) PROVE Rows'
  BY <1>3 DEF Reserve, Refuse
<1>4. ASSUME NEW c \in Calls, NEW failed \in BOOLEAN, NEW billed \in Bills \cup {Unknown},
             Return(c, failed, billed)
      PROVE  Rows'
  BY <1>4 DEF Return
<1>5. ASSUME NEW c \in Calls, Reconcile(c) PROVE Rows'
  BY <1>5 DEF Reconcile
<1> QED
  BY <1>1, <1>2, <1>3, <1>4, <1>5 DEF Next, Step

\* A bill above its estimate stays in the books.
LEMMA OverbillingStays == ASSUME LimitInv, [Next]_vars, NoOverbilling' PROVE NoOverbilling
<1> SUFFICES ASSUME NEW k \in Calls, Overbilled(k) PROVE Overbilled(k)'
  BY DEF NoOverbilling
<1> USE DEF LimitInv, TypeOK, Rows, Reserved, Overbilled, Unknown
<1>1. pc[k] \notin {"idle", "dated"} \cup Reserved
  OBVIOUS
<1>2. ASSUME NEW c \in Calls, Step(c) PROVE usage'[k] = usage[k]
  BY <1>1, <1>2 DEF Step, Begin, Reserve, Refuse, Acquire, Return, Reconcile
<1>3. ASSUME NEW c \in Calls, Midnight \/ Die(c) \/ UNCHANGED vars PROVE usage'[k] = usage[k]
  BY <1>3 DEF Midnight, Die, vars
<1> QED
  BY <1>2, <1>3 DEF Next

\* Only a reservation adds to a budget, and it looked first.
LEMMA WithinNext == ASSUME LimitInv, [Next]_vars PROVE WithinLimit'
<1> USE DEF LimitInv, TypeOK
<1> SUFFICES ASSUME NoOverbilling',
                    NEW s \in Scopes, NEW d \in Days
             PROVE  tokens'[s][d] <= Limit(s)
  BY DEF WithinLimit, NoOverbilling, Limit, Overbilled
<1>1. tokens[s][d] <= Limit(s)
  BY OverbillingStays DEF WithinLimit, NoOverbilling
<1>2. ASSUME NEW c \in Calls, NEW n \in Estimates, Reserve(c, n)
      PROVE  tokens'[s][d] <= Limit(s)
  <2> DEFINE day == usage[c].day
  <2>1. \A t \in ScopesOf(c) : tokens[t][day] + n <= Limit(t)
    BY <1>2 DEF Reserve, Fits
  <2>2. /\ day \in Days /\ n \in Nat /\ ScopesOf(c) \subseteq Scopes
        /\ \A t \in Scopes, e \in Days : tokens[t][e] \in Nat
    <3>1. day \in Days /\ n \in Nat
      BY DEF UsageRow
    <3>2. WorkspaceOf[c] \in Workspaces
      OBVIOUS
    <3>3. ScopesOf(c) \subseteq Scopes
      BY <3>2 DEF ScopesOf, Scopes
    <3>4. tokens \in [Scopes -> [Days -> Nat]]
      OBVIOUS
    <3> QED
      BY <3>1, <3>3, <3>4
  <2>3. Adjust(ScopesOf(c), day, n)
    BY <1>2 DEF Reserve
  <2>4. CASE s \in ScopesOf(c) /\ d = day
    <3>1. tokens'[s][d] = tokens[s][d] + n
      BY <2>2, <2>3, <2>4 DEF Adjust
    <3> QED
      BY <3>1, <2>1, <2>4
  <2>5. CASE ~(s \in ScopesOf(c) /\ d = day)
    <3>1. tokens'[s][d] = tokens[s][d]
      BY <2>3, <2>5 DEF Adjust
    <3> QED
      BY <3>1, <1>1
  <2> QED
    BY <2>4, <2>5
<1>3. ASSUME NEW c \in Calls, Reconcile(c) PROVE tokens'[s][d] <= Limit(s)
  <2>1. usage'[c].billed = answer[c].billed /\ usage'[c].reserved = usage[c].reserved
    BY <1>3 DEF Reconcile
  <2>2. ~(answer[c].billed > usage[c].reserved)
    BY <2>1 DEF NoOverbilling, Overbilled
  <2>3. Correction(c) \in Int /\ Correction(c) <= 0
    BY <2>2 DEF Correction, Unknown
  <2>4. Limit(s) \in Nat
    BY DEF Limit, Scopes
  <2> QED
    BY <1>1, <1>3, <2>3, <2>4 DEF Reconcile, Adjust, ChargedDay
<1>4. \/ UNCHANGED tokens
      \/ \E c \in Calls, n \in Estimates : Reserve(c, n)
      \/ \E c \in Calls : Reconcile(c)
  BY DEF Next, Step, Midnight, Begin, Refuse, Acquire, Return, Die, vars
<1> QED
  BY <1>1, <1>2, <1>3, <1>4

\* As long as no call was billed more than its estimate, no workspace and not
\* the operator as a whole goes beyond the daily limit, however many calls
\* reserve at once, around midnight, and with whatever outcome.
THEOREM LimitsHold == Spec => []WithinLimit
<1>1. Init => LimitInv
  <2>1. Init => TypeOK
    BY TypeInit
  <2>2. Init => Rows /\ WithinLimit
    BY DEF Init, Rows, Reserved, WithinLimit, Limit, NoUsage
  <2> QED
    BY <2>1, <2>2 DEF LimitInv
<1>2. LimitInv /\ [Next]_vars => LimitInv'
  BY TypeNext, RowsNext, WithinNext DEF LimitInv
<1>3. LimitInv => WithinLimit
  BY DEF LimitInv
<1> QED
  BY <1>1, <1>2, <1>3, PTL DEF Spec

-----------------------------------------------------------------------------
(* The books *)

ChargesOf(S) == [c \in S |-> Charge(c)]

LEMMA ChargesTyped == TypeOK => \A S \in SUBSET Calls : ChargesOf(S) \in [S -> Nat]
BY DEF TypeOK, ChargesOf, Charge

\* MapThenSumSet is such a sum.
LEMMA ChargesAdded ==
  ASSUME TypeOK, NEW S, IsFiniteSet(S), S \subseteq Calls
  PROVE  \E g : Sums(g, ChargesOf(S), S) /\ MapThenSumSet(Charge, S) = g[S]
<1> DEFINE Added(g) == g = [s \in SUBSET S |->
                              IF s = {} THEN 0 ELSE Charge(CHOOSE x \in s : TRUE)
                                                    + g[s \ {CHOOSE x \in s : TRUE}]]
           h == CHOOSE g : Added(g)
<1>1. ASSUME NEW g PROVE Added(g) <=> Adds(g, ChargesOf(S), SUBSET S)
  <2>1. \A s \in SUBSET S : s # {} => ChargesOf(S)[Any(s)] = Charge(CHOOSE x \in s : TRUE)
    BY AnyIn DEF Any, ChargesOf
  <2> DEFINE a(s) == IF s = {} THEN 0 ELSE ChargesOf(S)[Any(s)] + g[s \ {Any(s)}]
             b(s) == IF s = {} THEN 0 ELSE Charge(CHOOSE x \in s : TRUE)
                                           + g[s \ {CHOOSE x \in s : TRUE}]
  <2>2. \A s \in SUBSET S : a(s) = b(s)
    BY <2>1 DEF Any
  <2>3. Adds(g, ChargesOf(S), SUBSET S) <=> g = [s \in SUBSET S |-> a(s)]
    BY DEF Adds
  <2>4. Added(g) <=> g = [s \in SUBSET S |-> b(s)]
    OBVIOUS
  <2> HIDE DEF a, b, Added
  <2>5. [s \in SUBSET S |-> a(s)] = [s \in SUBSET S |-> b(s)]
    BY <2>2
  <2> QED
    BY <2>3, <2>4, <2>5
<1>2. MapThenSumSet(Charge, S) = h[S]
  BY DEF MapThenSumSet, MapThenFoldSet
<1> HIDE DEF Added
<1>3. PICK g : Adds(g, ChargesOf(S), SUBSET S)
  <2> DEFINE F == ChargesOf(S)
  <2> HIDE DEF F
  <2>1. \E g : Adds(g, F, SUBSET S)
    BY SumExists
  <2> QED
    BY <2>1 DEF F
<1>4. \E i : Added(i)
  BY <1>1, <1>3
<1>5. Added(h)
  BY <1>4
<1>6. Sums(h, ChargesOf(S), S)
  BY <1>1, <1>5, ChargesTyped DEF Sums
<1> QED
  BY <1>2, <1>6

CallsOf(s, d) == {c \in Calls : s \in ScopesOf(c) /\ usage[c].day = d}

\* Each counter is the sum of the charges of its calls.
Booked ==
  \E g : /\ Sums(g, ChargesOf(Calls), Calls)
         /\ \A s \in Scopes, d \in Days : tokens[s][d] = g[CallsOf(s, d)]

LEMMA BookedImplies == ASSUME TypeOK, Booked PROVE BudgetMatchesUsage
<1>1. PICK g : /\ Sums(g, ChargesOf(Calls), Calls)
               /\ \A s \in Scopes, d \in Days : tokens[s][d] = g[CallsOf(s, d)]
  BY DEF Booked
<1> SUFFICES ASSUME NEW s \in Scopes, NEW d \in Days
             PROVE  tokens[s][d] = MapThenSumSet(Charge, CallsOf(s, d))
  BY DEF BudgetMatchesUsage, CallsOf
<1>2. PICK S : S = CallsOf(s, d)
  OBVIOUS
<1>3. S \subseteq Calls /\ IsFiniteSet(S)
  BY <1>1, <1>2, FS_Subset DEF CallsOf, Sums
<1>4. PICK h : Sums(h, ChargesOf(S), S) /\ MapThenSumSet(Charge, S) = h[S]
  BY <1>3, ChargesAdded
<1>5. \A c \in S : ChargesOf(Calls)[c] = ChargesOf(S)[c]
  BY <1>3 DEF ChargesOf
<1>6. g[S] = h[S]
  BY <1>1, <1>3, <1>4, <1>5, SumSame
<1> QED
  BY <1>1, <1>2, <1>4, <1>6

\* A call that waits, is made or answered holds its reservation.
Held == \A c \in Calls : pc[c] \in Reserved => usage[c].status = "reserved"

LEMMA HeldNext == ASSUME TypeOK, Held, [Next]_vars PROVE Held'
<1> USE DEF TypeOK, Held, Reserved
<1>1. CASE Midnight \/ UNCHANGED vars
  BY <1>1 DEF Midnight, vars
<1>2. ASSUME NEW c \in Calls, Begin(c) \/ Acquire(c) \/ Die(c) PROVE Held'
  BY <1>2 DEF Begin, Acquire, Die
<1>3. ASSUME NEW c \in Calls, NEW n \in Estimates, Reserve(c, n) \/ Refuse(c, n) PROVE Held'
  BY <1>3 DEF Reserve, Refuse
<1>4. ASSUME NEW c \in Calls, NEW failed \in BOOLEAN, NEW billed \in Bills \cup {Unknown},
             Return(c, failed, billed)
      PROVE  Held'
  BY <1>4 DEF Return
<1>5. ASSUME NEW c \in Calls, Reconcile(c) PROVE Held'
  BY <1>5 DEF Reconcile
<1> QED
  BY <1>1, <1>2, <1>3, <1>4, <1>5 DEF Next, Step

\* When one call changes its charge or its day, the sums of its old and of its
\* new day change by as much.
LEMMA BooksMove ==
  ASSUME TypeOK, TypeOK', Booked, NEW c \in Calls,
         \A k \in Calls \ {c} : usage'[k] = usage[k]
  PROVE  \E h : /\ Sums(h, ChargesOf(Calls)', Calls)
                /\ \A s \in Scopes, d \in Days :
                     /\ c \in CallsOf(s, d) => tokens[s][d] >= Charge(c)
                     /\ h[CallsOf(s, d)'] = tokens[s][d]
                          - (IF c \in CallsOf(s, d) THEN Charge(c) ELSE 0)
                          + (IF c \in CallsOf(s, d)' THEN Charge(c)' ELSE 0)
<1>1. PICK g : /\ Sums(g, ChargesOf(Calls), Calls)
               /\ \A s \in Scopes, d \in Days : tokens[s][d] = g[CallsOf(s, d)]
  BY DEF Booked
<1>2. PICK F : F = ChargesOf(Calls)
  OBVIOUS
<1>3. PICK G : G = ChargesOf(Calls)'
  OBVIOUS
<1>4. Sums(g, F, Calls)
  BY <1>1, <1>2
<1>5. PICK h : Sums(h, G, Calls)
  <2>1. G \in [Calls -> Nat]
    BY <1>3 DEF TypeOK, ChargesOf, Charge
  <2>2. IsFiniteSet(Calls)
    BY <1>4 DEF Sums
  <2> QED
    BY <2>1, <2>2, SumExists DEF Sums
<1>6. \A k \in Calls \ {c} : F[k] = G[k]
  BY <1>2, <1>3 DEF ChargesOf, Charge
<1>7. F[c] = Charge(c) /\ G[c] = Charge(c)'
  BY <1>2, <1>3 DEF ChargesOf
<1>8. ASSUME NEW s \in Scopes, NEW d \in Days
      PROVE  /\ c \in CallsOf(s, d) => tokens[s][d] >= Charge(c)
             /\ h[CallsOf(s, d)'] = tokens[s][d]
                  - (IF c \in CallsOf(s, d) THEN Charge(c) ELSE 0)
                  + (IF c \in CallsOf(s, d)' THEN Charge(c)' ELSE 0)
  <2>1. PICK p : p = CallsOf(s, d)
    OBVIOUS
  <2>2. PICK q : q = CallsOf(s, d)'
    OBVIOUS
  <2>3. p \subseteq Calls /\ q \subseteq Calls
    BY <2>1, <2>2 DEF CallsOf
  <2>4. p \ {c} = q \ {c}
    BY <2>1, <2>2 DEF CallsOf
  <2>5. /\ c \in p => g[p] >= F[c]
        /\ h[q] = g[p] - (IF c \in p THEN F[c] ELSE 0) + (IF c \in q THEN G[c] ELSE 0)
    BY <1>4, <1>5, <1>6, <2>3, <2>4, SumChanges
  <2>6. tokens[s][d] = g[p]
    BY <1>1, <2>1
  <2> QED
    BY <1>7, <2>1, <2>2, <2>5, <2>6
<1>9. Sums(h, ChargesOf(Calls)', Calls)
  BY <1>3, <1>5
<1> QED
  BY <1>8, <1>9

\* The counters move as the charge of the call whose day stays.
LEMMA BooksAdjusted ==
  ASSUME TypeOK, TypeOK', Booked, NEW c \in Calls,
         \A k \in Calls \ {c} : usage'[k] = usage[k], usage'[c].day = usage[c].day,
         Adjust(ScopesOf(c), usage[c].day, Charge(c)' - Charge(c))
  PROVE  Booked'
<1>1. PICK h : /\ Sums(h, ChargesOf(Calls)', Calls)
               /\ \A s \in Scopes, d \in Days :
                    /\ c \in CallsOf(s, d) => tokens[s][d] >= Charge(c)
                    /\ h[CallsOf(s, d)'] = tokens[s][d]
                         - (IF c \in CallsOf(s, d) THEN Charge(c) ELSE 0)
                         + (IF c \in CallsOf(s, d)' THEN Charge(c)' ELSE 0)
  BY BooksMove
<1>2. PICK before \in Nat : before = Charge(c)
  BY DEF TypeOK, Charge
<1>3. PICK after \in Nat : after = Charge(c)'
  BY DEF TypeOK, Charge
<1>4. ASSUME NEW s \in Scopes, NEW d \in Days PROVE tokens'[s][d] = h[CallsOf(s, d)']
  <2>1. PICK n \in Nat : n = tokens[s][d]
    <3>1. tokens[s] \in [Days -> Nat]
      BY DEF TypeOK
    <3> QED
      BY <3>1
  <2>2. c \in CallsOf(s, d)' <=> c \in CallsOf(s, d)
    BY DEF CallsOf, ScopesOf
  <2>3. /\ c \in CallsOf(s, d) => n >= before
        /\ h[CallsOf(s, d)'] = n - (IF c \in CallsOf(s, d) THEN before ELSE 0)
                                 + (IF c \in CallsOf(s, d) THEN after ELSE 0)
    BY <1>1, <1>2, <1>3, <2>1, <2>2
  <2>4. Adjust(ScopesOf(c), usage[c].day, after - before)
    BY <1>2, <1>3
  <2>5. CASE c \in CallsOf(s, d)
    <3>1. s \in ScopesOf(c) /\ usage[c].day = d
      BY <2>5 DEF CallsOf
    <3>2. n >= before
      BY <2>3, <2>5
    <3>3. tokens'[s][d] = n + (after - before)
      <4>1. s \in ScopesOf(c) /\ usage[c].day = d /\ tokens[s] \in [Days -> Nat]
        BY <3>1 DEF TypeOK
      <4>2. tokens'[s] = [tokens[s] EXCEPT ![d] = IF @ + (after - before) < 0 THEN 0
                                                  ELSE @ + (after - before)]
        BY <2>4, <4>1 DEF Adjust
      <4>3. tokens'[s][d] = IF n + (after - before) < 0 THEN 0 ELSE n + (after - before)
        BY <2>1, <4>1, <4>2
      <4> QED
        BY <3>2, <4>3
    <3>4. h[CallsOf(s, d)'] = n - before + after
      BY <2>3, <2>5
    <3> QED
      BY <3>3, <3>4
  <2>6. CASE c \notin CallsOf(s, d)
    <3>1. ~(s \in ScopesOf(c) /\ usage[c].day = d)
      BY <2>6 DEF CallsOf
    <3>2. tokens'[s][d] = n
      BY <2>1, <2>4, <3>1 DEF Adjust, TypeOK
    <3>3. h[CallsOf(s, d)'] = n
      BY <2>3, <2>6
    <3> QED
      BY <3>2, <3>3
  <2> QED
    BY <2>5, <2>6
<1> QED
  BY <1>1, <1>4 DEF Booked

LEMMA BookedNext == ASSUME TypeOK, Rows, Held, Booked, [Next]_vars PROVE Booked'
<1>0. TypeOK'
  BY TypeNext
<1>1. ASSUME NEW c \in Calls, Begin(c) PROVE Booked'
  <2>1. /\ \A k \in Calls \ {c} : usage'[k] = usage[k]
        /\ usage'[c] = [usage[c] EXCEPT !.day = today] /\ tokens' = tokens
    BY <1>1 DEF Begin, TypeOK
  <2>2. Charge(c) = 0 /\ Charge(c)' = 0
    <3>1. usage[c].reserved = 0 /\ usage[c].billed = Unknown
      BY <1>1 DEF Begin, Rows
    <3>2. usage'[c].reserved = 0 /\ usage'[c].billed = Unknown
      BY <2>1, <3>1 DEF TypeOK
    <3> QED
      BY <3>1, <3>2 DEF Charge
  <2>3. PICK h : /\ Sums(h, ChargesOf(Calls)', Calls)
                 /\ \A s \in Scopes, d \in Days : h[CallsOf(s, d)'] = tokens[s][d]
    <3>1. PICK h : /\ Sums(h, ChargesOf(Calls)', Calls)
                   /\ \A s \in Scopes, d \in Days :
                        h[CallsOf(s, d)'] = tokens[s][d]
                          - (IF c \in CallsOf(s, d) THEN Charge(c) ELSE 0)
                          + (IF c \in CallsOf(s, d)' THEN Charge(c)' ELSE 0)
      BY <1>0, <2>1, BooksMove
    <3>2. \A s \in Scopes, d \in Days : tokens[s][d] \in Nat
      BY DEF TypeOK
    <3> QED
      BY <2>2, <3>1, <3>2
  <2> QED
    BY <2>1, <2>3 DEF Booked
<1>2. ASSUME NEW c \in Calls, NEW n \in Estimates, Reserve(c, n) PROVE Booked'
  <2>1. /\ \A k \in Calls \ {c} : usage'[k] = usage[k]
        /\ usage'[c] = [usage[c] EXCEPT !.status = "reserved", !.reserved = n]
        /\ Adjust(ScopesOf(c), usage[c].day, n) /\ n \in Nat
    BY <1>2 DEF Reserve, TypeOK
  <2>2. Charge(c) = 0 /\ Charge(c)' = n
    <3>1. usage[c].reserved = 0 /\ usage[c].billed = Unknown
      BY <1>2 DEF Reserve, Rows
    <3>2. /\ usage'[c].reserved = n /\ usage'[c].billed = Unknown
          /\ usage'[c].status = "reserved"
      BY <2>1, <3>1 DEF TypeOK
    <3> QED
      BY <3>1, <3>2 DEF Charge
  <2>3. usage'[c].day = usage[c].day /\ Charge(c)' - Charge(c) = n
    BY <2>1, <2>2 DEF TypeOK
  <2> QED
    BY <1>0, <2>1, <2>3, BooksAdjusted
<1>3. ASSUME NEW c \in Calls, Reconcile(c) PROVE Booked'
  <2> DEFINE st == IF answer[c].failed THEN "failed" ELSE "reconciled"
  <2>1. /\ \A k \in Calls \ {c} : usage'[k] = usage[k]
        /\ usage'[c] = [usage[c] EXCEPT !.status = st, !.billed = answer[c].billed]
        /\ Adjust(ScopesOf(c), usage[c].day, Correction(c))
    BY <1>3 DEF Reconcile, TypeOK, ChargedDay
  <2>2. Charge(c) = usage[c].reserved /\ usage[c].billed = Unknown
    BY <1>3 DEF Reconcile, Rows, Held, Reserved, Charge
  <2>3. Correction(c) = Charge(c)' - Charge(c)
    <3>1. /\ usage'[c].reserved = usage[c].reserved /\ usage'[c].billed = answer[c].billed
          /\ usage'[c].status # "none"
      BY <2>1 DEF TypeOK
    <3>2. usage[c].reserved \in Nat /\ answer[c].billed \in Nat \cup {Unknown}
      BY DEF TypeOK
    <3> QED
      BY <2>2, <3>1, <3>2 DEF Correction, Charge
  <2>4. usage'[c].day = usage[c].day
    BY <2>1 DEF TypeOK
  <2> QED
    BY <1>0, <2>1, <2>3, <2>4, BooksAdjusted
<1>4. CASE UNCHANGED <<usage, tokens>>
  <2>1. ChargesOf(Calls)' = ChargesOf(Calls)
    BY <1>4 DEF ChargesOf, Charge
  <2>2. \A s \in Scopes, d \in Days : CallsOf(s, d)' = CallsOf(s, d)
    BY <1>4 DEF CallsOf, ScopesOf
  <2>3. PICK g : /\ Sums(g, ChargesOf(Calls), Calls)
                 /\ \A s \in Scopes, d \in Days : tokens[s][d] = g[CallsOf(s, d)]
    BY DEF Booked
  <2> QED
    BY <1>4, <2>1, <2>2, <2>3 DEF Booked
<1>5. \/ UNCHANGED <<usage, tokens>>
      \/ \E c \in Calls : Begin(c)
      \/ \E c \in Calls, n \in Estimates : Reserve(c, n)
      \/ \E c \in Calls : Reconcile(c)
  BY DEF Next, Step, Midnight, Refuse, Acquire, Return, Die, vars
<1> QED
  BY <1>1, <1>2, <1>3, <1>4, <1>5

\* The counters are the sums of what the calls of their day are charged: what
\* was billed, or the reservation while that is not known.  A reservation, its
\* correction and a failure change both alike, also after midnight, and no
\* counter is cut at zero (ai.py reserve, reconcile).
THEOREM BooksBalance == ASSUME IsFiniteSet(Calls) PROVE Spec => []BudgetMatchesUsage
<1> DEFINE Inv == LimitInv /\ Held /\ Booked
<1>1. Init => Inv
  <2> SUFFICES ASSUME Init PROVE Inv
    OBVIOUS
  <2>1. TypeOK
    BY TypeInit
  <2>2. Rows /\ WithinLimit /\ Held
    BY DEF Init, Rows, Reserved, WithinLimit, Limit, NoUsage, Held
  <2>3. Booked
    <3>1. \A c \in Calls : Charge(c) = 0
      BY DEF Init, NoUsage, Charge
    <3>2. PICK g : Sums(g, ChargesOf(Calls), Calls)
      BY <2>1, ChargesTyped, SumExists DEF Sums
    <3>3. \A p \in SUBSET Calls : g[p] = 0
      BY <3>1, <3>2, SumZero DEF ChargesOf
    <3>4. \A s \in Scopes, d \in Days : CallsOf(s, d) \in SUBSET Calls /\ tokens[s][d] = 0
      BY DEF Init, CallsOf
    <3> QED
      BY <3>2, <3>3, <3>4 DEF Booked
  <2> QED
    BY <2>1, <2>2, <2>3 DEF LimitInv
<1>2. Inv /\ [Next]_vars => Inv'
  BY TypeNext, RowsNext, WithinNext, HeldNext, BookedNext DEF LimitInv
<1>3. Inv => BudgetMatchesUsage
  BY BookedImplies DEF LimitInv
<1> QED
  BY <1>1, <1>2, <1>3, PTL DEF Spec

-----------------------------------------------------------------------------
(* Theorems about Cutover, for every number of chunks, spaces and           *)
(* administrators, any batch, and any number of saves and mishaps.          *)

HIDE AiBudgetAssumption DEF Days, Unknown

CONSTANTS Chunks, Spaces, Admins, First, Batch, MaxSaves, MaxMishaps

VARIABLES active, pending, enabled, revision, edits, raced, form, snapshot,
          chunks, embeddings, job, at, item, targets, saves, mishaps

C == INSTANCE Cutover WITH pc <- at

LEMMA SameCardinality == ASSUME NEW S PROVE C!Cardinality(S) = Cardinality(S)
BY DEF C!Cardinality, Cardinality

-----------------------------------------------------------------------------
(* Types.  A save that raced may take the revision back, but never beyond   *)
(* the number of edits.                                                     *)

Form == [space : Spaces, revision : 0..edits, edits : 0..edits, step : {"test", "write"},
         current : 0..edits, staged : BOOLEAN]

AtMostOne(S) == S = {} \/ \E x \in S : S = {x}

SettingsTyped ==
  /\ First \in Spaces
  /\ active \in Spaces /\ pending \in Spaces \cup {C!None}
  /\ enabled \in BOOLEAN /\ raced \in BOOLEAN
  /\ edits \in Nat /\ revision \in 0..edits

FormsTyped ==
  /\ form \in [Admins -> SUBSET Form]
  /\ \A a \in Admins : AtMostOne(form[a])

ChunksTyped ==
  /\ chunks \subseteq Chunks /\ embeddings \subseteq chunks \X Spaces

WorkerTyped ==
  /\ snapshot \in Spaces \cup {C!Off}
  /\ targets \subseteq Spaces
  /\ \/ at \in {"idle", "check", "promote"} /\ item = {}
     \/ at \in {"rebuild", "embed"} /\ \E p \in C!Pairs : item = {p}

JobsTyped ==
  /\ job \in [C!Pairs -> {"none", "queued", "gone", "running", "done", "failed"}]
  /\ \A p \in C!Pairs : job[p] = "running" <=> at = "embed" /\ p \in item

Types == SettingsTyped /\ FormsTyped /\ ChunksTyped /\ WorkerTyped /\ JobsTyped

LEMMA TypesImply == Types => C!TypeOK
<1> SUFFICES ASSUME Types PROVE C!TypeOK
  OBVIOUS
<1>1. ASSUME NEW a \in Admins
      PROVE  /\ Cardinality(form[a]) <= 1
             /\ \A f \in form[a] : /\ f.space \in Spaces /\ f.revision \in 0..edits
                                   /\ f.step \in {"test", "write"} /\ f.staged \in BOOLEAN
  <2>1. form[a] = {} \/ \E f \in form[a] : form[a] = {f}
    BY DEF Types, FormsTyped, AtMostOne
  <2>2. Cardinality(form[a]) <= 1
    <3>1. CASE form[a] = {}
      BY <3>1, FS_EmptySet
    <3>2. CASE \E f \in form[a] : form[a] = {f}
      <4>1. PICK f : form[a] = {f}
        BY <3>2
      <4>2. Cardinality({f}) = 1
        BY FS_Singleton
      <4> QED
        BY <4>1, <4>2
    <3> QED
      BY <2>1, <3>1, <3>2
  <2>3. \A f \in form[a] : f \in Form
    BY DEF Types, FormsTyped
  <2> QED
    BY <2>2, <2>3 DEF Form
<1>2. /\ at \in {"idle", "rebuild", "embed", "check", "promote"}
      /\ item \subseteq C!Pairs
      /\ Cardinality(item) = (IF at \in {"rebuild", "embed"} THEN 1 ELSE 0)
  <2>1. CASE at \in {"idle", "check", "promote"} /\ item = {}
    BY <2>1, FS_EmptySet
  <2>2. CASE at \in {"rebuild", "embed"} /\ \E p \in C!Pairs : item = {p}
    <3>1. PICK p \in C!Pairs : item = {p}
      BY <2>2
    <3>2. Cardinality({p}) = 1
      BY FS_Singleton
    <3> QED
      BY <2>2, <3>1, <3>2
  <2> QED
    BY <2>1, <2>2 DEF Types, WorkerTyped
<1>3. /\ active \in Spaces /\ pending \in Spaces \cup {C!None}
      /\ enabled \in BOOLEAN /\ raced \in BOOLEAN
      /\ revision \in 0..edits /\ edits \in Nat
  BY DEF Types, SettingsTyped
<1>4. /\ snapshot \in Spaces \cup {C!Off}
      /\ chunks \subseteq Chunks /\ embeddings \subseteq chunks \X Spaces
      /\ targets \subseteq Spaces
  BY DEF Types, ChunksTyped, WorkerTyped
<1>5. /\ job \in [C!Pairs -> {"none", "queued", "gone", "running", "done", "failed"}]
      /\ \A p \in C!Pairs : job[p] = "running" <=> at = "embed" /\ p \in item
  BY DEF Types, JobsTyped
<1> QED
  BY <1>1, <1>2, <1>3, <1>4, <1>5, SameCardinality, Zenon DEF C!TypeOK

LEMMA TypesInit == First \in Spaces /\ C!Init => Types
<1> SUFFICES ASSUME First \in Spaces, C!Init PROVE Types
  OBVIOUS
<1>3. SettingsTyped
  <2>1. /\ active \in Spaces /\ pending \in Spaces \cup {C!None}
        /\ edits \in Nat /\ revision \in 0..edits
    BY DEF C!Init
  <2>2. enabled \in BOOLEAN /\ raced \in BOOLEAN
    BY DEF C!Init
  <2> QED
    BY <2>1, <2>2 DEF SettingsTyped
<1>4. FormsTyped
  BY DEF C!Init, FormsTyped, AtMostOne
<1>1. ChunksTyped /\ WorkerTyped
  BY DEF C!Init, ChunksTyped, WorkerTyped
<1>2. JobsTyped
  BY DEF C!Init, JobsTyped
<1> QED
  BY <1>1, <1>2, <1>3, <1>4 DEF Types

\* The forms keep their types when the edits grow, or one of them is replaced.
LEMMA FormsStay ==
  ASSUME SettingsTyped, FormsTyped, edits' \in Nat, edits' >= edits, UNCHANGED form
  PROVE  FormsTyped'
<1>1. \A f \in Form : f \in Form'
  BY DEF Form, SettingsTyped
<1> QED
  BY <1>1 DEF FormsTyped

LEMMA FormsReplaced ==
  ASSUME SettingsTyped, FormsTyped, edits' \in Nat, edits' >= edits,
         NEW a \in Admins, NEW S, S = {} \/ \E f \in Form : S = {f},
         form' = [form EXCEPT ![a] = S]
  PROVE  FormsTyped'
<1>1. \A f \in Form : f \in Form'
  BY DEF Form, SettingsTyped
<1>2. S \in SUBSET Form /\ AtMostOne(S)
  BY DEF AtMostOne
<1> QED
  BY <1>1, <1>2 DEF FormsTyped

LEMMA SettingsNext ==
  ASSUME Types, [C!Next]_(C!vars)
  PROVE  SettingsTyped' /\ edits' >= edits
<1>0. SettingsTyped /\ \A a \in Admins : \A f \in form[a] : f \in Form
  BY DEF Types, FormsTyped
<1>1. ASSUME NEW a \in Admins, NEW f \in form[a], C!WriteSave(a, f)
      PROVE  SettingsTyped' /\ edits' >= edits
  <2>1. f.space \in Spaces /\ f.current \in 0..edits
    BY <1>0 DEF Form
  <2>2. active' \in Spaces /\ pending' \in Spaces \cup {C!None}
    BY <1>0, <1>1, <2>1 DEF C!WriteSave, SettingsTyped
  <2>3. enabled' = TRUE /\ revision' = f.current + 1 /\ edits' = edits + 1
    BY <1>1 DEF C!WriteSave
  <2>4. raced' \in BOOLEAN
    BY <1>1, Zenon DEF C!WriteSave
  <2> QED
    BY <1>0, <2>1, <2>2, <2>3, <2>4 DEF SettingsTyped
<1>2. ASSUME C!Switch
      PROVE  raced' \in BOOLEAN /\ UNCHANGED <<active, revision>> /\ edits' = edits + 1
  BY <1>2, Zenon DEF C!Switch
<1>3. CASE C!Disable \/ C!CancelPending
  <2>1. pending' \in {C!None, pending} /\ C!Switch
    BY <1>3 DEF C!Disable, C!CancelPending
  <2>2. enabled' \in BOOLEAN
    BY <1>0, <1>3 DEF C!Disable, C!CancelPending, SettingsTyped
  <2>3. UNCHANGED <<active, revision>> /\ edits' = edits + 1 /\ raced' \in BOOLEAN
    BY <1>2, <2>1
  <2>4. /\ edits \in Nat /\ revision \in 0..edits /\ First \in Spaces
        /\ active \in Spaces /\ pending \in Spaces \cup {C!None}
    BY <1>0 DEF SettingsTyped
  <2> QED
    BY <2>1, <2>2, <2>3, <2>4 DEF SettingsTyped
<1>4. CASE C!Promote
  <2>1. CASE UNCHANGED C!settings
    BY <1>0, <2>1 DEF SettingsTyped, C!settings
  <2>2. CASE pending # C!None
    <3>1. /\ active' = pending /\ pending' = C!None
          /\ revision' = revision + 1 /\ edits' = edits + 1
          /\ UNCHANGED enabled
      BY <1>4, <2>2 DEF C!Promote
    <3>2. raced' \in BOOLEAN
      BY <1>4, <2>2, Zenon DEF C!Promote
    <3> QED
      BY <1>0, <2>2, <3>1, <3>2 DEF SettingsTyped
  <2> QED
    BY <1>4, <2>1, <2>2 DEF C!Promote
<1>5. CASE UNCHANGED C!settings
  BY <1>0, <1>5 DEF SettingsTyped, C!settings
<1>6. \/ UNCHANGED C!settings \/ C!Disable \/ C!CancelPending \/ C!Promote
      \/ \E a \in Admins : \E f \in form[a] : C!WriteSave(a, f)
  BY DEF C!Next, C!Operators, C!Finishes, C!vars, C!Refresh, C!Submit, C!TestFails,
         C!CheckRevision, C!Rebuild, C!Rebuilt, C!Remove, C!Embed, C!Embedded, C!EmbedFails,
         C!Reconcile, C!CheckCoverage, C!Crash, C!Idle, C!Becomes
<1> QED
  BY <1>1, <1>3, <1>4, <1>5, <1>6

\* What a step does to a form: it is opened, checked, written or dropped.
LEMMA FormsNext ==
  ASSUME Types, [C!Next]_(C!vars)
  PROVE  FormsTyped'
<1>0. /\ SettingsTyped /\ FormsTyped /\ edits \in Nat /\ revision \in 0..edits
      /\ \A a \in Admins : \A f \in form[a] : f \in Form
      /\ edits' \in Nat /\ edits' >= edits
  BY SettingsNext DEF Types, FormsTyped, SettingsTyped
<1>1. ASSUME NEW a \in Admins, NEW space \in Spaces, C!Submit(a, space) PROVE FormsTyped'
  <2>1. PICK f : f = [space |-> space, revision |-> revision, edits |-> edits,
                      step |-> "test", current |-> 0, staged |-> FALSE]
    OBVIOUS
  <2>2. f \in Form
    BY <1>0, <2>1 DEF Form
  <2>3. form' = [form EXCEPT ![a] = {f}]
    BY <1>1, <2>1 DEF C!Submit
  <2> QED
    BY <1>0, <2>2, <2>3, FormsReplaced
<1>2. ASSUME NEW a \in Admins, C!Drop(a) PROVE FormsTyped'
  BY <1>0, <1>2, FormsReplaced DEF C!Drop
<1>3. ASSUME NEW a \in Admins, NEW f \in form[a], C!CheckRevision(a, f) PROVE FormsTyped'
  <2>1. CASE C!Drop(a)
    BY <1>2, <2>1
  <2>2. CASE f.revision = revision
    <3> DEFINE staged == f.space # active
    <3>1. staged \in BOOLEAN
      OBVIOUS
    <3>2. form' = [form EXCEPT ![a] = {[f EXCEPT !.step = "write", !.current = revision,
                                                 !.staged = staged]}]
      BY <1>3, <2>2 DEF C!CheckRevision
    <3> HIDE DEF staged
    <3>3. [f EXCEPT !.step = "write", !.current = revision, !.staged = staged] \in Form
      <4>1. f \in Form /\ revision \in 0..edits
        BY <1>0
      <4> QED
        BY <4>1, <3>1 DEF Form
    <3>4. PICK g \in Form : g = [f EXCEPT !.step = "write", !.current = revision,
                                         !.staged = staged]
      BY <3>3
    <3>5. form' = [form EXCEPT ![a] = {g}]
      BY <3>2, <3>4
    <3> QED
      BY <1>0, <3>5, FormsReplaced
  <2> QED
    BY <1>3, <2>1, <2>2 DEF C!CheckRevision
<1>4. CASE UNCHANGED form
  BY <1>0, <1>4, FormsStay
<1>5. \/ UNCHANGED form
      \/ \E a \in Admins, space \in Spaces : C!Submit(a, space)
      \/ \E a \in Admins : C!Drop(a)
      \/ \E a \in Admins : \E f \in form[a] : C!CheckRevision(a, f)
  BY DEF C!Next, C!Operators, C!Finishes, C!vars, C!Refresh, C!TestFails, C!WriteSave,
         C!Disable, C!CancelPending, C!Switch, C!Rebuild, C!Rebuilt, C!Remove, C!Embed,
         C!Embedded, C!EmbedFails, C!Reconcile, C!CheckCoverage, C!Promote, C!Crash, C!Idle,
         C!Becomes
<1> QED
  BY <1>1, <1>2, <1>3, <1>4, <1>5

LEMMA TargetsTyped ==
  ASSUME SettingsTyped, snapshot \in Spaces \cup {C!Off}
  PROVE  C!Targets \subseteq Spaces /\ C!Tier \in Spaces \cup {C!Off}
BY DEF C!Targets, C!Tier, SettingsTyped

LEMMA WorkNext ==
  ASSUME Types, [C!Next]_(C!vars)
  PROVE  ChunksTyped' /\ WorkerTyped'
<1>0. /\ ChunksTyped /\ WorkerTyped /\ First \in Spaces
      /\ C!Targets \subseteq Spaces /\ C!Tier \in Spaces \cup {C!Off}
  BY TargetsTyped DEF Types, SettingsTyped, WorkerTyped
<1> DEFINE Calm == UNCHANGED <<chunks, embeddings>>
<1>1. ASSUME NEW c \in Chunks, C!Rebuild(c) PROVE ChunksTyped' /\ WorkerTyped'
  <2>1. UNCHANGED <<chunks, embeddings, snapshot>>
    BY <1>1 DEF C!Rebuild, C!Becomes, C!index
  <2>2. at' = "rebuild" /\ item' = {<<c, First>>} /\ targets' = C!Targets
    BY <1>1 DEF C!Rebuild, C!Becomes
  <2>3. <<c, First>> \in C!Pairs
    BY <1>0 DEF C!Pairs
  <2> QED
    BY <1>0, <2>1, <2>2, <2>3 DEF ChunksTyped, WorkerTyped
<1>2. ASSUME C!Idle PROVE WorkerTyped'
  BY <1>0, <1>2 DEF C!Idle, C!Becomes, WorkerTyped
<1>3. ASSUME NEW c \in Chunks, C!Rebuilt(c) PROVE ChunksTyped' /\ WorkerTyped'
  BY <1>0, <1>2, <1>3 DEF C!Rebuilt, ChunksTyped
<1>4. ASSUME NEW c \in Chunks, C!Remove(c) PROVE ChunksTyped' /\ WorkerTyped'
  <2>1. chunks' = chunks \ {c} /\ embeddings' = {e \in embeddings : e[1] # c}
    BY <1>4 DEF C!Remove
  <2>2. UNCHANGED <<snapshot, at, item, targets>>
    BY <1>4 DEF C!Remove, C!worker
  <2> QED
    BY <1>0, <2>1, <2>2 DEF ChunksTyped, WorkerTyped
<1>5. ASSUME NEW p \in C!Pairs, C!Embed(p) PROVE ChunksTyped' /\ WorkerTyped'
  <2>1. UNCHANGED <<chunks, embeddings>>
    BY <1>5 DEF C!Embed
  <2>2. CASE C!Idle
    BY <1>0, <1>2, <2>1, <2>2 DEF ChunksTyped
  <2>3. CASE C!Becomes("embed", {p}, {})
    BY <1>0, <2>1, <2>3 DEF C!Becomes, ChunksTyped, WorkerTyped
  <2> QED
    BY <1>5, <2>2, <2>3 DEF C!Embed
<1>6. ASSUME NEW p \in C!Pairs, C!Embedded(p) PROVE ChunksTyped' /\ WorkerTyped'
  <2>1. C!Idle /\ chunks' = chunks
        /\ embeddings' = IF p[1] \in chunks THEN embeddings \cup {p} ELSE embeddings
    BY <1>6 DEF C!Embedded
  <2>2. p = <<p[1], p[2]>> /\ p[2] \in Spaces
    BY DEF C!Pairs
  <2>3. p[1] \in chunks => p \in chunks \X Spaces
    BY <2>2
  <2> QED
    BY <1>0, <1>2, <2>1, <2>3 DEF ChunksTyped
<1>7. ASSUME NEW p \in C!Pairs, C!EmbedFails(p) PROVE ChunksTyped' /\ WorkerTyped'
  BY <1>0, <1>2, <1>7 DEF C!EmbedFails, ChunksTyped
<1>8. CASE C!Reconcile
  BY <1>0, <1>8 DEF C!Reconcile, C!Becomes, C!index, ChunksTyped, WorkerTyped
<1>9. CASE C!CheckCoverage
  <2>1. UNCHANGED <<chunks, embeddings>> /\ (C!Becomes("promote", {}, {}) \/ C!Idle)
    BY <1>9 DEF C!CheckCoverage
  <2> QED
    BY <1>0, <1>2, <2>1 DEF C!Becomes, ChunksTyped, WorkerTyped
<1>10. CASE C!Promote
  BY <1>0, <1>10 DEF C!Promote, C!index, ChunksTyped, WorkerTyped
<1>11. CASE C!Crash
  BY <1>0, <1>11 DEF C!Crash, ChunksTyped, WorkerTyped
<1>12. CASE C!Refresh
  BY <1>0, <1>12 DEF C!Refresh, C!index, C!worker, ChunksTyped, WorkerTyped
<1>13. CASE C!Operators \/ UNCHANGED C!vars
  <2>1. UNCHANGED <<snapshot, C!index, C!worker>>
    BY <1>13 DEF C!Operators, C!Submit, C!TestFails, C!CheckRevision, C!WriteSave,
       C!Disable, C!CancelPending,
                 C!Switch, C!vars
  <2> QED
    BY <1>0, <2>1 DEF C!index, C!worker, ChunksTyped, WorkerTyped
<1> QED
  BY <1>1, <1>3, <1>4, <1>5, <1>6, <1>7, <1>8, <1>9, <1>10, <1>11, <1>12, <1>13 DEF C!Next,
     C!Finishes

\* A job runs while the worker is at it, and only then.
LEMMA JobsNext ==
  ASSUME Types, [C!Next]_(C!vars)
  PROVE  JobsTyped'
<1> DEFINE Status == {"none", "queued", "gone", "running", "done", "failed"}
<1>0. /\ job \in [C!Pairs -> Status]
      /\ \A p \in C!Pairs : job[p] = "running" <=> at = "embed" /\ p \in item
  BY DEF Types, JobsTyped
<1>1. ASSUME NEW P, job' = C!Enqueued(P), at # "embed", at' # "embed" PROVE JobsTyped'
  BY <1>0, <1>1 DEF C!Enqueued, JobsTyped
<1>2. ASSUME UNCHANGED job, at # "embed", at' # "embed" PROVE JobsTyped'
  BY <1>0, <1>2 DEF JobsTyped
<1>3. ASSUME \/ \E c \in Chunks : C!Rebuild(c) \/ C!Rebuilt(c)
             \/ C!Reconcile \/ C!CheckCoverage \/ C!Promote
      PROVE  JobsTyped'
  <2>1. at # "embed" /\ at' # "embed"
    BY <1>3 DEF C!Rebuild, C!Rebuilt, C!Reconcile, C!CheckCoverage, C!Promote, C!Becomes, C!Idle
  <2>2. UNCHANGED job \/ \E P : job' = C!Enqueued(P)
    BY <1>3 DEF C!Rebuild, C!Rebuilt, C!Reconcile, C!CheckCoverage, C!Promote, C!Becomes,
       C!Idle, C!index
  <2> QED
    BY <1>1, <1>2, <2>1, <2>2
<1>4. ASSUME NEW p \in C!Pairs, C!Embed(p) PROVE JobsTyped'
  <2>1. at = "idle"
    BY <1>4 DEF C!Embed
  <2>2. CASE C!Ends(p, "done") /\ C!Idle
    BY <1>0, <2>1, <2>2 DEF C!Ends, C!Idle, C!Becomes, JobsTyped
  <2>3. CASE C!Ends(p, "running") /\ C!Becomes("embed", {p}, {})
    BY <1>0, <2>1, <2>3 DEF C!Ends, C!Becomes, JobsTyped
  <2> QED
    BY <1>4, <2>2, <2>3 DEF C!Embed
<1>5. ASSUME NEW p \in C!Pairs, C!Embedded(p) \/ C!EmbedFails(p) PROVE JobsTyped'
  <2>1. at = "embed" /\ item = {p} /\ C!Idle
    BY <1>5 DEF C!Embedded, C!EmbedFails
  <2>2. \E how \in {"done", "queued", "gone", "failed"} : C!Ends(p, how)
    BY <1>5 DEF C!Embedded, C!EmbedFails, C!Again
  <2> QED
    BY <1>0, <2>1, <2>2 DEF C!Ends, C!Idle, C!Becomes, JobsTyped
<1>6. CASE C!Crash
  <2>1. at' = "idle" /\ job' = [p \in C!Pairs |-> IF job[p] = "running" THEN C!Again(p) ELSE job[p]]
    BY <1>6 DEF C!Crash
  <2>2. \A p \in C!Pairs : C!Again(p) \in {"queued", "gone"}
    BY DEF C!Again
  <2> QED
    BY <1>0, <2>1, <2>2 DEF JobsTyped
<1>9. ASSUME NEW c \in Chunks, C!Remove(c) PROVE JobsTyped'
  <2>1. job' = C!Orphaned(c) /\ UNCHANGED <<at, item>>
    BY <1>9 DEF C!Remove, C!worker
  <2> QED
    BY <1>0, <2>1 DEF C!Orphaned, JobsTyped
<1>7. CASE UNCHANGED <<job, C!worker>>
  BY <1>0, <1>7 DEF JobsTyped, C!worker
<1>8. \/ UNCHANGED <<job, C!worker>>
      \/ C!Reconcile \/ C!CheckCoverage \/ C!Promote \/ C!Crash
      \/ \E c \in Chunks : C!Rebuild(c) \/ C!Rebuilt(c) \/ C!Remove(c)
      \/ \E p \in C!Pairs : C!Embed(p) \/ C!Embedded(p) \/ C!EmbedFails(p)
  BY DEF C!Next, C!Operators, C!Finishes, C!vars, C!index, C!Refresh, C!Submit, C!TestFails,
     C!CheckRevision, C!WriteSave,
         C!Disable, C!CancelPending, C!Switch
<1> QED
  BY <1>3, <1>4, <1>5, <1>6, <1>7, <1>8, <1>9

LEMMA TypesNext == Types /\ [C!Next]_(C!vars) => Types'
BY SettingsNext, FormsNext, WorkNext, JobsNext DEF Types

\* Settings, candidates, chunks, embeddings and jobs keep their types, for any
\* number of administrators: a revision may go back when two saves race, but
\* never beyond the number of edits (operator_settings.py).
THEOREM SettingsTypeCorrect ==
  ASSUME First \in Spaces
  PROVE  C!Spec => []C!TypeOK
BY TypesInit, TypesNext, TypesImply, PTL DEF C!Spec

-----------------------------------------------------------------------------
(* Candidates and the cutover *)

\* Unless settings were written at the same time, a candidate that is about to
\* be written was checked against the settings there are, and a staged space
\* that is about to be cut over to is complete.
Checked ==
  \A a \in Admins : \A f \in form[a] :
    f.step = "write" => f.revision = revision /\ (f.staged <=> f.space # active)

Covered == at = "promote" /\ pending # C!None => \A c \in chunks : <<c, pending>> \in embeddings

Serial == raced \/ (Checked /\ Covered)

LEMMA RacedStays == [C!Next]_(C!vars) => (raced => raced')
BY DEF C!Next, C!Operators, C!Finishes, C!vars, C!settings, C!Refresh, C!Submit, C!TestFails,
       C!CheckRevision, C!WriteSave, C!Disable, C!CancelPending, C!Switch, C!Rebuild,
       C!Rebuilt, C!Remove, C!Embed, C!Embedded, C!EmbedFails, C!Reconcile, C!CheckCoverage,
       C!Promote, C!Crash, C!Idle, C!Becomes

\* Others that write meanwhile are seen.
LEMMA CheckedNext ==
  ASSUME Types, Checked, [C!Next]_(C!vars), ~raced'
  PROVE  Checked'
<1>0. /\ form \in [Admins -> SUBSET Form]
      /\ \A a \in Admins : \A f \in form[a] : form[a] = {f}
  BY DEF Types, FormsTyped, AtMostOne
<1>1. ASSUME NEW a \in Admins, NEW f \in form[a], C!WriteSave(a, f) PROVE Checked'
  <2>1. form' = [form EXCEPT ![a] = {}]
    BY <1>1 DEF C!WriteSave, C!Drop
  <2>2. \A b \in Admins \ {a} : \A g \in form[b] : g.step # "write"
    BY <1>1 DEF C!WriteSave
  <2>3. \A b \in Admins : \A g \in form'[b] : b # a /\ g \in form[b]
    BY <1>0, <2>1
  <2> QED
    BY <2>2, <2>3 DEF Checked
<1>2. CASE C!Promote /\ ~UNCHANGED C!settings
  <2>1. UNCHANGED form /\ ~C!Writing
    BY <1>2 DEF C!Promote
  <2> QED
    BY <2>1 DEF Checked, C!Writing
<1>3. ASSUME NEW a \in Admins, NEW f \in form[a], C!CheckRevision(a, f) PROVE Checked'
  <2>1. UNCHANGED <<active, revision>>
    BY <1>3 DEF C!CheckRevision, C!settings
  <2>2. CASE C!Drop(a)
    BY <1>0, <2>1, <2>2 DEF C!Drop, Checked
  <2>3. CASE f.revision = revision
    <3> DEFINE staged == f.space # active
               g == [f EXCEPT !.step = "write", !.current = revision, !.staged = staged]
    <3>1. form' = [form EXCEPT ![a] = {g}]
      BY <1>3, <2>3 DEF C!CheckRevision
    <3>2. f \in Form /\ (staged <=> f.space # active)
      BY <1>0
    <3> HIDE DEF staged
    <3>3. g.revision = revision /\ g.space = f.space /\ g.staged = staged
      BY <2>3, <3>2 DEF Form
    <3> HIDE DEF g
    <3>4. \A b \in Admins : \A h \in form'[b] : h = g \/ h \in form[b]
      BY <1>0, <3>1
    <3> QED
      BY <2>1, <3>2, <3>3, <3>4 DEF Checked
  <2> QED
    BY <1>3, <2>2, <2>3 DEF C!CheckRevision
<1>4. CASE /\ UNCHANGED <<active, revision>>
           /\ \A b \in Admins : \A h \in form'[b] : h.step = "test" \/ h \in form[b]
  BY <1>4 DEF Checked
<1>5. ASSUME NEW a \in Admins, NEW space \in Spaces, C!Submit(a, space)
      PROVE  /\ UNCHANGED <<active, revision>>
             /\ \A b \in Admins : \A h \in form'[b] : h.step = "test" \/ h \in form[b]
  BY <1>0, <1>5 DEF C!Submit, C!settings
<1>6. ASSUME NEW a \in Admins, C!TestFails(a)
      PROVE  /\ UNCHANGED <<active, revision>>
             /\ \A b \in Admins : \A h \in form'[b] : h.step = "test" \/ h \in form[b]
  BY <1>0, <1>6 DEF C!TestFails, C!Drop, C!settings
<1>7. \/ UNCHANGED <<form, active, revision>>
      \/ \E a \in Admins, space \in Spaces : C!Submit(a, space)
      \/ \E a \in Admins : C!TestFails(a)
      \/ \E a \in Admins : \E f \in form[a] : C!CheckRevision(a, f) \/ C!WriteSave(a, f)
      \/ C!Promote /\ ~UNCHANGED C!settings
  BY DEF C!Next, C!Operators, C!Finishes, C!vars, C!settings, C!Refresh, C!Disable,
         C!CancelPending, C!Switch, C!Rebuild, C!Rebuilt, C!Remove, C!Embed, C!Embedded,
         C!EmbedFails, C!Reconcile, C!CheckCoverage, C!Promote, C!Crash, C!Idle, C!Becomes
<1> QED
  BY <1>1, <1>2, <1>3, <1>4, <1>5, <1>6, <1>7

\* While the worker is about to cut over, chunks only go.
LEMMA CoveredNext ==
  ASSUME Types, Covered, [C!Next]_(C!vars), ~raced'
  PROVE  Covered'
<1>1. CASE C!CheckCoverage
  <2>1. UNCHANGED <<pending, chunks, embeddings>>
    BY <1>1 DEF C!CheckCoverage, C!Idle, C!Becomes, C!settings
  <2>2. at' = "promote" => C!Missing(pending) = {}
    BY <1>1 DEF C!CheckCoverage, C!Idle, C!Becomes, C!Ready
  <2> QED
    BY <2>1, <2>2 DEF Covered, C!Missing
<1>2. CASE at' # "promote"
  BY <1>2 DEF Covered
<1>3. ASSUME at = "promote", at' = "promote", ~C!CheckCoverage
      PROVE  /\ pending' \in {pending, C!None}
             /\ chunks' \subseteq chunks
             /\ \A c \in chunks' : \A s : <<c, s>> \in embeddings => <<c, s>> \in embeddings'
  BY <1>3 DEF C!Next, C!Operators, C!Finishes, C!vars, C!settings, C!index, C!worker,
              C!Refresh, C!Submit, C!TestFails, C!CheckRevision, C!WriteSave, C!Disable,
              C!CancelPending, C!Switch, C!Rebuild, C!Rebuilt, C!Remove, C!Embed, C!Embedded,
              C!EmbedFails, C!Reconcile, C!Promote, C!Crash, C!Idle, C!Becomes
<1>4. at' = "promote" => at = "promote" \/ C!CheckCoverage
  BY DEF C!Next, C!Operators, C!Finishes, C!vars, C!worker, C!Refresh, C!Submit, C!TestFails,
         C!CheckRevision, C!WriteSave, C!Disable, C!CancelPending, C!Switch, C!Rebuild,
         C!Rebuilt, C!Remove, C!Embed, C!Embedded, C!EmbedFails, C!Reconcile, C!Promote,
         C!Crash, C!Idle, C!Becomes
<1>5. CASE at = "promote" /\ at' = "promote" /\ ~C!CheckCoverage
  BY <1>3, <1>5 DEF Covered
<1> QED
  BY <1>1, <1>2, <1>4, <1>5

LEMMA SerialNext == Types /\ Serial /\ [C!Next]_(C!vars) => Serial'
<1> SUFFICES ASSUME Types, Serial, [C!Next]_(C!vars) PROVE Serial'
  OBVIOUS
<1>1. CASE raced'
  BY <1>1 DEF Serial
<1>2. CASE ~raced'
  <2>1. Checked /\ Covered
    BY <1>2, RacedStays DEF Serial
  <2>2. Checked' /\ Covered'
    BY <1>2, <2>1, CheckedNext, CoveredNext
  <2> QED
    BY <2>2 DEF Serial
<1> QED
  BY <1>1, <1>2

LEMMA SerialInit == C!Init => Serial
BY DEF C!Init, Serial, Checked, Covered

\* The model of queries changes only to one in which every chunk has its
\* embedding, unless an administrator writes at the moment the worker cuts over
\* or another administrator does: reconcile_ai sees that the space is complete,
\* and until promote_pending chunks only go (worker/main.py, operator_settings.py).
THEOREM CutoverComplete ==
  ASSUME First \in Spaces
  PROVE  C!Spec => C!CompleteCutover
<1> DEFINE Complete == active' # active =>
                         raced' \/ \A c \in chunks : <<c, active'>> \in embeddings
<1>1. Types /\ Serial /\ [C!Next]_(C!vars) => [Complete]_(C!vars)
  <2> SUFFICES ASSUME Types, Serial, [C!Next]_(C!vars), active' # active, ~raced'
               PROVE  \A c \in chunks : <<c, active'>> \in embeddings
    OBVIOUS
  <2>1. Checked /\ Covered
    BY RacedStays DEF Serial
  <2>2. CASE C!Promote
    <3>1. pending # C!None /\ active' = pending /\ at = "promote"
      BY <2>2 DEF C!Promote, C!settings
    <3> QED
      BY <2>1, <3>1 DEF Covered
  <2>3. ASSUME NEW a \in Admins, NEW f \in form[a], C!WriteSave(a, f) PROVE FALSE
    <3>1. f.step = "write" /\ (f.staged => active' = active) /\ (~f.staged => active' = f.space)
      BY <2>3 DEF C!WriteSave
    <3> QED
      BY <2>1, <3>1 DEF Checked
  <2>4. C!Promote \/ \E a \in Admins : \E f \in form[a] : C!WriteSave(a, f)
    BY DEF C!Next, C!Operators, C!Finishes, C!vars, C!settings, C!Refresh, C!Submit,
           C!TestFails, C!CheckRevision, C!Disable, C!CancelPending, C!Switch, C!Rebuild,
           C!Rebuilt, C!Remove, C!Embed, C!Embedded, C!EmbedFails, C!Reconcile,
           C!CheckCoverage, C!Crash, C!Idle, C!Becomes
  <2> QED
    BY <2>2, <2>3, <2>4
<1> QED
  BY <1>1, TypesInit, TypesNext, SerialInit, SerialNext, PTL DEF C!Spec, C!CompleteCutover

\* A candidate that is written replaces the settings that its administrator saw:
\* a save or a cutover since then moved the revision, and set_openrouter refuses
\* it, unless the two were written at once.
THEOREM SavesFresh ==
  ASSUME First \in Spaces
  PROVE  C!Spec => C!SaveFresh
<1> DEFINE Fresh == \A a \in Admins : \A f \in form[a] :
                      f.step = "write" /\ form'[a] = {} => raced' \/ f.revision = revision
<1>1. Types /\ Serial /\ [C!Next]_(C!vars) => [Fresh]_(C!vars)
  <2> SUFFICES ASSUME Types, Serial, [C!Next]_(C!vars), ~raced',
                      NEW a \in Admins, NEW f \in form[a], f.step = "write"
               PROVE  f.revision = revision
    OBVIOUS
  <2>1. Checked
    BY RacedStays DEF Serial
  <2> QED
    BY <2>1 DEF Checked
<1> QED
  BY <1>1, TypesInit, TypesNext, SerialInit, SerialNext, PTL DEF C!Spec, C!SaveFresh

-----------------------------------------------------------------------------
(* A tested candidate and what was edited meanwhile.  Saves and cutovers     *)
(* move the revision; turning AI off and cancelling a rebuild do not.        *)

\* AI is turned off, and a rebuild cancelled, when no candidate is under test.
Unswitched == C!Disable \/ C!CancelPending => \A a \in Admins : \A f \in form[a] : f.step # "test"

\* The revision moved with every edit since a form was opened, and the one it
\* is written with is the one there is.
InStep(f) == /\ f.edits + revision = f.revision + edits
             /\ f.step = "write" => f.current = revision

Apace == \A a \in Admins : \A f \in form[a] : InStep(f)

LEMMA ApaceNext ==
  ASSUME Types, Apace, [C!Next]_(C!vars), [Unswitched]_(C!vars), ~raced'
  PROVE  Apace'
<1>0. /\ form \in [Admins -> SUBSET Form]
      /\ \A a \in Admins : \A f \in form[a] : form[a] = {f} /\ InStep(f)
      /\ edits \in Nat /\ revision \in 0..edits
      /\ \A f \in Form : f.edits \in Nat /\ f.revision \in Nat /\ f.current \in Nat
  BY DEF Types, FormsTyped, AtMostOne, SettingsTyped, Form, Apace
<1>1. ASSUME NEW a \in Admins, NEW f \in form[a], C!WriteSave(a, f) PROVE Apace'
  <2>1. form' = [form EXCEPT ![a] = {}] /\ f.step = "write"
    BY <1>1 DEF C!WriteSave, C!Drop
  <2>2. \A b \in Admins \ {a} : \A g \in form[b] : g.step # "write"
    BY <1>1 DEF C!WriteSave
  <2>3. \A b \in Admins : \A g \in form'[b] : b # a /\ g \in form[b]
    BY <1>0, <2>1
  <2>4. revision' = revision + 1 /\ edits' = edits + 1
    BY <1>0, <1>1, <2>1 DEF C!WriteSave, InStep
  <2>5. ASSUME NEW b \in Admins, NEW g \in form'[b] PROVE InStep(g)'
    <3>1. g \in Form /\ InStep(g) /\ g.step # "write"
      BY <1>0, <2>2, <2>3, <2>5
    <3> QED
      BY <1>0, <2>4, <3>1 DEF InStep
  <2> QED
    BY <2>5 DEF Apace
<1>2. CASE C!Promote /\ ~UNCHANGED C!settings
  <2>1. UNCHANGED form /\ ~C!Writing /\ revision' = revision + 1 /\ edits' = edits + 1
    BY <1>2 DEF C!Promote
  <2>2. ASSUME NEW b \in Admins, NEW g \in form[b] PROVE InStep(g)'
    <3>1. g \in Form /\ InStep(g) /\ g.step # "write"
      BY <1>0, <2>1 DEF C!Writing
    <3> QED
      BY <1>0, <2>1, <3>1 DEF InStep
  <2> QED
    BY <2>1, <2>2 DEF Apace
<1>3. CASE C!Disable \/ C!CancelPending
  <2>1. ~C!Writing /\ UNCHANGED form /\ C!Switch
    BY <1>3 DEF C!Disable, C!CancelPending, C!Switch
  <2>2. Unswitched \/ UNCHANGED C!vars
    OBVIOUS
  <2>3. CASE UNCHANGED C!vars
    BY <2>3 DEF C!vars, C!settings, Apace, InStep
  <2>4. CASE Unswitched
    <3>1. \A b \in Admins : form[b] = {}
      <4>1. \A b \in Admins : \A g \in form[b] : g.step # "test" /\ g.step # "write"
        BY <1>3, <2>1, <2>4 DEF Unswitched, C!Writing
      <4>2. \A g \in Form : g.step \in {"test", "write"}
        BY DEF Form
      <4> QED
        BY <1>0, <4>1, <4>2
    <3> QED
      BY <2>1, <3>1 DEF Apace
  <2> QED
    BY <2>2, <2>3, <2>4
<1>4. ASSUME NEW a \in Admins, NEW f \in form[a], C!CheckRevision(a, f) PROVE Apace'
  <2>1. UNCHANGED <<edits, revision>>
    BY <1>4 DEF C!CheckRevision, C!settings
  <2>2. CASE C!Drop(a)
    <3>1. \A b \in Admins : \A h \in form'[b] : h \in form[b]
      BY <1>0, <2>2 DEF C!Drop
    <3> QED
      BY <2>1, <3>1 DEF Apace, InStep
  <2>3. CASE f.revision = revision
    <3> DEFINE staged == f.space # active
               g == [f EXCEPT !.step = "write", !.current = revision, !.staged = staged]
    <3>1. form' = [form EXCEPT ![a] = {g}]
      BY <1>4, <2>3 DEF C!CheckRevision
    <3>2. f \in Form /\ InStep(f)
      BY <1>0
    <3> HIDE DEF staged
    <3>3. g.edits = f.edits /\ g.revision = f.revision /\ g.current = revision
      BY <3>2 DEF Form
    <3> HIDE DEF g
    <3>4. \A b \in Admins : \A h \in form'[b] : h = g \/ h \in form[b]
      BY <1>0, <3>1
    <3> QED
      BY <2>1, <3>2, <3>3, <3>4 DEF Apace, InStep
  <2> QED
    BY <1>4, <2>2, <2>3 DEF C!CheckRevision
<1>5. ASSUME NEW a \in Admins, NEW space \in Spaces, C!Submit(a, space) PROVE Apace'
  <2>1. UNCHANGED <<edits, revision>>
    BY <1>5 DEF C!Submit, C!settings
  <2> DEFINE g == [space |-> space, revision |-> revision, edits |-> edits,
                   step |-> "test", current |-> 0, staged |-> FALSE]
  <2>2. form' = [form EXCEPT ![a] = {g}]
    BY <1>5 DEF C!Submit
  <2>3. g.edits = edits /\ g.revision = revision /\ g.step = "test"
    OBVIOUS
  <2> HIDE DEF g
  <2>4. \A b \in Admins : \A h \in form'[b] : h = g \/ h \in form[b]
    BY <1>0, <2>2
  <2> QED
    BY <1>0, <2>1, <2>3, <2>4 DEF Apace, InStep
<1>6. ASSUME NEW a \in Admins, C!TestFails(a) PROVE Apace'
  <2>1. UNCHANGED <<edits, revision>> /\ \A b \in Admins : \A h \in form'[b] : h \in form[b]
    BY <1>0, <1>6 DEF C!TestFails, C!Drop, C!settings
  <2> QED
    BY <2>1 DEF Apace, InStep
<1>7. CASE UNCHANGED <<form, edits, revision>>
  BY <1>7 DEF Apace, InStep
<1>8. \/ UNCHANGED <<form, edits, revision>>
      \/ C!Disable \/ C!CancelPending
      \/ \E a \in Admins, space \in Spaces : C!Submit(a, space)
      \/ \E a \in Admins : C!TestFails(a)
      \/ \E a \in Admins : \E f \in form[a] : C!CheckRevision(a, f) \/ C!WriteSave(a, f)
      \/ C!Promote /\ ~UNCHANGED C!settings
  BY DEF C!Next, C!Operators, C!Finishes, C!vars, C!settings, C!Refresh,
         C!Rebuild, C!Rebuilt, C!Remove, C!Embed, C!Embedded,
         C!EmbedFails, C!Reconcile, C!CheckCoverage, C!Promote, C!Crash, C!Idle, C!Becomes
<1> QED
  BY <1>1, <1>2, <1>3, <1>4, <1>5, <1>6, <1>7, <1>8

\* A tested candidate overwrites nothing that was edited since its form was
\* opened, unless two settings were written at once, or AI was turned off or a
\* rebuild cancelled during the test: those two edits leave the revision that
\* set_openrouter compares as it is (app/operator_settings.py).
THEOREM EditsStand ==
  ASSUME First \in Spaces
  PROVE  C!Spec /\ [][Unswitched]_(C!vars) /\ []~raced => C!EditsKept
<1> DEFINE Fresh == \A a \in Admins : \A f \in form[a] :
                      f.step = "write" /\ form'[a] = {} => f.edits = edits
<1>1. Types /\ Serial /\ Apace /\ ~raced => [Fresh]_(C!vars)
  <2> SUFFICES ASSUME Types, Serial, Apace, ~raced,
                      NEW a \in Admins, NEW f \in form[a], f.step = "write"
               PROVE  f.edits = edits
    OBVIOUS
  <2>1. f.revision = revision /\ f.edits + revision = f.revision + edits
    BY DEF Serial, Checked, Apace, InStep
  <2>2. f \in Form /\ edits \in Nat /\ revision \in Nat
    BY DEF Types, FormsTyped, SettingsTyped
  <2>3. f.edits \in Nat
    BY <2>2 DEF Form
  <2> QED
    BY <2>1, <2>2, <2>3
<1>2. C!Init => Apace
  BY DEF C!Init, Apace
<1>3. Types /\ Apace /\ [C!Next]_(C!vars) /\ [Unswitched]_(C!vars) /\ (~raced)' => Apace'
  BY ApaceNext
<1> QED
  BY <1>1, <1>2, <1>3, TypesInit, TypesNext, SerialInit, SerialNext, PTL DEF C!Spec, C!EditsKept
=============================================================================
