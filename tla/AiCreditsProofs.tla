--------------------------- MODULE AiCreditsProofs ----------------------------
(***************************************************************************)
(* The AI credit accounts, for any accounts, requests and administrators:  *)
(* the types, the reservations and the overdraft.                          *)
(***************************************************************************)
EXTENDS AiCredits, FiniteSetTheorems, WellFoundedInduction, TLAPS

-----------------------------------------------------------------------------
(***************************************************************************)
(* No credit is made or lost.  The total of a column is a fold, which      *)
(* takes the elements of its domain one by one; the lemmas of this part    *)
(* say what adding to one element adds to the total.                       *)
(***************************************************************************)
FirstOf(s) == CHOOSE x \in s : TRUE

\* The equation the fold is defined by, on sets of up to n elements
Unfolds(S, f, g, n) ==
  \A s \in SUBSET S : Cardinality(s) <= n =>
    g[s] = IF s = {} THEN 0 ELSE f[FirstOf(s)] + g[s \ {FirstOf(s)}]

SumOver(S, f) ==
  CHOOSE g : g = [s \in SUBSET S |->
                    IF s = {} THEN 0 ELSE f[FirstOf(s)] + g[s \ {FirstOf(s)}]]

LEMMA TotalIsSum == ASSUME NEW f PROVE Total(f) = SumOver(DOMAIN f, f)[DOMAIN f]
  BY Zenon DEF Total, FoldFunction, FoldFunctionOnSet, MapThenFoldSet, SumOver, FirstOf

LEMMA LeastThere ==
  ASSUME NEW T \in SUBSET Nat, T # {}
  PROVE  \E n \in T : \A m \in T : n <= m
<1> DEFINE R == OpToRel(<, Nat)
<1>1. IsWellFoundedOn(R, Nat)
  BY NatLessThanWellFounded, Zenon
<1>2. \A x, y \in Nat : x < y => <<x, y>> \in R
  BY SMT DEF OpToRel
<1> HIDE DEF R
<1>3. PICK x \in T : \A y \in T : ~(<<y, x>> \in R)
  BY <1>1, WFMin, Zenon
<1>4. \A y \in T : ~(y < x)
  BY <1>2, <1>3
<1> QED
  BY <1>4

LEMMA FirstThere == ASSUME NEW s, s # {} PROVE FirstOf(s) \in s
  BY DEF FirstOf

\* Every set of subsets that has the empty one, and each other one with the
\* subset that lacks its first element, has all of them.
LEMMA SubsetsByOne ==
  ASSUME NEW S, IsFiniteSet(S), NEW G \in SUBSET SUBSET S, {} \in G,
         \A s \in SUBSET S : s # {} /\ s \ {FirstOf(s)} \in G => s \in G
  PROVE  G = SUBSET S
<1> DEFINE T == {Cardinality(s) : s \in (SUBSET S) \ G}
<1>1. \A s \in SUBSET S : IsFiniteSet(s) /\ Cardinality(s) \in Nat
  BY FS_Subset, FS_CardinalityType
<1>2. SUFFICES ASSUME (SUBSET S) \ G # {} PROVE FALSE
  OBVIOUS
<1>3. T \in SUBSET Nat /\ T # {}
  BY <1>1, <1>2
<1>4. PICK n \in T : \A m \in T : n <= m
  BY <1>3, LeastThere, Zenon
<1>5. PICK s \in (SUBSET S) \ G : n = Cardinality(s)
  BY <1>4
<1>6. s # {} /\ FirstOf(s) \in s
  <2>1. s # {}
    BY <1>5
  <2> QED
    BY <2>1, FirstThere
<1>7. Cardinality(s \ {FirstOf(s)}) = n - 1 /\ n \in Nat
  BY <1>1, <1>5, <1>6, FS_RemoveElement
<1>8. s \ {FirstOf(s)} \notin G
  <2>1. s \in SUBSET S /\ s \notin G
    BY <1>5
  <2> QED
    BY <1>6, <2>1
<1>9. n - 1 \in T
  BY <1>7, <1>8
<1> QED
  BY <1>4, <1>7, <1>9

LEMMA UnfoldsExists ==
  ASSUME NEW S, IsFiniteSet(S), NEW f, NEW n \in Nat
  PROVE  \E g : Unfolds(S, f, g, n)
<1> DEFINE T == {m \in Nat : ~\E g : Unfolds(S, f, g, m)}
<1>1. \A s \in SUBSET S : IsFiniteSet(s) /\ Cardinality(s) \in Nat
  BY FS_Subset, FS_CardinalityType
<1>2. SUFFICES ASSUME T # {} PROVE FALSE
  OBVIOUS
<1>3. PICK m \in T : \A k \in T : m <= k
  BY <1>2, LeastThere, Zenon
<1>4. CASE m = 0
  <2> DEFINE g == [s \in SUBSET S |-> 0]
  <2>1. \A s \in SUBSET S : Cardinality(s) <= 0 => s = {}
    BY <1>1, FS_EmptySet
  <2>2. Unfolds(S, f, g, 0)
    BY <2>1 DEF Unfolds
  <2> HIDE DEF g
  <2> QED
    BY <1>4, <2>2
<1>5. CASE m > 0
  <2>1. m - 1 \in Nat /\ m - 1 \notin T
    BY <1>3, <1>5
  <2>2. PICK g : Unfolds(S, f, g, m - 1)
    BY <2>1
  <2> DEFINE h == [s \in SUBSET S |->
                     IF Cardinality(s) <= m - 1 THEN g[s]
                     ELSE f[FirstOf(s)] + g[s \ {FirstOf(s)}]]
  <2>3. ASSUME NEW s \in SUBSET S, Cardinality(s) <= m
        PROVE  h[s] = IF s = {} THEN 0 ELSE f[FirstOf(s)] + h[s \ {FirstOf(s)}]
    <3>1. CASE s = {}
      <4>1. Cardinality(s) <= m - 1
        BY <2>1, <3>1, FS_EmptySet
      <4>2. h[s] = g[s]
        BY <4>1
      <4>3. g[s] = 0
        BY <2>2, <3>1, <4>1 DEF Unfolds
      <4> QED
        BY <3>1, <4>2, <4>3
    <3>2. CASE s # {}
      <4> DEFINE r == s \ {FirstOf(s)}
      <4>1. r \in SUBSET S /\ Cardinality(r) <= m - 1
        <5>1. FirstOf(s) \in s
          BY <3>2, FirstThere
        <5>2. Cardinality(r) = Cardinality(s) - 1
          BY <1>1, <5>1, FS_RemoveElement
        <5> QED
          BY <1>1, <2>3, <5>2
      <4>2. h[r] = g[r]
        BY <4>1
      <4>3. h[s] = f[FirstOf(s)] + g[r]
        BY <2>2, <3>2 DEF Unfolds
      <4> QED
        BY <3>2, <4>2, <4>3
    <3> QED
      BY <3>1, <3>2
  <2> HIDE DEF h
  <2>4. Unfolds(S, f, h, m)
    BY <2>3 DEF Unfolds
  <2> QED
    BY <1>3, <2>4
<1> QED
  BY <1>3, <1>4, <1>5

\* The fold is what its equation says.
LEMMA SumUnfolds ==
  ASSUME NEW S, IsFiniteSet(S), NEW f
  PROVE  /\ SumOver(S, f)[{}] = 0
         /\ \A s \in SUBSET S : s # {} =>
              SumOver(S, f)[s] = f[FirstOf(s)] + SumOver(S, f)[s \ {FirstOf(s)}]
<1>1. Cardinality(S) \in Nat /\ \A s \in SUBSET S : Cardinality(s) <= Cardinality(S)
  BY FS_Subset, FS_CardinalityType
<1>2. PICK g : Unfolds(S, f, g, Cardinality(S))
  BY <1>1, UnfoldsExists
<1> DEFINE h == [s \in SUBSET S |-> g[s]]
           Is(k) == k = [s \in SUBSET S |->
                    IF s = {} THEN 0 ELSE f[FirstOf(s)] + k[s \ {FirstOf(s)}]]
<1>3. \A s \in SUBSET S :
        h[s] = IF s = {} THEN 0 ELSE f[FirstOf(s)] + h[s \ {FirstOf(s)}]
  BY <1>1, <1>2 DEF Unfolds
<1>4. h = [s \in SUBSET S |-> h[s]]
  OBVIOUS
<1> HIDE DEF h
<1>5. Is(h)
  BY <1>3, <1>4
<1>6. Is(SumOver(S, f))
  <2>1. SumOver(S, f) = CHOOSE k : Is(k)
    BY DEF SumOver
  <2> HIDE DEF Is
  <2> QED
    BY <1>5, <2>1
<1> DEFINE sum == SumOver(S, f)
<1>7. sum = [s \in SUBSET S |->
                    IF s = {} THEN 0 ELSE f[FirstOf(s)] + sum[s \ {FirstOf(s)}]]
  BY <1>6
<1> HIDE DEF sum
<1>8. \A s \in SUBSET S : sum[s] = IF s = {} THEN 0 ELSE f[FirstOf(s)] + sum[s \ {FirstOf(s)}]
  BY <1>7
<1> QED
  BY <1>8 DEF sum

LEMMA SumIsInt ==
  ASSUME NEW S, IsFiniteSet(S), NEW f \in [S -> Int]
  PROVE  \A s \in SUBSET S : SumOver(S, f)[s] \in Int
<1> DEFINE sum == SumOver(S, f)
           G == {s \in SUBSET S : sum[s] \in Int}
<1>1. /\ sum[{}] = 0
      /\ \A s \in SUBSET S : s # {} => sum[s] = f[FirstOf(s)] + sum[s \ {FirstOf(s)}]
  BY SumUnfolds
<1> HIDE DEF sum
<1>2. {} \in G
  BY <1>1
<1>3. ASSUME NEW s \in SUBSET S, s # {}, s \ {FirstOf(s)} \in G PROVE s \in G
  <2>1. FirstOf(s) \in S
    BY <1>3, FirstThere
  <2>2. f[FirstOf(s)] \in Int /\ sum[s \ {FirstOf(s)}] \in Int
    BY <1>3, <2>1
  <2>3. sum[s] = f[FirstOf(s)] + sum[s \ {FirstOf(s)}]
    BY <1>1, <1>3
  <2> QED
    BY <2>2, <2>3
<1> HIDE DEF G
<1>4. G \in SUBSET SUBSET S
  BY DEF G
<1>5. G = SUBSET S
  BY <1>2, <1>3, <1>4, SubsetsByOne
<1> QED
  BY <1>5 DEF G, sum

LEMMA TotalIsInt ==
  ASSUME NEW S, IsFiniteSet(S), NEW f \in [S -> Int]
  PROVE  Total(f) \in Int
<1>1. Total(f) = SumOver(S, f)[S]
  BY TotalIsSum
<1> QED
  BY <1>1, SumIsInt

\* Adding d to one element
Plus(f, a, d) == [x \in DOMAIN f |-> IF x = a THEN f[x] + d ELSE f[x]]

LEMMA TotalPlus ==
  ASSUME NEW S, IsFiniteSet(S), NEW f \in [S -> Int], NEW a \in S, NEW d \in Int
  PROVE  /\ Plus(f, a, d) \in [S -> Int]
         /\ Total(f) \in Int
         /\ Total(Plus(f, a, d)) = Total(f) + d
<1> DEFINE g == Plus(f, a, d)
           sf == SumOver(S, f)
           sg == SumOver(S, g)
           G == {s \in SUBSET S : sg[s] = sf[s] + IF a \in s THEN d ELSE 0}
<1>1. g \in [S -> Int] /\ \A x \in S : g[x] = IF x = a THEN f[x] + d ELSE f[x]
  BY DEF Plus
<1> HIDE DEF g
<1>2. Total(f) = sf[S] /\ Total(g) = sg[S]
  BY <1>1, TotalIsSum
<1>3. \A s \in SUBSET S : sf[s] \in Int
  BY SumIsInt
<1>4. /\ sf[{}] = 0 /\ sg[{}] = 0
      /\ \A s \in SUBSET S : s # {} =>
           /\ sf[s] = f[FirstOf(s)] + sf[s \ {FirstOf(s)}]
           /\ sg[s] = g[FirstOf(s)] + sg[s \ {FirstOf(s)}]
  <2>1. /\ sf[{}] = 0
        /\ \A s \in SUBSET S : s # {} => sf[s] = f[FirstOf(s)] + sf[s \ {FirstOf(s)}]
    BY SumUnfolds
  <2>2. /\ sg[{}] = 0
        /\ \A s \in SUBSET S : s # {} => sg[s] = g[FirstOf(s)] + sg[s \ {FirstOf(s)}]
    BY SumUnfolds
  <2> HIDE DEF sf, sg
  <2> QED
    BY <2>1, <2>2
<1> HIDE DEF sf, sg
<1>5. {} \in G
  BY <1>4
<1>6. ASSUME NEW s \in SUBSET S, s # {}, s \ {FirstOf(s)} \in G PROVE s \in G
  <2> DEFINE x == FirstOf(s)
             r == s \ {x}
  <2>1. x \in s
    BY <1>6, FirstThere
  <2>2. sf[s] = f[x] + sf[r] /\ sg[s] = g[x] + sg[r]
    BY <1>4, <1>6
  <2>3. sg[r] = sf[r] + IF a \in r THEN d ELSE 0
    BY <1>6
  <2>4. r \in SUBSET S /\ x \in S
    BY <2>1
  <2>5. sf[r] \in Int /\ f[x] \in Int
    BY <1>3, <2>4
  <2>6. a \in s <=> a \in r \/ a = x
    BY <2>1
  <2>7. a = x => a \notin r
    OBVIOUS
  <2> HIDE DEF x, r
  <2>8. sg[s] = sf[s] + IF a \in s THEN d ELSE 0
    <3>1. CASE a = x
      BY <1>1, <2>2, <2>3, <2>4, <2>5, <2>6, <2>7, <3>1
    <3>2. CASE a # x
      BY <1>1, <2>2, <2>3, <2>4, <2>5, <2>6, <3>2
    <3> QED
      BY <3>1, <3>2
  <2> QED
    BY <2>8
<1> HIDE DEF G
<1>7. G \in SUBSET SUBSET S
  BY DEF G
<1>8. G = SUBSET S
  BY <1>5, <1>6, <1>7, SubsetsByOne
<1>9. S \in G
  BY <1>8
<1> QED
  BY <1>1, <1>2, <1>3, <1>9 DEF G, g

Own(rows) == [a \in Accounts |-> rows[a].allocated - rows[a].childAllocated]

LEMMA OwnIsInt ==
  ASSUME NEW rows \in Rows
  PROVE  /\ Own(rows) \in [Accounts -> Int]
         /\ \A a \in Accounts : Own(rows)[a] = rows[a].allocated - rows[a].childAllocated
         /\ OwnCredits(rows) = Total(Own(rows))
<1>1. \A a \in Accounts : rows[a].allocated \in Int /\ rows[a].childAllocated \in Int
  BY DEF Rows, Row
<1> QED
  BY <1>1 DEF Own, OwnCredits

\* Three rows change, a by d, b by e and c by n
Differ(rows, new, a, d, b, e, c, n) ==
  \A x \in Accounts :
    Own(new)[x] = Own(rows)[x] + (IF x = a THEN d ELSE 0) + (IF x = b THEN e ELSE 0)
                               + (IF x = c THEN n ELSE 0)

LEMMA OwnChanges ==
  ASSUME NEW rows \in Rows, NEW new \in Rows,
         NEW a \in Accounts, NEW b \in Accounts, NEW c \in Accounts,
         NEW d \in Int, NEW e \in Int, NEW n \in Int,
         Differ(rows, new, a, d, b, e, c, n)
  PROVE  /\ OwnCredits(new) = OwnCredits(rows) + d + e + n
         /\ OwnCredits(rows) \in Int
<1>0. IsFiniteSet(Accounts)
  BY AccountsAssumption
<1>1. Own(rows) \in [Accounts -> Int] /\ Own(new) \in [Accounts -> Int]
  BY OwnIsInt
<1>f. PICK f \in [Accounts -> Int] : f = Own(rows)
  BY <1>1
<1> DEFINE f1 == Plus(f, a, d)
           f2 == Plus(f1, b, e)
           f3 == Plus(f2, c, n)
<1>2. f1 \in [Accounts -> Int] /\ Total(f) \in Int /\ Total(f1) = Total(f) + d
  BY <1>0, TotalPlus
<1>3. f2 \in [Accounts -> Int] /\ Total(f2) = Total(f1) + e
  <2> HIDE DEF f1
  <2> QED
    BY <1>0, <1>2, TotalPlus
<1>4. f3 \in [Accounts -> Int] /\ Total(f3) = Total(f2) + n
  <2> HIDE DEF f2
  <2> QED
    BY <1>0, <1>3, TotalPlus
<1>5. ASSUME NEW x \in Accounts PROVE f3[x] = Own(new)[x]
  <2>1. f1[x] = f[x] + IF x = a THEN d ELSE 0
    BY DEF Plus
  <2>2. f2[x] = f1[x] + IF x = b THEN e ELSE 0
    <3> HIDE DEF f1
    <3> QED
      BY <1>2 DEF Plus
  <2>3. f3[x] = f2[x] + IF x = c THEN n ELSE 0
    <3> HIDE DEF f2
    <3> QED
      BY <1>3 DEF Plus
  <2>4. Own(new)[x] = f[x] + (IF x = a THEN d ELSE 0) + (IF x = b THEN e ELSE 0)
                           + (IF x = c THEN n ELSE 0)
    BY <1>f DEF Differ
  <2>5. f[x] \in Int
    OBVIOUS
  <2> HIDE DEF f1, f2, f3
  <2> QED
    BY <2>1, <2>2, <2>3, <2>4, <2>5
<1> HIDE DEF f1, f2, f3
<1>6. f3 = Own(new)
  <2> DEFINE g == Own(new)
  <2>1. g \in [Accounts -> Int] /\ \A x \in Accounts : f3[x] = g[x]
    BY <1>1, <1>5
  <2> HIDE DEF g
  <2>2. f3 = g
    BY <1>4, <2>1
  <2> QED
    BY <2>2 DEF g
<1>7. OwnCredits(new) = Total(Own(new)) /\ OwnCredits(rows) = Total(f)
  BY <1>f, OwnIsInt
<1> QED
  BY <1>2, <1>3, <1>4, <1>6, <1>7

-----------------------------------------------------------------------------
(***************************************************************************)
(* Type correctness of the AI credit system, for every set of accounts,    *)
(* calls, administrators and pages, and every starting tree of             *)
(* allocations, and the lemmas about rows the other proofs rest on.        *)
(***************************************************************************)

USE AccountsAssumption, RequestsAssumption, AdminsAssumption

-----------------------------------------------------------------------------
(***************************************************************************)
(* Type correctness.                                                       *)
(***************************************************************************)
LEMMA RowType ==
  /\ EmptyRow \in Row
  /\ \A row \in Row, n \in Int :
       /\ Available(row) \in Int
       /\ Spent(row) \in Int
       /\ Deficit(row) \in Nat
       /\ SubtractChildAllocation(row, n) \in Int
       /\ ClippedBy(row, n) \in Int
  BY DEF EmptyRow, Row, Available, Spent, Deficit, SubtractChildAllocation,
         ClippedBy

(***************************************************************************)
(* Changing one column of one account leaves the accounts well typed.      *)
(***************************************************************************)
LEMMA NumberUpdate ==
  ASSUME NEW rows \in Rows, NEW a \in Accounts, NEW n \in Int
  PROVE  /\ [rows EXCEPT ![a].used = n] \in Rows
         /\ [rows EXCEPT ![a].reserved = n] \in Rows
         /\ [rows EXCEPT ![a].childAllocated = n] \in Rows
  BY DEF Rows, Row

LEMMA GrantUpdate ==
  ASSUME NEW rows \in Rows, NEW a \in Accounts, NEW n \in Nat
  PROVE  [rows EXCEPT ![a].allocated = n] \in Rows
  BY DEF Rows, Row

LEMMA LinkUpdate ==
  ASSUME NEW rows \in Rows, NEW a \in Accounts
  PROVE  /\ \A p \in Accounts \cup {NoAccount} :
              [rows EXCEPT ![a].parent = p] \in Rows
         /\ \A o \in OrgAccounts \cup {NoAccount} :
              [rows EXCEPT ![a].organization = o] \in Rows
         /\ \A b \in BOOLEAN : [rows EXCEPT ![a].disabled = b] \in Rows
  BY DEF Rows, Row

(***************************************************************************)
(* The columns of a row, one by one.                                       *)
(***************************************************************************)
LEMMA Columns ==
  ASSUME NEW rows \in Rows, NEW a \in Accounts
  PROVE  /\ rows[a] \in Row
         /\ rows[a].allocated \in Nat
         /\ rows[a].used \in Int
         /\ rows[a].reserved \in Int
         /\ rows[a].childAllocated \in Int
         /\ rows[a].disabled \in BOOLEAN
         /\ rows[a].parent \in Accounts \cup {NoAccount}
  BY DEF Rows, Row

LEMMA TypeInit == Init => TypeOK
<1> SUFFICES ASSUME Init PROVE TypeOK
  OBVIOUS
<1> USE DEF Init, Accounts
<1>1. AccountsTypeOK
  BY DEF AccountsInit, AccountsTypeOK, Rows, Row
<1>2. UsageTypeOK
  BY RowType DEF UsageInit, UsageTypeOK, Call, Phases, CreditsOrNone
<1>3. AllocationTypeOK
  BY RowType DEF AllocationInit, AllocationTypeOK, Operation, Idle
<1>4. ReconciliationTypeOK
  BY RowType DEF ReconciliationInit, ReconciliationTypeOK, Overview, NoOverview
<1> QED
  BY <1>1, <1>2, <1>3, <1>4 DEF TypeOK

LEMMA UsageType ==
  ASSUME TypeOK, UsageNext, UNCHANGED <<allocationVars, dashboard>>
  PROVE  TypeOK'
<1> USE DEF AccountsTypeOK, UsageTypeOK, accountVars
<1> AccountsTypeOK /\ UsageTypeOK
  BY DEF TypeOK
<1> SUFFICES AccountsTypeOK' /\ UsageTypeOK'
  BY DEF TypeOK, allocationVars, AllocationTypeOK, ReconciliationTypeOK
<1> PICK r \in Requests :
      \/ \E n \in CreditsOrNone : Estimate(r, n)
      \/ ReserveRead(r)
      \/ ReserveWrite(r)
      \/ \E n \in CreditsOrNone : GeminiAnswer(r, n)
      \/ GeminiFailure(r)
      \/ CommitRead(r)
      \/ CommitWrite(r)
      \/ CommitReplyLost(r)
      \/ CommitFails(r)
      \/ Refund(r)
      \/ Crash(r)
  BY DEF UsageNext
<1> DEFINE q == request[r]
<1>a. /\ q \in Call
      /\ q.account \in Accounts
      /\ q.seen \in Row
      /\ q.reservation \in CreditsOrNone
      /\ q.actual \in CreditsOrNone
  BY DEF Call
<1>c. q.reservation \in Nat /\ q.actual \in Nat
  BY <1>a DEF CreditsOrNone
<1>b. account[q.account] \in Row /\ EmptyRow \in Row
  BY <1>a, Columns, RowType
<1>1. ASSUME NEW n \in CreditsOrNone, Estimate(r, n)
      PROVE  AccountsTypeOK' /\ UsageTypeOK'
  <2>1. UsageAccount(r) \in Accounts
    BY DEF UsageAccount, Accounts
  <2>2. n \in CreditsOrNone
    BY DEF Credits, CreditsOrNone
  <2> QED
    BY <1>a, <1>1, <2>1, <2>2 DEF Estimate, Call, Phases
<1>2. CASE ReserveRead(r)
  BY <1>a, <1>2, <1>b DEF ReserveRead, Call, Phases
<1>3. CASE ReserveWrite(r)
  <2>1. account[q.account].reserved + q.reservation \in Int
    BY <1>a, <1>c, Columns
  <2>2. account' \in Rows
    BY <1>3, <1>a, <2>1, NumberUpdate DEF ReserveWrite
  <2>3. UsageTypeOK'
    BY <1>a, <1>3, <1>b DEF ReserveWrite, Call, Phases
  <2> QED
    BY <1>3, <1>a, <2>2, <2>3 DEF ReserveWrite, Stale
<1>4. ASSUME NEW n \in CreditsOrNone, GeminiAnswer(r, n)
      PROVE  AccountsTypeOK' /\ UsageTypeOK'
  <2>1. n \in CreditsOrNone
    BY DEF Credits, CreditsOrNone
  <2> QED
    BY <1>a, <1>4, <2>1 DEF GeminiAnswer, Call, Phases
<1>5. CASE GeminiFailure(r)
  BY <1>a, <1>5 DEF GeminiFailure, Moves, Call, Phases
<1>6. CASE CommitRead(r)
  BY <1>a, <1>6, <1>b DEF CommitRead, Call, Phases
<1>7. ASSUME CommitEffect(r) PROVE AccountsTypeOK'
  <2>1. Chargeable(q) \in Int
    BY <1>a, <1>c, RowType DEF Chargeable
  <2> DEFINE released == [account EXCEPT
                            ![q.account].reserved = @ - q.reservation]
             charged == [released EXCEPT
                           ![q.account].used = @ + Chargeable(q)]
  <2>2. account[q.account].reserved - q.reservation \in Int
    BY <1>a, <1>c, Columns
  <2>3. released \in Rows
    BY <1>a, <2>2, NumberUpdate
  <2>4. released[q.account].used + Chargeable(q) \in Int
    BY <1>a, <1>c, <2>1, <2>3, Columns
  <2>5. charged \in Rows
    BY <1>a, <2>3, <2>4, NumberUpdate
  <2>6. account' = charged
    BY <1>7 DEF CommitEffect
  <2> QED
    BY <1>7, <1>a, <2>5, <2>6 DEF CommitEffect, Stale
<1>8. CASE CommitWrite(r)
  BY <1>a, <1>7, <1>8, <1>b DEF CommitWrite, Call, Phases
<1>9. CASE CommitReplyLost(r)
  BY <1>a, <1>7, <1>9, <1>b DEF CommitReplyLost, Call, Phases
<1>10. CASE CommitFails(r)
  BY <1>a, <1>10, <1>b DEF CommitFails, Call, Phases
<1>11. CASE Refund(r)
  <2>1. account[q.account].reserved - q.reservation \in Int
    BY <1>a, <1>c, Columns
  <2>2. account' \in Rows
    BY <1>11, <1>a, <2>1, NumberUpdate DEF Refund
  <2> QED
    BY <1>a, <1>11, <2>2 DEF Refund, Moves, Call, Phases
<1>12. CASE Crash(r)
  BY <1>a, <1>12, <1>b DEF Crash, Call, Phases
<1> QED
  BY <1>1, <1>2, <1>3, <1>4, <1>5, <1>6, <1>8, <1>9, <1>10, <1>11, <1>12

(***************************************************************************)
(* What an operation in progress holds.                                    *)
(***************************************************************************)
LEMMA OperationType ==
  ASSUME NEW op \in Operation
  PROVE  /\ op.source \in Accounts
         /\ op.target \in Accounts
         /\ op.amount \in Nat
         /\ op.seenSource \in Row
         /\ op.seenTarget \in Row
         /\ op.seenOldParent \in Row
         /\ op.seenTarget.allocated \in Nat
         /\ op.seenTarget.disabled \in BOOLEAN
         /\ op.seenTarget.parent \in Accounts \cup {NoAccount}
         /\ Delta(op) \in Int
         /\ SourceRequired(op) \in Int
<1>1. /\ op.source \in Accounts
      /\ op.target \in Accounts
      /\ op.amount \in Nat
      /\ op.seenSource \in Row
      /\ op.seenTarget \in Row
      /\ op.seenOldParent \in Row
  BY DEF Operation
<1>2. /\ op.seenTarget.allocated \in Nat
      /\ op.seenTarget.disabled \in BOOLEAN
      /\ op.seenTarget.parent \in Accounts \cup {NoAccount}
  BY <1>1 DEF Row
<1>3. Delta(op) \in Int
  BY <1>1, <1>2 DEF Delta
<1>4. SourceRequired(op) \in Int
  BY <1>1, <1>3 DEF SourceRequired
<1> QED
  BY <1>1, <1>2, <1>3, <1>4

LEMMA SetTargetType ==
  ASSUME NEW rows \in Rows, NEW op \in Operation
  PROVE  SetTarget(rows, op) \in Rows
<1> DEFINE active == IF op.amount > 0 THEN FALSE ELSE op.seenTarget.disabled
           f1 == [rows EXCEPT ![op.source].childAllocated =
                                @ + SourceRequired(op)]
           f2 == [f1 EXCEPT ![op.target].allocated = op.amount]
           f3 == [f2 EXCEPT ![op.target].parent = op.source]
           f4 == [f3 EXCEPT ![op.target].disabled = active]
<1>1. rows[op.source].childAllocated + SourceRequired(op) \in Int
  BY OperationType, Columns
<1>2. f1 \in Rows
  BY <1>1, OperationType, NumberUpdate
<1>3. f2 \in Rows
  BY <1>2, OperationType, GrantUpdate
<1>4. f3 \in Rows
  BY <1>3, OperationType, LinkUpdate
<1>5. active \in BOOLEAN
  BY OperationType
<1>6. f4 \in Rows
  BY <1>4, <1>5, OperationType, LinkUpdate
<1>7. SetTarget(rows, op) = f4
  BY DEF SetTarget
<1> QED
  BY <1>6, <1>7

LEMMA AddToTargetType ==
  ASSUME NEW rows \in Rows, NEW op \in Operation
  PROVE  AddToTarget(rows, op) \in Rows
<1> DEFINE f1 == [rows EXCEPT ![op.source].childAllocated = @ + op.amount]
           f2 == [f1 EXCEPT ![op.target].allocated = @ + op.amount]
           f3 == [f2 EXCEPT ![op.target].parent = op.source]
           f4 == [f3 EXCEPT ![op.target].disabled = FALSE]
<1>1. rows[op.source].childAllocated + op.amount \in Int
  BY OperationType, Columns
<1>2. f1 \in Rows
  BY <1>1, OperationType, NumberUpdate
<1>3. f1[op.target].allocated + op.amount \in Nat
  BY <1>2, OperationType, Columns
<1>4. f2 \in Rows
  BY <1>2, <1>3, OperationType, GrantUpdate
<1>5. f3 \in Rows
  BY <1>4, OperationType, LinkUpdate
<1>6. f4 \in Rows
  BY <1>5, OperationType, LinkUpdate
<1>7. AddToTarget(rows, op) = f4
  <2>1. f1[op.target].allocated = rows[op.target].allocated
    BY OperationType DEF Rows, Row
  <2> QED
    BY <2>1 DEF AddToTarget
<1> QED
  BY <1>6, <1>7

LEMMA AllocationType ==
  ASSUME TypeOK, AllocationNext, UNCHANGED <<request, dashboard>>
  PROVE  TypeOK'
<1> USE DEF AccountsTypeOK, AllocationTypeOK, accountVars
<1> AccountsTypeOK /\ AllocationTypeOK
  BY DEF TypeOK
<1> SUFFICES AccountsTypeOK' /\ AllocationTypeOK'
  BY DEF TypeOK, UsageTypeOK, ReconciliationTypeOK
<1> Idle \in Operation
  BY RowType DEF Idle, Operation, Accounts
<1>1. ASSUME StartsOperation PROVE operations' \in 0..MaxOperations
  BY <1>1 DEF StartsOperation
<1>2. ASSUME NEW a \in Accounts, NEW n \in Amounts, TopUp(a, n)
      PROVE  AccountsTypeOK' /\ AllocationTypeOK'
  <2> DEFINE f1 == [account EXCEPT ![a].allocated = @ + n]
             f2 == [f1 EXCEPT ![a].disabled = FALSE]
  <2>1. account[a].allocated + n \in Nat
    BY Columns
  <2>2. f1 \in Rows
    BY <2>1, GrantUpdate
  <2>3. f2 \in Rows
    BY <2>2, LinkUpdate
  <2>4. account' = f2
    BY <1>2 DEF TopUp
  <2> QED
    BY <1>1, <1>2, <2>3, <2>4 DEF TopUp
<1>3. ASSUME NEW u \in UserAccounts, NEW o \in OrgAccounts, AssignHome(u, o)
      PROVE  AccountsTypeOK' /\ AllocationTypeOK'
  BY <1>1, <1>3 DEF AssignHome
<1>4. ASSUME NEW o \in OrgAccounts, DisableOrganization(o)
      PROVE  AccountsTypeOK' /\ AllocationTypeOK'
  <2>1. ASSUME NEW a \in Accounts
        PROVE  [account[a] EXCEPT
                  !.disabled = @ \/ account[a].organization = o] \in Row
    <3>1. account[a] \in Row
      BY Columns
    <3>2. (account[a].disabled \/ account[a].organization = o) \in BOOLEAN
      OBVIOUS
    <3> QED
      BY <3>1, <3>2 DEF Row
  <2>2. account' \in Rows
    BY <1>4, <2>1 DEF DisableOrganization, Rows
  <2> QED
    BY <1>1, <1>4, <2>2 DEF DisableOrganization
<1>5. ASSUME NEW x \in Admins, NEW mode \in {"allocate", "set"},
             NEW s \in Accounts, NEW t \in OrgAccounts \cup UserAccounts,
             NEW n \in Amounts, Resolve(x, mode, s, t, n)
      PROVE  AccountsTypeOK' /\ AllocationTypeOK'
  <2> DEFINE f1 == [account EXCEPT ![t].parent = s]
             f2 == [f1 EXCEPT ![t].organization = homeOrg[t]]
             op == [Idle EXCEPT !.phase = "resolved", !.mode = mode,
                                !.source = s, !.target = t, !.amount = n]
  <2>1. t \in Accounts
    BY DEF Accounts
  <2>2. f1 \in Rows
    BY <2>1, LinkUpdate
  <2>3. t \in UserAccounts => f2 \in Rows
    BY <2>1, <2>2, LinkUpdate
  <2>4. t \in UserAccounts => account' = f2
    BY <1>5 DEF Resolve
  <2>5. account' \in Rows
    BY <1>5, <2>3, <2>4 DEF Resolve
  <2>6. op \in Operation
    BY <2>1 DEF Operation
  <2>7. admin' \in [Admins -> Operation]
    BY <1>5, <2>6 DEF Resolve
  <2> QED
    BY <1>1, <1>5, <2>5, <2>7 DEF Resolve
<1>6. ASSUME NEW x \in Admins, Check(x)
      PROVE  AccountsTypeOK' /\ AllocationTypeOK'
  <2> DEFINE read == [admin[x] EXCEPT
                        !.phase = "checked",
                        !.seenSource = account[admin[x].source],
                        !.seenTarget = account[admin[x].target]]
             op == IF LeavesOldParent(read)
                   THEN [read EXCEPT !.seenOldParent =
                                       account[read.seenTarget.parent]]
                   ELSE read
  <2>1. /\ account[admin[x].source] \in Row
        /\ account[admin[x].target] \in Row
    BY OperationType, Columns
  <2>2. read \in Operation
    BY <2>1 DEF Operation
  <2>3. LeavesOldParent(read) => account[read.seenTarget.parent] \in Row
    BY <2>2, OperationType, Columns DEF LeavesOldParent
  <2>4. op \in Operation
    BY <2>2, <2>3 DEF Operation
  <2>5. admin' = [admin EXCEPT ![x] = op] \/ Finishes(x)
    BY <1>6 DEF Check
  <2> QED
    BY <1>6, <2>4, <2>5 DEF Check, Finishes
<1>7. ASSUME NEW x \in Admins, WriteAllocate(x)
      PROVE  AccountsTypeOK' /\ AllocationTypeOK'
  <2>1. AddToTarget(account, admin[x]) \in Rows
    BY AddToTargetType
  <2> QED
    BY <1>7, <2>1, OperationType DEF WriteAllocate, Finishes, Stale
<1>8. ASSUME NEW x \in Admins, WriteSet(x)
      PROVE  AccountsTypeOK' /\ AllocationTypeOK'
  <2>1. SetTarget(account, admin[x]) \in Rows
    BY SetTargetType
  <2>2. Stale(SeenBySet(admin[x])) \subseteq Accounts
    BY OperationType DEF SeenBySet, Stale
  <2> QED
    BY <1>8, <2>1, <2>2 DEF WriteSet, Finishes
<1>9. ASSUME NEW x \in Admins, WriteSetMovingParent(x)
      PROVE  AccountsTypeOK' /\ AllocationTypeOK'
  <2> DEFINE op == admin[x]
             old == op.seenTarget.parent
             moved == op.seenTarget.allocated
             left == [account EXCEPT ![old].childAllocated =
                        SubtractChildAllocation(op.seenOldParent, moved)]
  <2>1. old \in Accounts
    BY <1>9, OperationType DEF WriteSetMovingParent, LeavesOldParent
  <2>2. /\ SubtractChildAllocation(op.seenOldParent, moved) \in Int
        /\ ClippedBy(op.seenOldParent, moved) \in Int
    BY OperationType, RowType
  <2>3. left \in Rows
    BY <2>1, <2>2, NumberUpdate
  <2>4. SetTarget(left, op) \in Rows
    BY <2>3, SetTargetType
  <2>5. /\ Stale(SeenBySet(op)) \subseteq Accounts
        /\ Stale([a \in {old} |-> op.seenOldParent]) \subseteq Accounts
        /\ RaisedBySubtraction(old, op.seenOldParent) \subseteq Accounts
    BY <2>1, OperationType DEF SeenBySet, Stale, RaisedBySubtraction
  <2>6. clipped' \in Int
    BY <1>9, <2>2 DEF WriteSetMovingParent
  <2> QED
    BY <1>9, <2>4, <2>5, <2>6 DEF WriteSetMovingParent, Finishes
<1>10. ASSUME NEW x \in Admins, Abort(x)
       PROVE  AccountsTypeOK' /\ AllocationTypeOK'
  BY <1>10 DEF Abort, Finishes
<1> QED
  BY ZenonT(30), <1>2, <1>3, <1>4, <1>5, <1>6, <1>7, <1>8, <1>9, <1>10 DEF AllocationNext

LEMMA OverviewType ==
  ASSUME NEW v \in Overview
  PROVE  /\ v.todo \subseteq Accounts
         /\ v.current \in Accounts
         /\ v.listed \in [UserAccounts -> Row]
         /\ v.homes \in [UserAccounts -> OrgAccounts]
         /\ v.seen \in Row
  BY DEF Overview

LEMMA TakeOverType ==
  ASSUME NEW rows \in Rows, NEW u \in UserAccounts, NEW home \in OrgAccounts,
         NEW moved \in Nat
  PROVE  TakeOver(rows, u, home, moved) \in Rows
<1> DEFINE f1 == [rows EXCEPT ![home].childAllocated = @ + moved]
           f2 == [f1 EXCEPT ![u].parent = home]
           f3 == [f2 EXCEPT ![u].organization = home]
<1> u \in Accounts /\ home \in Accounts
  BY DEF Accounts
<1>1. rows[home].childAllocated + moved \in Int
  BY Columns
<1>2. f1 \in Rows
  BY <1>1, NumberUpdate
<1>3. f2 \in Rows
  BY <1>2, LinkUpdate
<1>4. f3 \in Rows
  BY <1>3, LinkUpdate
<1>5. TakeOver(rows, u, home, moved) = f3
  BY DEF TakeOver
<1> QED
  BY <1>4, <1>5

LEMMA ReconciliationType ==
  ASSUME TypeOK, ReconciliationNext, UNCHANGED <<request, allocationVars>>
  PROVE  TypeOK'
<1> USE DEF AccountsTypeOK, ReconciliationTypeOK, accountVars
<1> AccountsTypeOK /\ ReconciliationTypeOK
  BY DEF TypeOK
<1> SUFFICES AccountsTypeOK' /\ ReconciliationTypeOK'
  BY DEF TypeOK, UsageTypeOK, allocationVars, AllocationTypeOK
<1> PICK d \in Dashboards :
      \/ ListUserAccounts(d)
      \/ \E u \in UserAccounts : ReadOldParent(d, u)
      \/ MoveUserAccount(d)
      \/ ListOverdrawn(d)
      \/ \E a \in Accounts : ReadOverdrawn(d, a)
      \/ ForgiveOverdraft(d)
      \/ FinishOverview(d)
  BY DEF ReconciliationNext
<1> DEFINE v == dashboard[d]
<1>a. v \in Overview
  OBVIOUS
<1>b. NoOverview \in Overview
  BY RowType DEF NoOverview, Overview, Accounts
<1>c. EmptyRow \in Row /\ Master \in Accounts
  BY RowType DEF Accounts
<1>1. CASE ListUserAccounts(d)
  <2>1. [u \in UserAccounts |-> account[u]] \in [UserAccounts -> Row]
    BY Columns DEF Accounts
  <2> DEFINE mismatched == {u \in UserAccounts :
                              \/ account[u].parent # homeOrg[u]
                              \/ account[u].organization # homeOrg[u]}
  <2>2. mismatched \subseteq Accounts
    BY DEF Accounts
  <2> QED
    BY ZenonT(30), <1>1, <1>b, <2>1, <2>2 DEF ListUserAccounts, Overview
<1>2. ASSUME NEW u \in UserAccounts, ReadOldParent(d, u)
      PROVE  AccountsTypeOK' /\ ReconciliationTypeOK'
  <2>1. u \in Accounts
    BY DEF Accounts
  <2> DEFINE old == v.listed[u].parent
             seen == IF old = NoAccount THEN EmptyRow ELSE account[old]
  <2>2. old \in Accounts \cup {NoAccount}
    BY <1>a, OverviewType DEF Row
  <2>3. seen \in Row
    BY <1>c, <2>2, Columns
  <2>4. dashboard' = [dashboard EXCEPT ![d].phase = "moving",
                                       ![d].todo = @ \ {u},
                                       ![d].current = u,
                                       ![d].seen = seen]
    BY <1>2 DEF ReadOldParent
  <2>5. dashboard' \in [Dashboards -> Overview]
    <3> HIDE DEF seen
    <3> QED
      BY ZenonT(30), <1>a, <2>1, <2>3, <2>4 DEF Overview
  <2>6. ASSUME NEW e \in Dashboards, dashboard'[e].phase = "moving"
        PROVE  dashboard'[e].current \in UserAccounts
    <3> HIDE DEF seen
    <3>1. CASE e = d
      BY <1>a, <2>4, <3>1 DEF Overview
    <3>2. CASE e # d
      BY <2>4, <2>6, <3>2
    <3> QED
      BY <3>1, <3>2
  <2> QED
    BY <1>2, <2>5, <2>6 DEF ReadOldParent
<1>3. CASE MoveUserAccount(d)
  <2> DEFINE u == v.current
             old == v.listed[u].parent
             home == v.homes[u]
             moved == v.listed[u].allocated
             left == GiveBack(old, v.seen, moved)
  <2>1. u \in UserAccounts
    BY <1>3 DEF MoveUserAccount
  <2>2. /\ old \in Accounts \cup {NoAccount}
        /\ moved \in Nat
        /\ home \in OrgAccounts
        /\ v.seen \in Row
    BY <1>a, <2>1, OverviewType DEF Row
  <2>3. /\ SubtractChildAllocation(v.seen, moved) \in Int
        /\ ClippedBy(v.seen, moved) \in Int
    BY <2>2, RowType
  <2>4. left \in Rows
    BY <2>2, <2>3, NumberUpdate DEF GiveBack
  <2>5. TakeOver(left, u, home, moved) \in Rows
    BY <2>1, <2>2, <2>4, TakeOverType
  <2>6. /\ Stale([a \in {old} \ {NoAccount} |-> v.seen]) \subseteq Accounts
        /\ RaisedBySubtraction(old, v.seen) \subseteq Accounts
        /\ home \in Accounts
    <3>1. {old} \ {NoAccount} \subseteq Accounts
      BY <2>2
    <3>2. RaisedBySubtraction(old, v.seen) \subseteq {old} \ {NoAccount}
      BY DEF RaisedBySubtraction
    <3>3. home \in Accounts
      BY <2>2 DEF Accounts
    <3>4. Stale([a \in {old} \ {NoAccount} |-> v.seen])
            \subseteq {old} \ {NoAccount}
      BY Zenon DEF Stale
    <3> QED
      BY <3>1, <3>2, <3>3, <3>4
  <2>7. clipped' \in Int
    BY <1>3, <2>3 DEF MoveUserAccount
  <2>8. ReconciliationTypeOK'
    BY ZenonT(30), <1>a, <1>c, <1>3 DEF MoveUserAccount, Overview
  <2> QED
    BY <1>3, <2>5, <2>6, <2>7, <2>8 DEF MoveUserAccount
<1>4. CASE ListOverdrawn(d)
  BY <1>a, <1>b, <1>4 DEF ListOverdrawn, Overview
<1>5. ASSUME NEW a \in Accounts, ReadOverdrawn(d, a)
      PROVE  AccountsTypeOK' /\ ReconciliationTypeOK'
  <2>1. account[a] \in Row
    BY Columns
  <2> QED
    BY <1>a, <1>5, <2>1 DEF ReadOverdrawn, Overview
<1>6. CASE ForgiveOverdraft(d)
  <2>1. v.current \in Accounts /\ v.seen \in Row
    BY <1>a, OverviewType
  <2>2. Adjustment(v.seen) \in Int
    BY <2>1, RowType DEF Adjustment, Row
  <2>3. account[v.current].used - Adjustment(v.seen) \in Int
    BY <2>1, <2>2, Columns
  <2>4. account' \in Rows
    BY <1>6, <2>1, <2>3, NumberUpdate DEF ForgiveOverdraft
  <2>5. ReconciliationTypeOK'
    BY <1>a, <1>c, <1>6 DEF ForgiveOverdraft, Overview
  <2> QED
    BY <1>6, <2>1, <2>4, <2>5 DEF ForgiveOverdraft, Stale
<1>7. CASE FinishOverview(d)
  BY <1>b, <1>7 DEF FinishOverview, NoOverview
<1> QED
  BY <1>1, <1>2, <1>3, <1>4, <1>5, <1>6, <1>7

LEMMA TypeStep == TypeOK /\ [Next]_vars => TypeOK'
<1> SUFFICES ASSUME TypeOK, [Next]_vars PROVE TypeOK'
  OBVIOUS
<1>1. CASE UsageNext /\ UNCHANGED <<allocationVars, dashboard>>
  BY <1>1, UsageType
<1>2. CASE AllocationNext /\ UNCHANGED <<request, dashboard>>
  BY <1>2, AllocationType
<1>3. CASE ReconciliationNext /\ UNCHANGED <<request, allocationVars>>
  BY <1>3, ReconciliationType
<1>4. CASE UNCHANGED vars
  BY <1>4 DEF vars, accountVars, allocationVars, TypeOK, AccountsTypeOK,
              UsageTypeOK, AllocationTypeOK, ReconciliationTypeOK
<1> QED
  BY <1>1, <1>2, <1>3, <1>4 DEF Next

(***************************************************************************)
(* Every row, snapshot and call stays well typed; in particular an         *)
(* allocation is never negative, and an overview moves only users'         *)
(* accounts.                                                               *)
(***************************************************************************)
THEOREM TypeCorrect == Spec => []TypeOK
  BY TypeInit, TypeStep, PTL DEF Spec

(***************************************************************************)
(* What allocating and setting an allocation do to the columns.            *)
(***************************************************************************)
LEMMA AddToTargetColumns ==
  ASSUME NEW rows \in Rows, NEW op \in Operation, NEW a \in Accounts
  PROVE  LET new == AddToTarget(rows, op) IN
         /\ new[a].allocated = IF a = op.target
                               THEN rows[a].allocated + op.amount
                               ELSE rows[a].allocated
         /\ new[a].childAllocated = IF a = op.source
                                    THEN rows[a].childAllocated + op.amount
                                    ELSE rows[a].childAllocated
         /\ new[a].used = rows[a].used
         /\ new[a].reserved = rows[a].reserved
<1> DEFINE f1 == [rows EXCEPT ![op.source].childAllocated = @ + op.amount]
           f2 == [f1 EXCEPT ![op.target].allocated = @ + op.amount]
           f3 == [f2 EXCEPT ![op.target].parent = op.source]
           f4 == [f3 EXCEPT ![op.target].disabled = FALSE]
<1>1. op.source \in Accounts /\ op.target \in Accounts
  BY OperationType
<1>2. f1[op.target].allocated = rows[op.target].allocated
  BY <1>1 DEF Rows, Row
<1>3. AddToTarget(rows, op) = f4
  BY <1>2 DEF AddToTarget
<1>4. /\ f1[a].allocated = rows[a].allocated
      /\ f1[a].childAllocated = IF a = op.source
                                THEN rows[a].childAllocated + op.amount
                                ELSE rows[a].childAllocated
      /\ f1[a].used = rows[a].used
      /\ f1[a].reserved = rows[a].reserved
  BY <1>1 DEF Rows, Row
<1>5. /\ f2[a].allocated = IF a = op.target
                           THEN f1[a].allocated + op.amount
                           ELSE f1[a].allocated
      /\ f2[a].childAllocated = f1[a].childAllocated
      /\ f2[a].used = f1[a].used
      /\ f2[a].reserved = f1[a].reserved
  BY <1>1 DEF Rows, Row
<1>6. /\ f4[a].allocated = f2[a].allocated
      /\ f4[a].childAllocated = f2[a].childAllocated
      /\ f4[a].used = f2[a].used
      /\ f4[a].reserved = f2[a].reserved
  BY <1>1 DEF Rows, Row
<1> HIDE DEF f1, f2, f4
<1> QED
  BY <1>3, <1>4, <1>5, <1>6

LEMMA SetTargetColumns ==
  ASSUME NEW rows \in Rows, NEW op \in Operation, NEW a \in Accounts
  PROVE  LET new == SetTarget(rows, op) IN
         /\ new[a].allocated = IF a = op.target THEN op.amount
                               ELSE rows[a].allocated
         /\ new[a].childAllocated = IF a = op.source
                               THEN rows[a].childAllocated + SourceRequired(op)
                               ELSE rows[a].childAllocated
         /\ new[a].used = rows[a].used
         /\ new[a].reserved = rows[a].reserved
<1> op.source \in Accounts /\ op.target \in Accounts
  BY OperationType
<1> QED
  BY DEF SetTarget, Rows, Row

-----------------------------------------------------------------------------
(***************************************************************************)
(* What an account has reserved is what its calls hold.  The units of      *)
(* credit a call holds are counted as a set, so that the sum over all      *)
(* calls is a cardinality.                                                 *)
(***************************************************************************)

(***************************************************************************)
(* A commit is recorded only on calls that are past it.                    *)
(***************************************************************************)
CommittedLate ==
  \A r \in Requests :
    request[r].committed =>
      request[r].phase \in {"charged", "failing", "refunded", "leaked"}

ReservationInv == TypeOK /\ CommittedLate /\ ReservationsAccounted

Units(r, n) == {r} \X (1..n)

Adds(S, r, n, T) == T = S \cup Units(r, n) /\ S \cap Units(r, n) = {}

HeldBy(q, a) == q.account = a /\ Holds(q)

TwiceBy(q, a) == q.account = a /\ ReleasedTwice(q)

LEMMA UnitsCount ==
  ASSUME NEW r, NEW n \in Nat
  PROVE  IsFiniteSet(Units(r, n)) /\ Cardinality(Units(r, n)) = n
<1>1. IsFiniteSet(1..n) /\ Cardinality(1..n) = n
  BY FS_Interval
<1>2. IsFiniteSet({r}) /\ Cardinality({r}) = 1
  BY FS_Singleton
<1>3. /\ IsFiniteSet({r} \X (1..n))
      /\ Cardinality({r} \X (1..n)) = Cardinality({r}) * Cardinality(1..n)
  BY <1>1, <1>2, FS_Product
<1> QED
  BY <1>1, <1>2, <1>3 DEF Units

(***************************************************************************)
(* Adding a call's units to a set that has none of them.                   *)
(***************************************************************************)
LEMMA AddUnits ==
  ASSUME NEW S, NEW T, IsFiniteSet(S), NEW r, NEW n \in Nat,
         Adds(S, r, n, T)
  PROVE  Cardinality(T) = Cardinality(S) + n
<1>1. IsFiniteSet(Units(r, n)) /\ Cardinality(Units(r, n)) = n
  BY UnitsCount
<1>2. Cardinality(S \cup Units(r, n))
        = Cardinality(S) + Cardinality(Units(r, n))
            - Cardinality(S \cap Units(r, n))
  BY <1>1, FS_Union
<1>3. Cardinality(S \cap Units(r, n)) = 0
  BY FS_EmptySet DEF Adds
<1>4. Cardinality(S) \in Nat
  BY FS_CardinalityType
<1>5. Cardinality(S \cup Units(r, n)) = Cardinality(S) + n
  BY <1>1, <1>2, <1>3, <1>4
<1> QED
  BY <1>5, Zenon DEF Adds

LEMMA UnitsFinite ==
  ASSUME NEW a
  PROVE  IsFiniteSet(HeldUnits(a)) /\ IsFiniteSet(TwiceReleasedUnits(a))
<1>1. IsFiniteSet(Credits)
  BY FS_Interval DEF Credits
<1>2. IsFiniteSet(Requests \X Credits)
  BY <1>1, FS_Product
<1>3. /\ HeldUnits(a) \subseteq Requests \X Credits
      /\ TwiceReleasedUnits(a) \subseteq Requests \X Credits
  BY DEF HeldUnits, TwiceReleasedUnits
<1> QED
  BY <1>2, <1>3, FS_Subset

(***************************************************************************)
(* How the units change when one call changes.                             *)
(***************************************************************************)
LEMMA HeldChange ==
  ASSUME NEW r \in Requests, NEW a,
         request[r].reservation \in CreditsOrNone,
         request'[r].reservation = request[r].reservation,
         \A s \in Requests \ {r} : request'[s] = request[s]
  PROVE  LET n == request[r].reservation IN
         /\ HeldBy(request'[r], a) <=> HeldBy(request[r], a)
              => HeldUnits(a)' = HeldUnits(a)
         /\ HeldBy(request'[r], a) /\ ~HeldBy(request[r], a)
              => Adds(HeldUnits(a), r, n, HeldUnits(a)')
         /\ ~HeldBy(request'[r], a) /\ HeldBy(request[r], a)
              => Adds(HeldUnits(a)', r, n, HeldUnits(a))
  BY DEF HeldUnits, HeldBy, Adds, Units, CreditsOrNone, Credits

LEMMA TwiceChange ==
  ASSUME NEW r \in Requests, NEW a,
         request[r].reservation \in CreditsOrNone,
         request'[r].reservation = request[r].reservation,
         \A s \in Requests \ {r} : request'[s] = request[s]
  PROVE  LET n == request[r].reservation IN
         /\ TwiceBy(request'[r], a) <=> TwiceBy(request[r], a)
              => TwiceReleasedUnits(a)' = TwiceReleasedUnits(a)
         /\ TwiceBy(request'[r], a) /\ ~TwiceBy(request[r], a)
              => Adds(TwiceReleasedUnits(a), r, n, TwiceReleasedUnits(a)')
  BY DEF TwiceReleasedUnits, TwiceBy, Adds, Units, CreditsOrNone, Credits

-----------------------------------------------------------------------------
LEMMA CommittedInit == Init => CommittedLate
  BY DEF Init, UsageInit, CommittedLate

LEMMA CommittedStep ==
  ASSUME TypeOK, CommittedLate, [Next]_vars
  PROVE  CommittedLate'
<1> USE DEF CommittedLate
<1>t. request \in [Requests -> Call]
  BY DEF TypeOK, UsageTypeOK
<1>1. CASE UNCHANGED request
  BY <1>1
<1>2. ASSUME UsageNext PROVE CommittedLate'
  <2> PICK r \in Requests :
        \/ \E n \in CreditsOrNone : Estimate(r, n)
        \/ ReserveRead(r)
        \/ ReserveWrite(r)
        \/ \E n \in CreditsOrNone : GeminiAnswer(r, n)
        \/ GeminiFailure(r)
        \/ CommitRead(r)
        \/ CommitWrite(r)
        \/ CommitReplyLost(r)
        \/ CommitFails(r)
        \/ Refund(r)
        \/ Crash(r)
    BY <1>2 DEF UsageNext
  <2>1. /\ request[r] \in Call
        /\ \A s \in Requests \ {r} : request'[s] = request[s]
    BY <1>t DEF Estimate, ReserveRead, ReserveWrite, GeminiAnswer,
       GeminiFailure, CommitRead, CommitWrite, CommitReplyLost, CommitFails,
       Refund, Crash, Moves
  <2>2. request'[r].committed =>
          request'[r].phase \in {"charged", "failing", "refunded", "leaked"}
    BY <1>t, <2>1
    DEF Call, Estimate, ReserveRead, ReserveWrite, GeminiAnswer,
       GeminiFailure, CommitRead, CommitWrite, CommitReplyLost, CommitFails,
       Refund, Crash, Moves
  <2> QED
    BY <2>1, <2>2
<1> QED
  BY <1>1, <1>2 DEF Next, vars

(***************************************************************************)
(* Administrators and overview pages leave every reservation alone.        *)
(***************************************************************************)
LEMMA AllocationKeepsReservations ==
  ASSUME TypeOK, AllocationNext, NEW a \in Accounts
  PROVE  account'[a].reserved = account[a].reserved
<1>t. account \in Rows /\ admin \in [Admins -> Operation]
  BY DEF TypeOK, AccountsTypeOK, AllocationTypeOK
<1>1. ASSUME NEW b \in Accounts, NEW n \in Amounts, TopUp(b, n)
      PROVE  account'[a].reserved = account[a].reserved
  BY <1>t, <1>1 DEF TopUp, Rows, Row
<1>2. ASSUME NEW o \in OrgAccounts, DisableOrganization(o)
      PROVE  account'[a].reserved = account[a].reserved
  BY <1>t, <1>2 DEF DisableOrganization, Rows, Row
<1>3. ASSUME NEW x \in Admins, NEW mode \in {"allocate", "set"},
             NEW s \in Accounts, NEW t \in OrgAccounts \cup UserAccounts,
             NEW n \in Amounts, Resolve(x, mode, s, t, n)
      PROVE  account'[a].reserved = account[a].reserved
  BY <1>t, <1>3 DEF Resolve, Rows, Row
<1>4. ASSUME NEW x \in Admins, WriteAllocate(x)
      PROVE  account'[a].reserved = account[a].reserved
  BY <1>t, <1>4, AddToTargetColumns DEF WriteAllocate
<1>5. ASSUME NEW x \in Admins, WriteSet(x)
      PROVE  account'[a].reserved = account[a].reserved
  BY <1>t, <1>5, SetTargetColumns DEF WriteSet
<1>6. ASSUME NEW x \in Admins, WriteSetMovingParent(x)
      PROVE  account'[a].reserved = account[a].reserved
  <2> DEFINE op == admin[x]
             old == op.seenTarget.parent
             child == SubtractChildAllocation(op.seenOldParent,
                                              op.seenTarget.allocated)
             left == [account EXCEPT ![old].childAllocated = child]
  <2>1. op \in Operation
    BY <1>t
  <2>2. old \in Accounts /\ child \in Int
    BY <1>6, <2>1, OperationType, RowType
    DEF WriteSetMovingParent, LeavesOldParent
  <2>3. left \in Rows
    BY <1>t, <2>2, NumberUpdate
  <2>4. left[a].reserved = account[a].reserved
    BY <1>t, <2>2 DEF Rows, Row
  <2>5. account' = SetTarget(left, op)
    BY <1>6 DEF WriteSetMovingParent
  <2> HIDE DEF left, op
  <2> QED
    BY <2>1, <2>3, <2>4, <2>5, SetTargetColumns
<1> QED
  BY <1>1, <1>2, <1>3, <1>4, <1>5, <1>6
  DEF AllocationNext, AssignHome, Check, Abort, accountVars

LEMMA ReconciliationKeepsReservations ==
  ASSUME TypeOK, ReconciliationNext, NEW a \in Accounts
  PROVE  account'[a].reserved = account[a].reserved
<1>t. account \in Rows
  BY DEF TypeOK, AccountsTypeOK
<1>1. ASSUME NEW d \in Dashboards, MoveUserAccount(d)
      PROVE  account'[a].reserved = account[a].reserved
  <2> DEFINE v == dashboard[d]
             old == v.listed[v.current].parent
             moved == v.listed[v.current].allocated
             home == v.homes[v.current]
             left == GiveBack(old, v.seen, moved)
  <2>1. DOMAIN left = Accounts /\ DOMAIN left[a] = DOMAIN account[a]
    BY <1>t DEF GiveBack, Rows, Row
  <2>2. left[a].reserved = account[a].reserved
    BY <1>t DEF GiveBack, Rows, Row
  <2>3. account' = TakeOver(left, v.current, home, moved)
    BY <1>1 DEF MoveUserAccount
  <2>4. DOMAIN account[a] = {"allocated", "used", "reserved",
                             "childAllocated", "disabled", "parent",
                             "organization"}
    BY <1>t DEF Rows, Row
  <2> HIDE DEF left, v, home, moved
  <2> QED
    BY <2>1, <2>2, <2>3, <2>4 DEF TakeOver
<1>2. ASSUME NEW d \in Dashboards, ForgiveOverdraft(d)
      PROVE  account'[a].reserved = account[a].reserved
  BY <1>t, <1>2 DEF ForgiveOverdraft, Rows, Row
<1> QED
  BY <1>1, <1>2 DEF ReconciliationNext, ListUserAccounts, ReadOldParent,
     ListOverdrawn, ReadOverdrawn, FinishOverview, accountVars

LEMMA OthersKeepReservations ==
  ASSUME ReservationsAccounted, UNCHANGED request,
         \A a \in Accounts : account'[a].reserved = account[a].reserved
  PROVE  ReservationsAccounted'
<1>1. ASSUME NEW a \in Accounts
      PROVE  /\ HeldUnits(a)' = HeldUnits(a)
             /\ TwiceReleasedUnits(a)' = TwiceReleasedUnits(a)
  BY DEF HeldUnits, TwiceReleasedUnits, Holds, ReleasedTwice
<1> QED
  BY <1>1 DEF ReservationsAccounted

(***************************************************************************)
(* A step of one call that moves no reserved credit.                       *)
(***************************************************************************)
LEMMA QuietStep ==
  ASSUME TypeOK, ReservationsAccounted, NEW r \in Requests,
         UNCHANGED account,
         \A s \in Requests \ {r} : request'[s] = request[s],
         request'[r].reservation = request[r].reservation,
         request'[r].account = request[r].account,
         Holds(request'[r]) <=> Holds(request[r]),
         ReleasedTwice(request'[r]) <=> ReleasedTwice(request[r])
  PROVE  ReservationsAccounted'
<1>1. request[r].reservation \in CreditsOrNone
  BY DEF TypeOK, UsageTypeOK, Call
<1>2. ASSUME NEW a \in Accounts
      PROVE  /\ HeldUnits(a)' = HeldUnits(a)
             /\ TwiceReleasedUnits(a)' = TwiceReleasedUnits(a)
  BY <1>1, HeldChange, TwiceChange DEF HeldBy, TwiceBy
<1> QED
  BY <1>2 DEF ReservationsAccounted

LEMMA HoldStep ==
  ASSUME TypeOK, ReservationsAccounted, NEW r \in Requests,
         \A s \in Requests \ {r} : request'[s] = request[s],
         request'[r].reservation = request[r].reservation,
         request'[r].account = request[r].account,
         ~Holds(request[r]), Holds(request'[r]),
         ~ReleasedTwice(request[r]), ~ReleasedTwice(request'[r]),
         \A a \in Accounts :
           account'[a].reserved = IF a = request[r].account
                                  THEN account[a].reserved
                                         + request[r].reservation
                                  ELSE account[a].reserved
  PROVE  ReservationsAccounted'
<1> DEFINE n == request[r].reservation
<1>1. n \in CreditsOrNone /\ n \in Nat
  BY DEF TypeOK, UsageTypeOK, Call, CreditsOrNone
<1> SUFFICES ASSUME NEW a \in Accounts
             PROVE  account'[a].reserved + Cardinality(TwiceReleasedUnits(a)')
                      = Cardinality(HeldUnits(a)')
  BY DEF ReservationsAccounted
<1>2. account[a].reserved + Cardinality(TwiceReleasedUnits(a))
        = Cardinality(HeldUnits(a))
  BY DEF ReservationsAccounted
<1>3. TwiceReleasedUnits(a)' = TwiceReleasedUnits(a)
  BY <1>1, TwiceChange DEF TwiceBy
<1>4. /\ account[a].reserved \in Int
      /\ Cardinality(TwiceReleasedUnits(a)) \in Nat
  BY Columns, UnitsFinite, FS_CardinalityType DEF TypeOK, AccountsTypeOK
<1>5. CASE a = request[r].account
  <2>1. Adds(HeldUnits(a), r, n, HeldUnits(a)')
    BY <1>1, <1>5, HeldChange DEF HeldBy
  <2>2. Cardinality(HeldUnits(a)') = Cardinality(HeldUnits(a)) + n
    <3>1. IsFiniteSet(HeldUnits(a))
      BY UnitsFinite
    <3> HIDE DEF n
    <3> QED
      BY <1>1, <2>1, <3>1, AddUnits
  <2> QED
    BY <1>1, <1>2, <1>3, <1>4, <1>5, <2>2
<1>6. CASE a # request[r].account
  <2>1. HeldUnits(a)' = HeldUnits(a)
    BY <1>1, <1>6, HeldChange DEF HeldBy
  <2> QED
    BY <1>2, <1>3, <1>6, <2>1
<1> QED
  BY <1>5, <1>6

(***************************************************************************)
(* A release: of a reservation still held, or a second one.                *)
(***************************************************************************)
LEMMA ReleaseStep ==
  ASSUME TypeOK, ReservationsAccounted, NEW r \in Requests,
         \A s \in Requests \ {r} : request'[s] = request[s],
         request'[r].reservation = request[r].reservation,
         request'[r].account = request[r].account,
         ~Holds(request'[r]), ~ReleasedTwice(request[r]),
         Holds(request[r]) <=> ~ReleasedTwice(request'[r]),
         \A a \in Accounts :
           account'[a].reserved = IF a = request[r].account
                                  THEN account[a].reserved
                                         - request[r].reservation
                                  ELSE account[a].reserved
  PROVE  ReservationsAccounted'
<1> DEFINE n == request[r].reservation
<1>1. n \in CreditsOrNone /\ n \in Nat
  BY DEF TypeOK, UsageTypeOK, Call, CreditsOrNone
<1> SUFFICES ASSUME NEW a \in Accounts
             PROVE  account'[a].reserved + Cardinality(TwiceReleasedUnits(a)')
                      = Cardinality(HeldUnits(a)')
  BY DEF ReservationsAccounted
<1>2. account[a].reserved + Cardinality(TwiceReleasedUnits(a))
        = Cardinality(HeldUnits(a))
  BY DEF ReservationsAccounted
<1>3. IsFiniteSet(HeldUnits(a)) /\ IsFiniteSet(TwiceReleasedUnits(a))
  BY UnitsFinite
<1>4. /\ account[a].reserved \in Int
      /\ Cardinality(TwiceReleasedUnits(a)) \in Nat
      /\ Cardinality(HeldUnits(a)) \in Nat
  BY <1>3, Columns, FS_CardinalityType DEF TypeOK, AccountsTypeOK
<1>5. CASE a = request[r].account /\ Holds(request[r])
  <2>1. TwiceReleasedUnits(a)' = TwiceReleasedUnits(a)
    BY <1>1, <1>5, TwiceChange DEF TwiceBy
  <2>2. Adds(HeldUnits(a)', r, n, HeldUnits(a))
    BY <1>1, <1>5, HeldChange DEF HeldBy
  <2>3. IsFiniteSet(HeldUnits(a)')
    BY <1>3, <2>2, FS_Subset DEF Adds
  <2>4. /\ Cardinality(HeldUnits(a)) = Cardinality(HeldUnits(a)') + n
        /\ Cardinality(HeldUnits(a)') \in Nat
    <3>1. Cardinality(HeldUnits(a)') \in Nat
      BY <2>3, FS_CardinalityType
    <3> HIDE DEF n
    <3> QED
      BY <1>1, <2>2, <2>3, <3>1, AddUnits
  <2> QED
    BY <1>1, <1>2, <1>4, <1>5, <2>1, <2>4
<1>6. CASE a = request[r].account /\ ~Holds(request[r])
  <2>1. HeldUnits(a)' = HeldUnits(a)
    BY <1>1, <1>6, HeldChange DEF HeldBy
  <2>2. Adds(TwiceReleasedUnits(a), r, n, TwiceReleasedUnits(a)')
    BY <1>1, <1>6, TwiceChange DEF TwiceBy
  <2>3. Cardinality(TwiceReleasedUnits(a)')
          = Cardinality(TwiceReleasedUnits(a)) + n
    <3> HIDE DEF n
    <3> QED
      BY <1>1, <1>3, <2>2, AddUnits
  <2> QED
    BY <1>1, <1>2, <1>4, <1>6, <2>1, <2>3
<1>7. CASE a # request[r].account
  <2>1. /\ HeldUnits(a)' = HeldUnits(a)
        /\ TwiceReleasedUnits(a)' = TwiceReleasedUnits(a)
    BY <1>1, <1>7, HeldChange, TwiceChange DEF HeldBy, TwiceBy
  <2> QED
    BY <1>2, <1>7, <2>1
<1> QED
  BY <1>5, <1>6, <1>7

LEMMA UsageReservations ==
  ASSUME TypeOK, CommittedLate, ReservationsAccounted, UsageNext
  PROVE  ReservationsAccounted'
<1>t. request \in [Requests -> Call] /\ account \in Rows
  BY DEF TypeOK, UsageTypeOK, AccountsTypeOK
<1>q. ASSUME NEW s \in Requests
      PROVE  /\ request[s] \in Call
             /\ request[s].account \in Accounts
             /\ request[s].reservation \in Int
             /\ Chargeable(request[s]) \in Int
  <2>1. /\ request[s] \in Call
        /\ request[s].reservation \in Int
        /\ request[s].actual \in Int
        /\ request[s].seen \in Row
    BY <1>t DEF Call, CreditsOrNone
  <2>2. Available(request[s].seen) \in Int
    BY <2>1, RowType
  <2> QED
    BY <2>1, <2>2 DEF Chargeable, Call
<1>1. ASSUME NEW r \in Requests, NEW n \in CreditsOrNone, Estimate(r, n)
      PROVE  ReservationsAccounted'
  <2>1. /\ ~Holds(request[r]) /\ ~ReleasedTwice(request[r])
        /\ ~Holds(request'[r]) /\ ~ReleasedTwice(request'[r])
        /\ \A s \in Requests \ {r} : request'[s] = request[s]
        /\ UNCHANGED account
    BY <1>t, <1>q, <1>1
    DEF Estimate, Holds, ReleasedTwice, Call, accountVars
  <2>2. ASSUME NEW a \in Accounts
        PROVE  /\ HeldUnits(a)' = HeldUnits(a)
               /\ TwiceReleasedUnits(a)' = TwiceReleasedUnits(a)
    BY <2>1 DEF HeldUnits, TwiceReleasedUnits
  <2> QED
    BY <2>1, <2>2 DEF ReservationsAccounted
<1>2. ASSUME NEW r \in Requests,
             \/ ReserveRead(r)
             \/ \E n \in CreditsOrNone : GeminiAnswer(r, n)
             \/ GeminiFailure(r)
             \/ CommitRead(r)
             \/ CommitFails(r)
             \/ Crash(r)
      PROVE  ReservationsAccounted'
  <2>1. request[r].committed =>
          request[r].phase \in {"charged", "failing", "refunded", "leaked"}
    BY DEF CommittedLate
  <2>2. /\ UNCHANGED account
        /\ \A s \in Requests \ {r} : request'[s] = request[s]
        /\ request'[r].reservation = request[r].reservation
        /\ request'[r].account = request[r].account
        /\ request'[r].committed = request[r].committed
    BY <1>t, <1>q, <1>2
    DEF ReserveRead, GeminiAnswer, GeminiFailure, CommitRead, CommitFails,
        Crash, Moves, Call, accountVars
  <2>3. /\ Holds(request'[r]) <=> Holds(request[r])
        /\ ReleasedTwice(request'[r]) <=> ReleasedTwice(request[r])
    BY <1>t, <1>q, <1>2, <2>1
    DEF ReserveRead, GeminiAnswer, GeminiFailure, CommitRead, CommitFails,
        Crash, Moves, Call, Holds, ReleasedTwice
  <2> QED
    BY <2>2, <2>3, QuietStep
<1>3. ASSUME NEW r \in Requests, ReserveWrite(r)
      PROVE  ReservationsAccounted'
  <2>1. /\ \A s \in Requests \ {r} : request'[s] = request[s]
        /\ request'[r].reservation = request[r].reservation
        /\ request'[r].account = request[r].account
        /\ ~Holds(request[r]) /\ Holds(request'[r])
        /\ ~ReleasedTwice(request[r]) /\ ~ReleasedTwice(request'[r])
    BY <1>t, <1>q, <1>3 DEF ReserveWrite, Call, Holds, ReleasedTwice
  <2>2. ASSUME NEW a \in Accounts
        PROVE  account'[a].reserved =
                 IF a = request[r].account
                 THEN account[a].reserved + request[r].reservation
                 ELSE account[a].reserved
    BY <1>t, <1>q, <1>3 DEF ReserveWrite, Rows, Row
  <2> QED
    BY <2>1, <2>2, HoldStep
<1>4. ASSUME NEW r \in Requests, CommitWrite(r) \/ CommitReplyLost(r)
      PROVE  ReservationsAccounted'
  <2>1. /\ \A s \in Requests \ {r} : request'[s] = request[s]
        /\ request'[r].reservation = request[r].reservation
        /\ request'[r].account = request[r].account
        /\ Holds(request[r]) /\ ~Holds(request'[r])
        /\ ~ReleasedTwice(request[r]) /\ ~ReleasedTwice(request'[r])
    BY <1>t, <1>q, <1>4
    DEF CommitWrite, CommitReplyLost, Call, Holds, ReleasedTwice
  <2>2. ASSUME NEW a \in Accounts
        PROVE  account'[a].reserved =
                 IF a = request[r].account
                 THEN account[a].reserved - request[r].reservation
                 ELSE account[a].reserved
    <3> DEFINE n == request[r].reservation
               k == Chargeable(request[r])
               c == request[r].account
    <3>1. account' = [account EXCEPT ![c].reserved = @ - n, ![c].used = @ + k]
      BY <1>4 DEF CommitWrite, CommitReplyLost, CommitEffect
    <3>2. c \in Accounts /\ n \in Int /\ k \in Int
      BY <1>q
    <3> HIDE DEF n, k, c
    <3>3. account'[a].reserved = IF a = c THEN account[a].reserved - n
                                 ELSE account[a].reserved
      BY <1>t, <3>1, <3>2 DEF Rows, Row
    <3> QED
      BY <3>3 DEF n, c
  <2> QED
    BY <2>1, <2>2, ReleaseStep
<1>5. ASSUME NEW r \in Requests, Refund(r)
      PROVE  ReservationsAccounted'
  <2>1. /\ \A s \in Requests \ {r} : request'[s] = request[s]
        /\ request'[r].reservation = request[r].reservation
        /\ request'[r].account = request[r].account
        /\ ~Holds(request'[r])
        /\ ~ReleasedTwice(request[r])
        /\ Holds(request[r]) <=> ~ReleasedTwice(request'[r])
    BY <1>t, <1>q, <1>5 DEF Refund, Moves, Call, Holds, ReleasedTwice
  <2>2. ASSUME NEW a \in Accounts
        PROVE  account'[a].reserved =
                 IF a = request[r].account
                 THEN account[a].reserved - request[r].reservation
                 ELSE account[a].reserved
    BY <1>t, <1>q, <1>5 DEF Refund, Rows, Row
  <2> QED
    BY <2>1, <2>2, ReleaseStep
<1> QED
  BY <1>1, <1>2, <1>3, <1>4, <1>5 DEF UsageNext

(***************************************************************************)
(* The reserved credits of an account are always those its calls hold,     *)
(* less the ones released by both a commit whose reply was lost and the    *)
(* refund after it, whatever administrators and overview pages do to the   *)
(* same rows.                                                              *)
(***************************************************************************)
THEOREM ReservationsBalance == Spec => []ReservationsAccounted
<1>1. Init => ReservationInv
  <2> SUFFICES ASSUME Init PROVE ReservationsAccounted
    BY TypeInit, CommittedInit DEF ReservationInv
  <2>1. \A a \in Accounts :
          /\ HeldUnits(a) = {}
          /\ TwiceReleasedUnits(a) = {}
          /\ account[a].reserved = 0
    BY DEF Init, AccountsInit, UsageInit, HeldUnits, TwiceReleasedUnits,
           Holds, ReleasedTwice
  <2>2. Cardinality({}) = 0
    BY FS_EmptySet
  <2>3. ASSUME NEW a \in Accounts
        PROVE  account[a].reserved + Cardinality(TwiceReleasedUnits(a))
                 = Cardinality(HeldUnits(a))
    <3>1. /\ Cardinality(TwiceReleasedUnits(a)) = 0
          /\ Cardinality(HeldUnits(a)) = 0
      BY <2>1, <2>2, Zenon
    <3> QED
      BY <2>1, <3>1
  <2> QED
    BY <2>3 DEF ReservationsAccounted
<1>2. ReservationInv /\ [Next]_vars => ReservationInv'
  <2> SUFFICES ASSUME TypeOK, CommittedLate, ReservationsAccounted, [Next]_vars
               PROVE  ReservationsAccounted'
    BY TypeStep, CommittedStep DEF ReservationInv
  <2>1. CASE UsageNext
    BY <2>1, UsageReservations
  <2>2. CASE AllocationNext /\ UNCHANGED <<request, dashboard>>
    BY <2>2, AllocationKeepsReservations, OthersKeepReservations
  <2>3. CASE ReconciliationNext /\ UNCHANGED <<request, allocationVars>>
    BY <2>3, ReconciliationKeepsReservations, OthersKeepReservations
  <2>4. CASE UNCHANGED vars
    BY <2>4, OthersKeepReservations DEF vars, accountVars
  <2> QED
    BY <2>1, <2>2, <2>3, <2>4 DEF Next
<1>3. ReservationInv => ReservationsAccounted
  BY DEF ReservationInv
<1> QED
  BY <1>1, <1>2, <1>3, PTL DEF Spec

-----------------------------------------------------------------------------

(***************************************************************************)
(* No overdraft without a race.  The invariant that is inductive also says *)
(* what an open transaction knows of the rows it has read: its check was   *)
(* passed on them.                                                         *)
(***************************************************************************)
ChecksPassed ==
  /\ \A r \in Requests :
       request[r].phase = "reserving" =>
         CanReserve(request[r].seen, request[r].account,
                    request[r].reservation)
  /\ \A x \in Admins :
       /\ admin[x].phase # "idle" => admin[x].source # admin[x].target
       /\ admin[x].phase = "checked" => Acceptable(admin[x])
  /\ \A d \in Dashboards :
       dashboard[d].phase = "forgiving" => dashboard[d].seen.used > 0

OverdraftInv == TypeOK /\ ChecksPassed /\ NoOverdraft

LEMMA ChecksInit == Init => ChecksPassed
  BY DEF Init, UsageInit, AllocationInit, ReconciliationInit, Idle, NoOverview,
         ChecksPassed

LEMMA ChecksStep == TypeOK /\ ChecksPassed /\ [Next]_vars => ChecksPassed'
<1> SUFFICES ASSUME TypeOK, ChecksPassed, [Next]_vars PROVE ChecksPassed'
  OBVIOUS
<1> USE DEF ChecksPassed
<1>t. /\ request \in [Requests -> Call]
      /\ admin \in [Admins -> Operation]
      /\ dashboard \in [Dashboards -> Overview]
  BY DEF TypeOK, UsageTypeOK, AllocationTypeOK, ReconciliationTypeOK
<1>1. CASE UsageNext /\ UNCHANGED <<allocationVars, dashboard>>
  <2>1. PICK r \in Requests :
          \/ \E n \in CreditsOrNone : Estimate(r, n)
          \/ ReserveRead(r)
          \/ ReserveWrite(r)
          \/ \E n \in CreditsOrNone : GeminiAnswer(r, n)
          \/ GeminiFailure(r)
          \/ CommitRead(r)
          \/ CommitWrite(r)
          \/ CommitReplyLost(r)
          \/ CommitFails(r)
          \/ Refund(r)
          \/ Crash(r)
    BY <1>1 DEF UsageNext
  <2>2. \A s \in Requests \ {r} : request'[s] = request[s]
    BY <2>1, <1>t DEF Estimate, ReserveRead, ReserveWrite, GeminiAnswer,
         GeminiFailure, CommitRead, CommitWrite, CommitReplyLost,
         CommitFails, Refund, Crash, Moves
  <2>3. request'[r].phase = "reserving" =>
          CanReserve(request'[r].seen, request'[r].account,
                     request'[r].reservation)
    <3>1. CASE ReserveRead(r)
      BY <3>1, <1>t DEF ReserveRead, Call
    <3>2. CASE ~ReserveRead(r)
      BY <3>2, <2>1, <1>t DEF Estimate, ReserveWrite, GeminiAnswer,
           GeminiFailure, CommitRead, CommitWrite, CommitReplyLost,
           CommitFails, Refund, Crash, Moves, Call
    <3> QED
      BY <3>1, <3>2
  <2>4. \A s \in Requests :
          request'[s].phase = "reserving" =>
            CanReserve(request'[s].seen, request'[s].account,
                       request'[s].reservation)
    BY <2>2, <2>3
  <2> QED
    BY <1>1, <2>4 DEF allocationVars
<1>2. CASE AllocationNext /\ UNCHANGED <<request, dashboard>>
  <2> SUFFICES ASSUME NEW x \in Admins
               PROVE  /\ admin'[x].phase # "idle" =>
                           admin'[x].source # admin'[x].target
                      /\ admin'[x].phase = "checked" => Acceptable(admin'[x])
    BY <1>2
  <2>1. CASE admin'[x] = admin[x]
    BY <2>1
  <2>2. CASE admin'[x] = Idle
    BY <2>2 DEF Idle
  <2>3. ASSUME NEW mode \in {"allocate", "set"}, NEW s \in Accounts,
               NEW t \in OrgAccounts \cup UserAccounts, NEW n \in Amounts,
               Resolve(x, mode, s, t, n), admin'[x] # admin[x]
        PROVE  admin'[x].phase = "resolved" /\ admin'[x].source # admin'[x].target
    BY <2>3, <1>t DEF Resolve, Idle
  <2>4. ASSUME Check(x), admin'[x] # Idle
        PROVE  /\ Acceptable(admin'[x])
               /\ admin'[x].source = admin[x].source
               /\ admin'[x].target = admin[x].target
               /\ admin[x].phase # "idle"
    <3> DEFINE read == [admin[x] EXCEPT
                          !.phase = "checked",
                          !.seenSource = account[admin[x].source],
                          !.seenTarget = account[admin[x].target]]
               op == IF LeavesOldParent(read)
                     THEN [read EXCEPT !.seenOldParent =
                                         account[read.seenTarget.parent]]
                     ELSE read
    <3>1. Acceptable(op) /\ admin' = [admin EXCEPT ![x] = op]
      BY <2>4, <1>t DEF Check, Finishes
    <3>2. op.source = admin[x].source /\ op.target = admin[x].target
      BY <1>t DEF Operation
    <3>3. admin'[x] = op
      BY <3>1, <1>t
    <3> HIDE DEF op
    <3> QED
      BY <2>4, <3>1, <3>2, <3>3 DEF Check
  <2>5. \/ admin'[x] = admin[x]
        \/ admin'[x] = Idle
        \/ \E mode \in {"allocate", "set"}, s \in Accounts,
              t \in OrgAccounts \cup UserAccounts, n \in Amounts :
             Resolve(x, mode, s, t, n)
        \/ Check(x)
    <3>1. ASSUME UNCHANGED admin PROVE admin'[x] = admin[x]
      BY <3>1
    <3>2. ASSUME NEW y \in Admins, Finishes(y)
          PROVE  admin'[x] = admin[x] \/ admin'[x] = Idle
      BY <3>2, <1>t DEF Finishes
    <3>3. ASSUME NEW y \in Admins, Check(y)
          PROVE  admin'[x] = admin[x] \/ Check(x)
      BY <3>3, <1>t DEF Check, Finishes
    <3>4. ASSUME NEW y \in Admins, NEW mode \in {"allocate", "set"},
                 NEW s \in Accounts, NEW t \in OrgAccounts \cup UserAccounts,
                 NEW n \in Amounts, Resolve(y, mode, s, t, n)
          PROVE  admin'[x] = admin[x] \/ Resolve(x, mode, s, t, n)
      BY <3>4, <1>t DEF Resolve
    <3>5. CASE \/ \E a \in Accounts, n \in Amounts : TopUp(a, n)
               \/ \E u \in UserAccounts, o \in OrgAccounts : AssignHome(u, o)
               \/ \E o \in OrgAccounts : DisableOrganization(o)
      BY <3>1, <3>5 DEF TopUp, AssignHome, DisableOrganization
    <3>6. ASSUME NEW y \in Admins,
                 \/ WriteAllocate(y)
                 \/ WriteSet(y)
                 \/ WriteSetMovingParent(y)
                 \/ Abort(y)
          PROVE  admin'[x] = admin[x] \/ admin'[x] = Idle
      BY <3>2, <3>6 DEF WriteAllocate, WriteSet, WriteSetMovingParent, Abort
    <3> QED
      BY <1>2, <3>3, <3>4, <3>5, <3>6 DEF AllocationNext
  <2> QED
    BY <2>1, <2>2, <2>3, <2>4, <2>5
<1>3. CASE ReconciliationNext /\ UNCHANGED <<request, allocationVars>>
  <2> SUFFICES ASSUME NEW d \in Dashboards,
                      dashboard'[d].phase = "forgiving",
                      dashboard'[d] # dashboard[d]
               PROVE  dashboard'[d].seen.used > 0
    BY <1>3 DEF allocationVars
  <2>1. PICK a \in Accounts : ReadOverdrawn(d, a)
    <3>1. ASSUME NEW e \in Dashboards,
                 \/ ListUserAccounts(e)
                 \/ \E u \in UserAccounts : ReadOldParent(e, u)
                 \/ MoveUserAccount(e)
                 \/ ListOverdrawn(e)
                 \/ ForgiveOverdraft(e)
                 \/ FinishOverview(e)
          PROVE  dashboard'[d] = dashboard[d] \/ dashboard'[d].phase # "forgiving"
      <4>1. CASE e # d
        BY <3>1, <4>1, <1>t DEF ListUserAccounts, ReadOldParent,
             MoveUserAccount, ListOverdrawn, ForgiveOverdraft, FinishOverview
      <4>2. CASE e = d
        <5>1. dashboard[d] \in Overview
          BY <1>t
        <5>2. CASE ListUserAccounts(d) \/ ListOverdrawn(d) \/ FinishOverview(d)
          <6>1. NoOverview \in Overview /\ NoOverview.phase = "idle"
            BY RowType DEF NoOverview, Overview, Accounts
          <6>2. CASE ListUserAccounts(d)
            BY <6>1, <6>2, <1>t DEF ListUserAccounts, Overview
          <6>3. CASE ListOverdrawn(d)
            BY <6>1, <6>3, <1>t DEF ListOverdrawn, Overview
          <6>4. CASE FinishOverview(d)
            BY <6>1, <6>4, <1>t DEF FinishOverview
          <6> QED
            BY <5>2, <6>2, <6>3, <6>4
        <5>3. CASE \E u \in UserAccounts : ReadOldParent(d, u)
          BY <5>1, <5>3, <1>t DEF ReadOldParent, Overview
        <5>4. CASE MoveUserAccount(d)
          BY <5>1, <5>4, <1>t DEF MoveUserAccount, Overview
        <5>5. CASE ForgiveOverdraft(d)
          BY <5>1, <5>5, <1>t DEF ForgiveOverdraft, Overview
        <5> QED
          BY <3>1, <4>2, <5>2, <5>3, <5>4, <5>5
      <4> QED
        BY <4>1, <4>2
    <3>2. ASSUME NEW e \in Dashboards, NEW a \in Accounts, ReadOverdrawn(e, a)
          PROVE  dashboard'[d] = dashboard[d] \/ ReadOverdrawn(d, a)
      BY <3>2, <1>t DEF ReadOverdrawn
    <3> QED
      BY <1>3, <3>1, <3>2 DEF ReconciliationNext
  <2> QED
    BY <2>1, <1>t DEF ReadOverdrawn, Overview
<1>4. CASE UNCHANGED vars
  BY <1>4 DEF vars, allocationVars
<1> QED
  BY <1>1, <1>2, <1>3, <1>4 DEF Next
(***************************************************************************)
(* A row keeps its balance when its numbers do not change for the worse.   *)
(***************************************************************************)
LEMMA BalanceKept ==
  ASSUME NEW old \in Row, NEW new \in Row, Available(old) >= 0,
         new.allocated >= old.allocated, new.used <= old.used,
         new.reserved <= old.reserved,
         new.childAllocated <= old.childAllocated
  PROVE  Available(new) >= 0
  BY DEF Available, Row

LEMMA OverdraftUsage ==
  ASSUME TypeOK, ChecksPassed, NoOverdraft, UsageNext,
         UNCHANGED <<allocationVars, dashboard>>, TypeOK'
  PROVE  NoOverdraft'
<1> USE DEF NoOverdraft
<1>t. /\ request \in [Requests -> Call]
      /\ account \in Rows
      /\ account' \in Rows
  BY DEF TypeOK, UsageTypeOK, AccountsTypeOK
<1>1. PICK r \in Requests :
        \/ \E n \in CreditsOrNone : Estimate(r, n)
        \/ ReserveRead(r)
        \/ ReserveWrite(r)
        \/ \E n \in CreditsOrNone : GeminiAnswer(r, n)
        \/ GeminiFailure(r)
        \/ CommitRead(r)
        \/ CommitWrite(r)
        \/ CommitReplyLost(r)
        \/ CommitFails(r)
        \/ Refund(r)
        \/ Crash(r)
  BY DEF UsageNext
<1> DEFINE q == request[r]
<1>q. /\ q.account \in Accounts
      /\ q.reservation \in Nat
      /\ q.actual \in Nat
      /\ q.seen \in Row
  BY <1>t DEF Call, CreditsOrNone
<1>2. CASE UNCHANGED accountVars
  BY <1>2 DEF accountVars
<1>3. CASE ReserveWrite(r)
  <2> SUFFICES ASSUME NEW a \in Accounts \ (overtaken' \cup unchecked'
                                               \cup Unlimited)
               PROVE  Available(account'[a]) >= 0
    OBVIOUS
  <2>1. a \notin overtaken \cup unchecked \cup Unlimited
    BY <1>3 DEF ReserveWrite
  <2>2. Available(account[a]) >= 0
    BY <2>1
  <2>3. CASE a # q.account
    BY <1>3, <1>t, <2>2, <2>3 DEF ReserveWrite, Rows
  <2>4. CASE a = q.account
    <3>1. q.seen = account[a]
      BY <1>3, <2>4 DEF ReserveWrite, Stale
    <3>2. Available(account[a]) >= q.reservation
      BY <1>3, <2>1, <2>4, <3>1 DEF ReserveWrite, ChecksPassed, CanReserve
    <3>3. account'[a] = [account[a] EXCEPT !.reserved = @ + q.reservation]
      BY <1>3, <1>t, <1>q, <2>4 DEF ReserveWrite, Rows
    <3> QED
      BY <1>t, <1>q, <3>2, <3>3, Columns DEF Available, Row
  <2> QED
    BY <2>3, <2>4
<1>4. ASSUME CommitEffect(r) PROVE NoOverdraft'
  <2> SUFFICES ASSUME NEW a \in Accounts \ (overtaken' \cup unchecked'
                                               \cup Unlimited)
               PROVE  Available(account'[a]) >= 0
    OBVIOUS
  <2>1. a \notin overtaken \cup unchecked \cup Unlimited
    BY <1>4 DEF CommitEffect
  <2>2. Available(account[a]) >= 0
    BY <2>1
  <2>3. CASE a # q.account
    BY <1>4, <1>t, <2>2, <2>3 DEF CommitEffect, Rows
  <2>4. CASE a = q.account
    <3>1. q.seen = account[a]
      BY <1>4, <2>4 DEF CommitEffect, Stale
    <3>2. /\ Chargeable(q) \in Int
          /\ Chargeable(q) <= Available(account[a]) + q.reservation
      BY <1>t, <1>q, <2>1, <2>2, <2>4, <3>1, Columns, RowType DEF Chargeable
    <3>3. /\ account'[a].allocated = account[a].allocated
          /\ account'[a].childAllocated = account[a].childAllocated
          /\ account'[a].reserved = account[a].reserved - q.reservation
          /\ account'[a].used = account[a].used + Chargeable(q)
      BY <1>4, <1>t, <1>q, <2>4 DEF CommitEffect, Rows, Row
    <3>4. /\ account[a].allocated \in Int
          /\ account[a].used \in Int
          /\ account[a].reserved \in Int
          /\ account[a].childAllocated \in Int
      BY <1>t, Columns
    <3> HIDE DEF q
    <3> QED
      BY <1>q, <3>2, <3>3, <3>4 DEF Available
  <2> QED
    BY <2>3, <2>4
<1>5. CASE Refund(r)
  <2> SUFFICES ASSUME NEW a \in Accounts \ (overtaken' \cup unchecked'
                                               \cup Unlimited)
               PROVE  Available(account'[a]) >= 0
    OBVIOUS
  <2>1. Available(account[a]) >= 0
    BY <1>5 DEF Refund
  <2>2. /\ account'[a].allocated = account[a].allocated
        /\ account'[a].childAllocated = account[a].childAllocated
        /\ account'[a].reserved <= account[a].reserved
        /\ account'[a].used = account[a].used
    BY <1>5, <1>t, <1>q DEF Refund, Rows, Row
  <2>3. /\ account[a].used \in Int
        /\ account[a].childAllocated \in Int
        /\ account[a].allocated \in Int
        /\ account[a] \in Row
        /\ account'[a] \in Row
    BY <1>t, Columns
  <2> QED
    BY <2>1, <2>2, <2>3, BalanceKept
<1> QED
  BY <1>1, <1>2, <1>3, <1>4, <1>5 DEF Estimate, ReserveRead, GeminiAnswer,
     GeminiFailure, CommitRead, CommitWrite, CommitReplyLost, CommitFails, Crash

LEMMA SubtractLowers ==
  ASSUME NEW row \in Row, NEW amount \in Nat, row.childAllocated >= 0
  PROVE  SubtractChildAllocation(row, amount) <= row.childAllocated
  BY DEF SubtractChildAllocation, Row

LEMMA OverdraftAllocation ==
  ASSUME TypeOK, ChecksPassed, NoOverdraft, AllocationNext,
         UNCHANGED <<request, dashboard>>, TypeOK'
  PROVE  NoOverdraft'
<1> USE DEF NoOverdraft
<1>t. /\ admin \in [Admins -> Operation]
      /\ account \in Rows
      /\ account' \in Rows
  BY DEF TypeOK, AllocationTypeOK, AccountsTypeOK
<1>m. overtaken \subseteq overtaken' /\ unchecked \subseteq unchecked'
  <2>1. ASSUME NEW x \in Admins,
               WriteAllocate(x) \/ WriteSet(x) \/ WriteSetMovingParent(x)
        PROVE  overtaken \subseteq overtaken' /\ unchecked \subseteq unchecked'
    BY <2>1 DEF WriteAllocate, WriteSet, WriteSetMovingParent
  <2>2. ASSUME NEW x \in Admins, NEW mode \in {"allocate", "set"},
               NEW s \in Accounts, NEW t \in OrgAccounts \cup UserAccounts,
               NEW n \in Amounts, Resolve(x, mode, s, t, n)
        PROVE  overtaken \subseteq overtaken' /\ unchecked \subseteq unchecked'
    BY <2>2 DEF Resolve
  <2> QED
    BY <2>1, <2>2 DEF AllocationNext, TopUp, AssignHome, DisableOrganization,
       Check, Abort, accountVars
<1> SUFFICES ASSUME NEW a \in Accounts \ (overtaken' \cup unchecked'
                                             \cup Unlimited)
             PROVE  Available(account'[a]) >= 0
  OBVIOUS
<1>a. Available(account[a]) >= 0
  BY <1>m
<1>b. /\ account[a] \in Row
      /\ account'[a] \in Row
      /\ account[a].used \in Int
      /\ account[a].reserved \in Int
      /\ account[a].childAllocated \in Int
      /\ account[a].allocated \in Int
  BY <1>t, Columns
<1>k. ASSUME account'[a].allocated >= account[a].allocated,
             account'[a].used = account[a].used,
             account'[a].reserved = account[a].reserved,
             account'[a].childAllocated <= account[a].childAllocated
      PROVE  Available(account'[a]) >= 0
  BY <1>a, <1>b, <1>k, BalanceKept
<1>1. CASE UNCHANGED account
  BY <1>1, <1>a
<1>2. ASSUME NEW c \in Accounts, NEW n \in Amounts, TopUp(c, n)
      PROVE  Available(account'[a]) >= 0
  <2>1. /\ account'[a].allocated >= account[a].allocated
        /\ account'[a].used = account[a].used
        /\ account'[a].reserved = account[a].reserved
        /\ account'[a].childAllocated = account[a].childAllocated
    BY <1>2, <1>b, <1>t DEF TopUp, Rows, Row
  <2> QED
    BY <1>b, <1>k, <2>1
<1>3. ASSUME NEW o \in OrgAccounts, DisableOrganization(o)
      PROVE  Available(account'[a]) >= 0
  <2>1. /\ account'[a].allocated = account[a].allocated
        /\ account'[a].used = account[a].used
        /\ account'[a].reserved = account[a].reserved
        /\ account'[a].childAllocated = account[a].childAllocated
    BY <1>3, <1>b DEF DisableOrganization, Row
  <2> QED
    BY <1>b, <1>k, <2>1
<1>4. ASSUME NEW x \in Admins, NEW mode \in {"allocate", "set"},
             NEW s \in Accounts, NEW t \in OrgAccounts \cup UserAccounts,
             NEW n \in Amounts, Resolve(x, mode, s, t, n)
      PROVE  Available(account'[a]) >= 0
  <2>1. /\ account'[a].allocated = account[a].allocated
        /\ account'[a].used = account[a].used
        /\ account'[a].reserved = account[a].reserved
        /\ account'[a].childAllocated = account[a].childAllocated
    BY <1>4, <1>b, <1>t DEF Resolve, Rows, Row
  <2> QED
    BY <1>b, <1>k, <2>1
<1>5. ASSUME NEW x \in Admins, WriteAllocate(x)
      PROVE  Available(account'[a]) >= 0
  <2> DEFINE op == admin[x]
  <2>1. op \in Operation /\ op.source # op.target /\ Acceptable(op)
    BY <1>5, <1>t DEF WriteAllocate, ChecksPassed
  <2>2. op.source \in Accounts /\ op.target \in Accounts /\ op.amount \in Nat
    BY <2>1, OperationType
  <2>3. /\ account'[a].allocated = IF a = op.target
                                   THEN account[a].allocated + op.amount
                                   ELSE account[a].allocated
        /\ account'[a].childAllocated = IF a = op.source
                                   THEN account[a].childAllocated + op.amount
                                   ELSE account[a].childAllocated
        /\ account'[a].used = account[a].used
        /\ account'[a].reserved = account[a].reserved
    BY <1>5, <1>t, <2>1, AddToTargetColumns DEF WriteAllocate
  <2>4. CASE a = op.source
    <3>1. op.seenSource = account[a]
      BY <1>5, <2>4 DEF WriteAllocate, Stale
    <3>2. op.amount > 0 => Available(account[a]) >= op.amount
      BY <1>5, <2>1, <3>1 DEF WriteAllocate, Acceptable, SourceRequired
    <3> HIDE DEF op
    <3> QED
      BY <1>a, <1>b, <2>1, <2>2, <2>3, <2>4, <3>2 DEF Available
  <2>5. CASE a # op.source
    <3> HIDE DEF op
    <3> QED
      BY <1>b, <1>k, <2>2, <2>3, <2>5
  <2> QED
    BY <2>4, <2>5
(***************************************************************************)
(* Setting an allocation, on rows that lower no other account's balance.   *)
(***************************************************************************)
<1>6. ASSUME NEW op \in Operation, NEW rows \in Rows,
             op.mode = "set", op.source # op.target, Acceptable(op),
             account' = SetTarget(rows, op),
             a = op.source => op.seenSource = account[a],
             a = op.target => op.seenTarget = account[a],
             rows[a].allocated = account[a].allocated,
             rows[a].used = account[a].used,
             rows[a].reserved = account[a].reserved,
             rows[a].childAllocated <= account[a].childAllocated
      PROVE  Available(account'[a]) >= 0
  <2>1. /\ account'[a].allocated = IF a = op.target THEN op.amount
                                   ELSE account[a].allocated
        /\ account'[a].childAllocated = IF a = op.source
                               THEN rows[a].childAllocated + SourceRequired(op)
                               ELSE rows[a].childAllocated
        /\ account'[a].used = account[a].used
        /\ account'[a].reserved = account[a].reserved
    BY <1>6, SetTargetColumns
  <2>2. /\ op.amount \in Nat
        /\ SourceRequired(op) \in Int
        /\ rows[a].childAllocated \in Int
    BY OperationType, Columns
  <2>3. CASE a = op.target
    <3>1. op.amount >= Spent(account[a])
      BY <1>6, <2>3 DEF Acceptable
    <3> QED
      BY <1>6, <1>b, <2>1, <2>2, <2>3, <3>1 DEF Available, Spent
  <2>4. CASE a = op.source
    <3>1. SourceRequired(op) > 0 => Available(account[a]) >= SourceRequired(op)
      BY <1>6, <2>4 DEF Acceptable
    <3> QED
      BY <1>6, <1>a, <1>b, <2>1, <2>2, <2>4, <3>1 DEF Available
  <2>5. CASE a # op.target /\ a # op.source
    BY <1>6, <1>b, <1>k, <2>1, <2>5
  <2> QED
    BY <2>3, <2>4, <2>5
<1>7. ASSUME NEW x \in Admins, WriteSet(x)
      PROVE  Available(account'[a]) >= 0
  <2> DEFINE op == admin[x]
  <2>1. op \in Operation /\ op.source # op.target /\ Acceptable(op)
    BY <1>7, <1>t DEF WriteSet, ChecksPassed
  <2>2. a \notin Stale(SeenBySet(op))
    BY <1>7 DEF WriteSet
  <2>3. /\ a = op.source => op.seenSource = account[a]
        /\ a = op.target => op.seenTarget = account[a]
    BY <2>1, <2>2 DEF Stale, SeenBySet
  <2> QED
    BY <1>6, <1>7, <1>t, <1>b, <2>1, <2>3 DEF WriteSet
<1>8. ASSUME NEW x \in Admins, WriteSetMovingParent(x)
      PROVE  Available(account'[a]) >= 0
  <2> DEFINE op == admin[x]
             old == op.seenTarget.parent
             moved == op.seenTarget.allocated
             left == [account EXCEPT ![old].childAllocated =
                        SubtractChildAllocation(op.seenOldParent, moved)]
  <2>1. op \in Operation /\ op.source # op.target /\ Acceptable(op)
    BY <1>8, <1>t DEF WriteSetMovingParent, ChecksPassed
  <2>2. a \notin Stale(SeenBySet(op))
    BY <1>8 DEF WriteSetMovingParent
  <2>3. /\ a = op.source => op.seenSource = account[a]
        /\ a = op.target => op.seenTarget = account[a]
    BY <2>1, <2>2 DEF Stale, SeenBySet
  <2>4. /\ op.mode = "set"
        /\ account' = SetTarget(left, op)
        /\ old # NoAccount
    BY <1>8 DEF WriteSetMovingParent, LeavesOldParent
  <2>5. old \in Accounts /\ moved \in Nat /\ op.seenOldParent \in Row
    BY <2>1, <2>4, OperationType
  <2>6. a = old => op.seenOldParent = account[a]
    BY <1>8 DEF WriteSetMovingParent, Stale
  <2>7. a = old => op.seenOldParent.childAllocated >= 0
    <3>1. a \notin RaisedBySubtraction(old, op.seenOldParent)
      BY <1>8 DEF WriteSetMovingParent
    <3>2. op.seenOldParent.childAllocated \in Int
      BY <2>5 DEF Row
    <3> QED
      BY <2>4, <3>1, <3>2 DEF RaisedBySubtraction
  <2>8. SubtractChildAllocation(op.seenOldParent, moved) \in Int
    BY <2>5, RowType
  <2>9. left \in Rows
    BY <1>t, <2>5, <2>8, NumberUpdate
  <2>10. /\ left[a].allocated = account[a].allocated
         /\ left[a].used = account[a].used
         /\ left[a].reserved = account[a].reserved
         /\ left[a].childAllocated =
              IF a = old THEN SubtractChildAllocation(op.seenOldParent, moved)
              ELSE account[a].childAllocated
    BY <1>t, <2>5 DEF Rows, Row
  <2>11. left[a].childAllocated <= account[a].childAllocated
    <3> HIDE DEF left
    <3> QED
      BY <1>b, <2>5, <2>6, <2>7, <2>10, SubtractLowers
  <2> HIDE DEF op, old, moved, left
  <2> QED
    BY <1>6, <2>1, <2>3, <2>4, <2>9, <2>10, <2>11
<1> QED
  BY ZenonT(30), <1>1, <1>2, <1>3, <1>4, <1>5, <1>7, <1>8
  DEF AllocationNext, AssignHome, Check, Abort, accountVars

LEMMA OverdraftReconciliation ==
  ASSUME TypeOK, ChecksPassed, NoOverdraft, ReconciliationNext,
         UNCHANGED <<request, allocationVars>>, TypeOK'
  PROVE  NoOverdraft'
<1> USE DEF NoOverdraft
<1>t. /\ dashboard \in [Dashboards -> Overview]
      /\ account \in Rows
      /\ account' \in Rows
  BY DEF TypeOK, ReconciliationTypeOK, AccountsTypeOK
<1>1. PICK d \in Dashboards :
        \/ ListUserAccounts(d)
        \/ \E u \in UserAccounts : ReadOldParent(d, u)
        \/ MoveUserAccount(d)
        \/ ListOverdrawn(d)
        \/ \E a \in Accounts : ReadOverdrawn(d, a)
        \/ ForgiveOverdraft(d)
        \/ FinishOverview(d)
  BY DEF ReconciliationNext
<1> DEFINE v == dashboard[d]
<1>v. v \in Overview
  BY <1>t
<1>2. CASE UNCHANGED accountVars
  BY <1>2 DEF accountVars
<1>3. CASE MoveUserAccount(d)
  <2> SUFFICES ASSUME NEW a \in Accounts \ (overtaken' \cup unchecked'
                                               \cup Unlimited)
               PROVE  Available(account'[a]) >= 0
    OBVIOUS
  <2> DEFINE u == v.current
             old == v.listed[u].parent
             home == v.homes[u]
             moved == v.listed[u].allocated
             left == GiveBack(old, v.seen, moved)
  <2>1. Available(account[a]) >= 0
    BY ZenonT(30), <1>3 DEF MoveUserAccount
  <2>2. u \in UserAccounts
    BY <1>3 DEF TypeOK, ReconciliationTypeOK, MoveUserAccount
  <2>3. /\ old \in Accounts \cup {NoAccount}
        /\ moved \in Nat
        /\ home \in OrgAccounts
        /\ v.seen \in Row
    BY <1>v, <2>2, OverviewType DEF Row
  <2>4. a # home
    BY <1>3 DEF MoveUserAccount
  <2>5. a = old => /\ v.seen = account[a]
                   /\ v.seen.childAllocated >= 0
    <3>1. a = old => a \notin RaisedBySubtraction(old, v.seen)
      BY <1>3 DEF MoveUserAccount
    <3>2. a # NoAccount
      OBVIOUS
    <3>3. a \notin Stale([b \in {old} \ {NoAccount} |-> v.seen])
      BY <1>3 DEF MoveUserAccount
    <3>4. v.seen.childAllocated \in Int
      BY <2>3 DEF Row
    <3> QED
      BY <3>1, <3>2, <3>3, <3>4 DEF Stale, RaisedBySubtraction
  <2>6. SubtractChildAllocation(v.seen, moved) \in Int
    BY <2>3, RowType
  <2>7. /\ left[a].allocated = account[a].allocated
        /\ left[a].used = account[a].used
        /\ left[a].reserved = account[a].reserved
        /\ left[a].childAllocated =
             IF a = old THEN SubtractChildAllocation(v.seen, moved)
             ELSE account[a].childAllocated
    BY <1>t, <2>3 DEF GiveBack, Rows, Row
  <2>8. left[a].childAllocated <= account[a].childAllocated
    <3>1. account[a].childAllocated \in Int
      BY <1>t, Columns
    <3> HIDE DEF left, old, moved
    <3> QED
      BY <2>3, <2>5, <2>7, <3>1, SubtractLowers
  <2>9. left \in Rows
    BY <1>t, <2>3, <2>6, NumberUpdate DEF GiveBack
  <2>10. /\ account'[a].allocated = left[a].allocated
         /\ account'[a].used = left[a].used
         /\ account'[a].reserved = left[a].reserved
         /\ account'[a].childAllocated = left[a].childAllocated
    <3>1. account' = TakeOver(left, u, home, moved)
      BY <1>3 DEF MoveUserAccount
    <3>2. u \in Accounts /\ home \in Accounts
      BY <2>2, <2>3 DEF Accounts
    <3> HIDE DEF left, u, home, moved
    <3> QED
      BY <2>4, <2>9, <3>1, <3>2 DEF TakeOver, Rows, Row
  <2>11. account[a] \in Row /\ account'[a] \in Row
    BY <1>t, Columns
  <2>12. account[a].used \in Int /\ account[a].reserved \in Int
         /\ account[a].allocated \in Int
    BY <1>t, Columns
  <2> HIDE DEF left
  <2> QED
    BY <2>1, <2>7, <2>8, <2>10, <2>11, <2>12, BalanceKept
<1>4. CASE ForgiveOverdraft(d)
  <2> SUFFICES ASSUME NEW a \in Accounts \ (overtaken' \cup unchecked'
                                               \cup Unlimited)
               PROVE  Available(account'[a]) >= 0
    OBVIOUS
  <2>1. Available(account[a]) >= 0
    BY <1>4 DEF ForgiveOverdraft
  <2>2. v.seen \in Row /\ v.current \in Accounts /\ v.seen.used > 0
    BY <1>4, <1>v, OverviewType DEF ForgiveOverdraft, ChecksPassed
  <2>3. Adjustment(v.seen) \in Nat
    BY <2>2, RowType DEF Adjustment, Row
  <2>4. /\ account[a] \in Row
        /\ account'[a] \in Row
        /\ account[a].used \in Int
        /\ account[a].reserved \in Int
        /\ account[a].allocated \in Int
        /\ account[a].childAllocated \in Int
    BY <1>t, Columns
  <2>5. /\ account'[a].allocated = account[a].allocated
        /\ account'[a].used <= account[a].used
        /\ account'[a].reserved = account[a].reserved
        /\ account'[a].childAllocated = account[a].childAllocated
    <3> DEFINE n == Adjustment(v.seen)
               c == v.current
    <3>1. account' = [account EXCEPT ![c].used = @ - n]
      BY <1>4 DEF ForgiveOverdraft
    <3>2. c \in Accounts /\ n \in Nat
      BY <2>2, <2>3
    <3> HIDE DEF n, c
    <3>3. CASE a = c
      <4>1. account'[a] = [account[a] EXCEPT !.used = @ - n]
        BY <1>t, <3>1, <3>3 DEF Rows
      <4> QED
        BY <2>4, <3>2, <4>1 DEF Row
    <3>4. CASE a # c
      BY <1>t, <2>4, <3>1, <3>4 DEF Rows
    <3> QED
      BY <3>3, <3>4
  <2> QED
    BY <2>1, <2>4, <2>5, BalanceKept
<1> QED
  BY <1>1, <1>2, <1>3, <1>4
  DEF ListUserAccounts, ReadOldParent, ListOverdrawn, ReadOverdrawn,
      FinishOverview

(***************************************************************************)
(* A limited account is overdrawn only after a race on its row or an       *)
(* unchecked takeover: the checks of reserveTokens, commitUsage, allocate  *)
(* and setAllocation leave no sequential way.                              *)
(***************************************************************************)
THEOREM OverdraftOnlyByRace == Spec => []NoOverdraft
<1>1. Init => OverdraftInv
  <2> SUFFICES ASSUME Init PROVE NoOverdraft
    BY TypeInit, ChecksInit DEF OverdraftInv
  <2> QED
    BY DEF Init, AccountsInit, NoOverdraft, Available
<1>2. OverdraftInv /\ [Next]_vars => OverdraftInv'
  <2> SUFFICES ASSUME TypeOK, ChecksPassed, NoOverdraft, [Next]_vars, TypeOK'
               PROVE  NoOverdraft'
    BY ChecksStep, TypeStep DEF OverdraftInv
  <2>1. CASE UsageNext /\ UNCHANGED <<allocationVars, dashboard>>
    BY <2>1, OverdraftUsage
  <2>2. CASE AllocationNext /\ UNCHANGED <<request, dashboard>>
    BY <2>2, OverdraftAllocation
  <2>3. CASE ReconciliationNext /\ UNCHANGED <<request, allocationVars>>
    BY <2>3, OverdraftReconciliation
  <2>4. CASE UNCHANGED vars
    BY <2>4 DEF vars, accountVars, NoOverdraft
  <2> QED
    BY <2>1, <2>2, <2>3, <2>4 DEF Next
<1>3. OverdraftInv => NoOverdraft
  BY DEF OverdraftInv
<1> QED
  BY <1>1, <1>2, <1>3, PTL DEF Spec

-----------------------------------------------------------------------------
(***************************************************************************)
(* Who lowers the used credits of an account: calls raise them, the        *)
(* administrators' operations leave them, and only a forgiveness takes any *)
(* away.                                                                   *)
(***************************************************************************)
LEMMA CallsRaiseUsage ==
  ASSUME TypeOK, UsageNext, NEW a \in Accounts
  PROVE  account'[a].used >= account[a].used
<1>t. /\ request \in [Requests -> Call]
      /\ account \in Rows
      /\ account[a].used \in Int
  BY Columns DEF TypeOK, UsageTypeOK, AccountsTypeOK
<1>1. PICK r \in Requests :
        \/ \E n \in CreditsOrNone : Estimate(r, n)
        \/ ReserveRead(r)
        \/ ReserveWrite(r)
        \/ \E n \in CreditsOrNone : GeminiAnswer(r, n)
        \/ GeminiFailure(r)
        \/ CommitRead(r)
        \/ CommitWrite(r)
        \/ CommitReplyLost(r)
        \/ CommitFails(r)
        \/ Refund(r)
        \/ Crash(r)
  BY DEF UsageNext
<1>q. /\ request[r].account \in Accounts
      /\ request[r].reservation \in Nat
      /\ request[r].actual \in Nat
      /\ request[r].seen \in Row
  BY <1>t DEF Call, CreditsOrNone
<1>2. CASE UNCHANGED accountVars
  BY <1>2, <1>t DEF accountVars
<1>3. CASE ReserveWrite(r)
  BY <1>3, <1>t, <1>q DEF ReserveWrite, Rows, Row
<1>4. CASE CommitEffect(r)
  <2> DEFINE n == Chargeable(request[r])
             c == request[r].account
             m == request[r].reservation
  <2>1. n \in Nat
    <3>1. Available(request[r].seen) + request[r].reservation \in Int
      BY <1>q, RowType
    <3> QED
      BY <1>q, <3>1 DEF Chargeable
  <2>2. account' = [account EXCEPT ![c].reserved = @ - m, ![c].used = @ + n]
    BY <1>4 DEF CommitEffect
  <2>3. c \in Accounts /\ m \in Nat
    BY <1>q
  <2> HIDE DEF n, c, m
  <2>4. account'[a].used = IF a = c THEN account[a].used + n ELSE account[a].used
    BY <1>t, <2>2, <2>3 DEF Rows, Row
  <2> QED
    BY <1>t, <2>1, <2>4
<1>5. CASE Refund(r)
  BY <1>5, <1>t, <1>q DEF Refund, Rows, Row
<1> QED
  BY <1>1, <1>2, <1>3, <1>4, <1>5
  DEF Estimate, ReserveRead, GeminiAnswer, GeminiFailure, CommitRead,
      CommitWrite, CommitReplyLost, CommitFails, Crash

LEMMA AllocationsKeepUsage ==
  ASSUME TypeOK, AllocationNext, NEW a \in Accounts
  PROVE  account'[a].used = account[a].used
<1>t. /\ admin \in [Admins -> Operation]
      /\ account \in Rows
  BY DEF TypeOK, AllocationTypeOK, AccountsTypeOK
<1>1. CASE UNCHANGED account
  BY <1>1
<1>2. ASSUME NEW c \in Accounts, NEW n \in Amounts, TopUp(c, n)
      PROVE  account'[a].used = account[a].used
  BY <1>2, <1>t DEF TopUp, Rows, Row
<1>3. ASSUME NEW o \in OrgAccounts, DisableOrganization(o)
      PROVE  account'[a].used = account[a].used
  BY <1>3, <1>t, Columns DEF DisableOrganization, Row
<1>4. ASSUME NEW x \in Admins, NEW mode \in {"allocate", "set"},
             NEW s \in Accounts, NEW t \in OrgAccounts \cup UserAccounts,
             NEW n \in Amounts, Resolve(x, mode, s, t, n)
      PROVE  account'[a].used = account[a].used
  BY <1>4, <1>t DEF Resolve, Rows, Row
<1>5. ASSUME NEW x \in Admins, WriteAllocate(x)
      PROVE  account'[a].used = account[a].used
  <2>1. admin[x] \in Operation
    BY <1>5, <1>t
  <2> QED
    BY <1>5, <1>t, <2>1, AddToTargetColumns DEF WriteAllocate
<1>6. ASSUME NEW x \in Admins, WriteSet(x)
      PROVE  account'[a].used = account[a].used
  <2>1. admin[x] \in Operation
    BY <1>6, <1>t
  <2> QED
    BY <1>6, <1>t, <2>1, SetTargetColumns DEF WriteSet
<1>7. ASSUME NEW x \in Admins, WriteSetMovingParent(x)
      PROVE  account'[a].used = account[a].used
  <2> DEFINE op == admin[x]
             old == op.seenTarget.parent
             n == SubtractChildAllocation(op.seenOldParent, op.seenTarget.allocated)
             left == [account EXCEPT ![old].childAllocated = n]
  <2>1. op \in Operation
    BY <1>7, <1>t
  <2>2. account' = SetTarget(left, op) /\ old # NoAccount
    BY <1>7 DEF WriteSetMovingParent, LeavesOldParent
  <2>3. old \in Accounts /\ n \in Int
    BY <2>1, <2>2, OperationType, RowType
  <2>4. left \in Rows
    BY <1>t, <2>3, NumberUpdate
  <2>5. left[a].used = account[a].used
    BY <1>t, <2>3 DEF Rows, Row
  <2> HIDE DEF op, left
  <2> QED
    BY <2>1, <2>2, <2>4, <2>5, SetTargetColumns
<1> QED
  BY <1>1, <1>2, <1>3, <1>4, <1>5, <1>6, <1>7
  DEF AllocationNext, AssignHome, Check, Abort, accountVars

\* MoveUserAccount leaves the used credits of every account alone
LEMMA MovesKeepUsage ==
  ASSUME TypeOK, NEW d \in Dashboards, MoveUserAccount(d), NEW a \in Accounts
  PROVE  account'[a].used = account[a].used
<1> DEFINE v == dashboard[d]
           u == v.current
           old == v.listed[u].parent
           home == v.homes[u]
           moved == v.listed[u].allocated
           left == GiveBack(old, v.seen, moved)
<1>t. v \in Overview /\ account \in Rows
  BY DEF TypeOK, ReconciliationTypeOK, AccountsTypeOK
<1>1. u \in UserAccounts
  BY DEF TypeOK, ReconciliationTypeOK, MoveUserAccount
<1>2. /\ old \in Accounts \cup {NoAccount} /\ moved \in Nat
      /\ home \in OrgAccounts /\ v.seen \in Row
  BY <1>t, <1>1, OverviewType DEF Row
<1>3. SubtractChildAllocation(v.seen, moved) \in Int
  BY <1>2, RowType
<1>4. left[a].used = account[a].used
  BY <1>t, <1>2 DEF GiveBack, Rows, Row
<1>5. left \in Rows
  BY ZenonT(30), <1>t, <1>2, <1>3, NumberUpdate DEF GiveBack
<1>6. account' = TakeOver(left, u, home, moved) /\ u \in Accounts /\ home \in Accounts
  BY <1>1, <1>2 DEF MoveUserAccount, Accounts
<1> HIDE DEF left, u, home, moved
<1> QED
  BY <1>4, <1>5, <1>6 DEF TakeOver, Rows, Row

\* ForgiveOverdraft takes away no more than what is owed
LEMMA ForgivenIsOwed ==
  ASSUME TypeOK, ReconciliationNext, NEW a \in Accounts,
         account'[a].used < account[a].used
  PROVE  Available(account'[a]) <= 0 \/ a \in overtaken'
<1>t. /\ dashboard \in [Dashboards -> Overview]
      /\ account \in Rows
      /\ account[a] \in Row
      /\ account[a].used \in Int /\ account[a].reserved \in Int
      /\ account[a].allocated \in Int /\ account[a].childAllocated \in Int
  BY Columns DEF TypeOK, ReconciliationTypeOK, AccountsTypeOK
<1>1. PICK d \in Dashboards :
        \/ ListUserAccounts(d)
        \/ \E u \in UserAccounts : ReadOldParent(d, u)
        \/ MoveUserAccount(d)
        \/ ListOverdrawn(d)
        \/ \E b \in Accounts : ReadOverdrawn(d, b)
        \/ ForgiveOverdraft(d)
        \/ FinishOverview(d)
  BY DEF ReconciliationNext
<1> DEFINE v == dashboard[d]
<1>v. v \in Overview
  BY <1>t
<1>2. ~UNCHANGED accountVars
  BY <1>t DEF accountVars
<1>3. ~MoveUserAccount(d)
  BY <1>t, MovesKeepUsage
<1>4. ForgiveOverdraft(d)
  BY <1>1, <1>2, <1>3 DEF ListUserAccounts, ReadOldParent, ListOverdrawn,
     ReadOverdrawn, FinishOverview
<1> DEFINE n == Adjustment(v.seen)
           c == v.current
<1>5. v.seen \in Row /\ c \in Accounts
  BY <1>v, OverviewType
<1>6. n \in Int /\ n <= Deficit(v.seen)
  <2>1. Deficit(v.seen) \in Nat /\ v.seen.used \in Int
    BY <1>5, RowType DEF Row
  <2> QED
    BY <2>1 DEF Adjustment
<1>7. account' = [account EXCEPT ![c].used = @ - n]
  BY <1>4 DEF ForgiveOverdraft
<1>8. a \in overtaken' \/ a # c \/ v.seen = account[a]
  BY <1>4 DEF ForgiveOverdraft, Stale
<1> HIDE DEF n, c
<1>9. a = c
  BY <1>t, <1>5, <1>7 DEF Rows
<1>10. account'[a] = [account[a] EXCEPT !.used = @ - n]
  BY <1>t, <1>5, <1>7, <1>9 DEF Rows
<1>11. /\ account'[a].used = account[a].used - n
       /\ account'[a].allocated = account[a].allocated
       /\ account'[a].reserved = account[a].reserved
       /\ account'[a].childAllocated = account[a].childAllocated
  BY <1>t, <1>10 DEF Row
<1>12. CASE v.seen = account[a]
  <2>1. n <= Deficit(account[a]) /\ n > 0
    BY <1>t, <1>6, <1>11, <1>12
  <2> QED
    BY <1>t, <1>6, <1>11, <2>1 DEF Deficit, Available
<1> QED
  BY <1>8, <1>9, <1>12

(***************************************************************************)
(* A debt is all that is ever forgiven: usage is lowered only on an        *)
(* account that has nothing available after it, or whose row had changed.  *)
(***************************************************************************)
THEOREM OnlyDebtForgiven == Spec => ForgivesOnlyDebt
<1> DEFINE A == \A a \in Accounts :
       account'[a].used < account[a].used =>
         \/ Available(account'[a]) <= 0
         \/ a \in overtaken'
<1>1. TypeOK /\ [Next]_vars => A
  <2> SUFFICES ASSUME TypeOK, [Next]_vars, NEW a \in Accounts,
                      account'[a].used < account[a].used
               PROVE  Available(account'[a]) <= 0 \/ a \in overtaken'
    OBVIOUS
  <2>t. account[a].used \in Int /\ account'[a].used \in Int
    BY TypeStep, Columns DEF TypeOK, AccountsTypeOK
  <2>1. ~UsageNext
    BY <2>t, CallsRaiseUsage
  <2>2. ~AllocationNext
    BY <2>t, AllocationsKeepUsage
  <2>3. ~UNCHANGED vars
    BY <2>t DEF vars, accountVars
  <2>4. ReconciliationNext
    BY <2>1, <2>2, <2>3 DEF Next
  <2> QED
    BY <2>4, ForgivenIsOwed
<1>2. ForgivesOnlyDebt <=> [][A]_vars
  BY DEF ForgivesOnlyDebt
<1> HIDE DEF A
<1> QED
  BY TypeCorrect, <1>1, <1>2, PTL DEF Spec

-----------------------------------------------------------------------------
(***************************************************************************)
(* What a step adds to the accounts' own credits.                          *)
(***************************************************************************)

\* The steps keep the balance: they add what they mint less what they clip
Balanced ==
  OwnCredits(account') = OwnCredits(account) + (minted' - minted) - (clipped' - clipped)

\* Every account but the master has a parent, allocations go to one of them, and a
\* user account listed without a parent has nothing to give back
ParentsThere == \A a \in OrgAccounts \cup UserAccounts : account[a].parent # NoAccount

TargetsRight ==
  \A x \in Admins : admin[x].phase # "idle" => admin[x].target \in OrgAccounts \cup UserAccounts

MovesRight ==
  \A d \in Dashboards :
    dashboard[d].phase = "moving" /\ dashboard[d].listed[dashboard[d].current].parent = NoAccount
      => dashboard[d].seen = EmptyRow

CreditsInv ==
  TypeOK /\ ChecksPassed /\ ParentsThere /\ TargetsRight /\ MovesRight /\ CreditsConserved

LEMMA OwnKept ==
  ASSUME NEW rows \in Rows, NEW new \in Rows,
         \A x \in Accounts : /\ new[x].allocated = rows[x].allocated
                             /\ new[x].childAllocated = rows[x].childAllocated
  PROVE  OwnCredits(new) = OwnCredits(rows) /\ OwnCredits(rows) \in Int
<1> DEFINE n == Master
<1>1. n \in Accounts
  BY DEF Accounts
<1>z. PICK z \in Int : z = 0
  OBVIOUS
<1>2. \A x \in Accounts : Own(new)[x] = Own(rows)[x] /\ Own(rows)[x] \in Int
  BY OwnIsInt
<1>3. Differ(rows, new, n, z, n, z, n, z)
  BY <1>2, <1>z DEF Differ
<1> HIDE DEF n
<1>4. OwnCredits(new) = OwnCredits(rows) + z + z + z /\ OwnCredits(rows) \in Int
  BY <1>1, <1>3, OwnChanges, Zenon
<1> QED
  BY <1>4, <1>z

LEMMA Quiet ==
  ASSUME TypeOK, TypeOK', UNCHANGED <<minted, clipped>>,
         \A x \in Accounts : /\ account'[x].allocated = account[x].allocated
                             /\ account'[x].childAllocated = account[x].childAllocated
  PROVE  Balanced
<1>1. account \in Rows /\ account' \in Rows /\ minted \in Int /\ clipped \in Int
  BY DEF TypeOK, AccountsTypeOK
<1> DEFINE old == account
           new == account'
<1>2. OwnCredits(new) = OwnCredits(old) /\ OwnCredits(old) \in Int
  BY <1>1, OwnKept
<1> QED
  BY <1>1, <1>2 DEF Balanced

(***************************************************************************)
(* Calls move no allocation.                                               *)
(***************************************************************************)
LEMMA UsageBalances ==
  ASSUME TypeOK, TypeOK', UsageNext
  PROVE  Balanced /\ overtaken \subseteq overtaken'
<1>t. request \in [Requests -> Call] /\ account \in Rows
  BY DEF TypeOK, UsageTypeOK, AccountsTypeOK
<1>1. PICK r \in Requests :
        \/ \E n \in CreditsOrNone : Estimate(r, n)
        \/ ReserveRead(r)
        \/ ReserveWrite(r)
        \/ \E n \in CreditsOrNone : GeminiAnswer(r, n)
        \/ GeminiFailure(r)
        \/ CommitRead(r)
        \/ CommitWrite(r)
        \/ CommitReplyLost(r)
        \/ CommitFails(r)
        \/ Refund(r)
        \/ Crash(r)
  BY DEF UsageNext
<1>q. request[r].account \in Accounts
  BY <1>t DEF Call
<1>2. CASE UNCHANGED accountVars
  BY <1>2, Quiet DEF accountVars
<1>3. CASE ReserveWrite(r)
  <2>1. \A x \in Accounts : /\ account'[x].allocated = account[x].allocated
                            /\ account'[x].childAllocated = account[x].childAllocated
    BY <1>3, <1>t, <1>q DEF ReserveWrite, Rows, Row
  <2> QED
    BY <1>3, <2>1, Quiet DEF ReserveWrite
<1>4. CASE CommitEffect(r)
  <2>1. \A x \in Accounts : /\ account'[x].allocated = account[x].allocated
                            /\ account'[x].childAllocated = account[x].childAllocated
    BY <1>4, <1>t, <1>q DEF CommitEffect, Rows, Row
  <2> QED
    BY <1>4, <2>1, Quiet DEF CommitEffect
<1>5. CASE Refund(r)
  <2>1. \A x \in Accounts : /\ account'[x].allocated = account[x].allocated
                            /\ account'[x].childAllocated = account[x].childAllocated
    BY <1>5, <1>t, <1>q DEF Refund, Rows, Row
  <2> QED
    BY <1>5, <2>1, Quiet DEF Refund
<1> QED
  BY <1>1, <1>2, <1>3, <1>4, <1>5
  DEF Estimate, ReserveRead, GeminiAnswer, GeminiFailure, CommitRead,
      CommitWrite, CommitReplyLost, CommitFails, Crash

(***************************************************************************)
(* Administrators: a top-up mints, an allocation passes credits on, and    *)
(* one that moves gives back what the old parent had delegated.            *)
(***************************************************************************)
LEMMA TopUpBalances ==
  ASSUME TypeOK, TypeOK', NEW a \in Accounts, NEW n \in Amounts, TopUp(a, n)
  PROVE  Balanced
<1>1. account \in Rows /\ account' \in Rows /\ minted \in Int /\ clipped \in Int /\ n \in Int
  BY DEF TypeOK, AccountsTypeOK
<1>2. account' = [account EXCEPT ![a].allocated = @ + n, ![a].disabled = FALSE]
  BY DEF TopUp
<1>3. ASSUME NEW x \in Accounts
      PROVE  /\ account'[x].allocated = account[x].allocated + IF x = a THEN n ELSE 0
             /\ account'[x].childAllocated = account[x].childAllocated
             /\ account[x].allocated \in Int /\ account[x].childAllocated \in Int
  <2>1. account[x].allocated \in Int /\ account[x].childAllocated \in Int
    BY <1>1, Columns
  <2>2. /\ account'[x].allocated = IF x = a THEN account[x].allocated + n ELSE account[x].allocated
        /\ account'[x].childAllocated = account[x].childAllocated
    BY <1>1, <1>2 DEF Rows, Row
  <2> QED
    BY <1>1, <2>1, <2>2
<1> DEFINE old == account
           new == account'
<1>4. /\ \A x \in Accounts : Own(old)[x] = old[x].allocated - old[x].childAllocated
      /\ \A x \in Accounts : Own(new)[x] = new[x].allocated - new[x].childAllocated
  BY <1>1, OwnIsInt
<1>z. PICK z \in Int : z = 0
  OBVIOUS
<1>5. Differ(old, new, a, n, a, z, a, z)
  BY <1>1, <1>3, <1>4, <1>z DEF Differ
<1>6. OwnCredits(new) = OwnCredits(old) + n + z + z /\ OwnCredits(old) \in Int
  <2>1. old \in Rows /\ new \in Rows
    BY <1>1
  <2> HIDE DEF old, new
  <2> QED
    BY <1>1, <1>5, <2>1, OwnChanges, Zenon
<1>7. minted' = minted + n /\ clipped' = clipped
  BY DEF TopUp
<1> QED
  BY <1>1, <1>6, <1>7, <1>z DEF Balanced

LEMMA AllocateBalances ==
  ASSUME TypeOK, TypeOK', NEW x \in Admins, WriteAllocate(x)
  PROVE  Balanced
<1> DEFINE op == admin[x]
           old == account
           new == account'
<1>1. account \in Rows /\ account' \in Rows /\ minted \in Int /\ clipped \in Int /\ op \in Operation
  BY DEF TypeOK, AccountsTypeOK, AllocationTypeOK
<1>2. new = AddToTarget(old, op) /\ UNCHANGED <<minted, clipped>>
  BY DEF WriteAllocate
<1>3. op.source \in Accounts /\ op.target \in Accounts /\ op.amount \in Int
  BY <1>1, OperationType
<1>o. old \in Rows /\ new \in Rows
  BY <1>1
<1> HIDE DEF op, old, new
<1>4. /\ \A a \in Accounts : Own(old)[a] = old[a].allocated - old[a].childAllocated
      /\ \A a \in Accounts : Own(new)[a] = new[a].allocated - new[a].childAllocated
  BY <1>o, OwnIsInt
<1>5. ASSUME NEW a \in Accounts
      PROVE  Own(new)[a] = Own(old)[a] + (IF a = op.target THEN op.amount ELSE 0)
                                       + (IF a = op.source THEN -op.amount ELSE 0)
                                       + (IF a = op.source THEN 0 ELSE 0)
  <2>1. /\ new[a].allocated = IF a = op.target THEN old[a].allocated + op.amount
                              ELSE old[a].allocated
        /\ new[a].childAllocated = IF a = op.source THEN old[a].childAllocated + op.amount
                                   ELSE old[a].childAllocated
    BY <1>1, <1>2, <1>o, AddToTargetColumns
  <2>2. old[a].allocated \in Int /\ old[a].childAllocated \in Int
    BY <1>o, Columns
  <2> QED
    BY <1>3, <1>4, <2>1, <2>2
<1>6. OwnCredits(new) = OwnCredits(old) + op.amount + (-op.amount) + 0 /\ OwnCredits(old) \in Int
  <2>1. PICK n \in Int, m \in Int, z \in Int : n = op.amount /\ m = -op.amount /\ z = 0
    BY <1>3
  <2>2. PICK a \in Accounts, b \in Accounts : a = op.target /\ b = op.source
    BY <1>3
  <2>3. Differ(old, new, a, n, b, m, b, z)
    BY <1>5, <2>1, <2>2 DEF Differ
  <2>4. OwnCredits(new) = OwnCredits(old) + n + m + z /\ OwnCredits(old) \in Int
    BY <1>o, <2>3, OwnChanges, Zenon
  <2> QED
    BY <2>1, <2>4
<1> QED
  BY <1>1, <1>2, <1>3, <1>6 DEF Balanced, old, new

LEMMA SetBalances ==
  ASSUME TypeOK, TypeOK', ChecksPassed, ParentsThere, TargetsRight,
         NEW x \in Admins, WriteSet(x), overtaken' = {}
  PROVE  Balanced
<1> DEFINE op == admin[x]
           old == account
           new == account'
<1>1. account \in Rows /\ account' \in Rows /\ minted \in Int /\ clipped \in Int /\ op \in Operation
  BY DEF TypeOK, AccountsTypeOK, AllocationTypeOK
<1>2. /\ new = SetTarget(old, op) /\ UNCHANGED <<minted, clipped>>
      /\ op.mode = "set" /\ ~LeavesOldParent(op) /\ op.phase = "checked"
  BY DEF WriteSet
<1>3. /\ op.source \in Accounts /\ op.target \in Accounts /\ op.amount \in Int
      /\ op.source # op.target /\ SourceRequired(op) \in Int /\ op.seenTarget.allocated \in Int
  BY <1>1, <1>2, OperationType DEF ChecksPassed
<1>4. op.seenTarget = account[op.target]
  <2>1. op.target \notin Stale(SeenBySet(op))
    BY DEF WriteSet
  <2> QED
    BY <1>3, <2>1 DEF Stale, SeenBySet
<1>5. op.seenTarget.parent # NoAccount
  <2>1. op.target \in OrgAccounts \cup UserAccounts
    BY <1>2 DEF TargetsRight
  <2> QED
    BY <1>4, <2>1 DEF ParentsThere
<1>6. SourceRequired(op) = op.amount - account[op.target].allocated
  BY <1>2, <1>4, <1>5 DEF LeavesOldParent, SourceRequired, Delta
<1>o. old \in Rows /\ new \in Rows
  BY <1>1
<1>7. PICK d \in Int, e \in Int, z \in Int :
        d = SourceRequired(op) /\ e = -d /\ z = 0
  BY <1>3
<1>8. PICK a \in Accounts, b \in Accounts : a = op.target /\ b = op.source
  BY <1>3
<1> HIDE DEF op, old, new
<1>9. /\ \A y \in Accounts : Own(old)[y] = old[y].allocated - old[y].childAllocated
      /\ \A y \in Accounts : Own(new)[y] = new[y].allocated - new[y].childAllocated
  BY <1>o, OwnIsInt
<1>10. ASSUME NEW y \in Accounts
       PROVE  Own(new)[y] = Own(old)[y] + (IF y = a THEN d ELSE 0) + (IF y = b THEN e ELSE 0)
                                        + (IF y = b THEN z ELSE 0)
  <2>1. /\ new[y].allocated = IF y = a THEN op.amount ELSE old[y].allocated
        /\ new[y].childAllocated = IF y = b THEN old[y].childAllocated + d
                                   ELSE old[y].childAllocated
    BY <1>1, <1>2, <1>7, <1>8, <1>o, SetTargetColumns
  <2>2. old[y].allocated \in Int /\ old[y].childAllocated \in Int
    BY <1>o, Columns
  <2>3. y = a => d = op.amount - old[y].allocated
    BY <1>6, <1>7, <1>8 DEF old
  <2> QED
    BY <1>3, <1>7, <1>9, <2>1, <2>2, <2>3
<1>11. Differ(old, new, a, d, b, e, b, z)
  BY <1>10 DEF Differ
<1>12. OwnCredits(new) = OwnCredits(old) + d + e + z /\ OwnCredits(old) \in Int
  BY <1>o, <1>11, OwnChanges, Zenon
<1> QED
  BY <1>1, <1>2, <1>7, <1>12 DEF Balanced, old, new

LEMMA SetMovingBalances ==
  ASSUME TypeOK, TypeOK', ChecksPassed, NEW x \in Admins, WriteSetMovingParent(x),
         overtaken' = {}
  PROVE  Balanced
<1> DEFINE op == admin[x]
           old == account
           new == account'
           par == op.seenTarget.parent
           moved == op.seenTarget.allocated
           kept == SubtractChildAllocation(op.seenOldParent, moved)
           left == [old EXCEPT ![par].childAllocated = kept]
<1>1. account \in Rows /\ account' \in Rows /\ minted \in Int /\ clipped \in Int /\ op \in Operation
  BY DEF TypeOK, AccountsTypeOK, AllocationTypeOK
<1>2. /\ new = SetTarget(left, op) /\ minted' = minted
      /\ clipped' = clipped + ClippedBy(op.seenOldParent, moved)
      /\ op.mode = "set" /\ ParentChanged(op) /\ op.phase = "checked" /\ par # NoAccount
  BY DEF WriteSetMovingParent, LeavesOldParent
<1>3. /\ op.source \in Accounts /\ op.target \in Accounts /\ op.amount \in Int
      /\ op.source # op.target /\ SourceRequired(op) = op.amount
      /\ par \in Accounts /\ moved \in Int /\ op.seenOldParent \in Row
  BY <1>1, <1>2, OperationType DEF ChecksPassed, SourceRequired
<1>4. kept \in Int /\ ClippedBy(op.seenOldParent, moved) \in Int
  BY <1>3, RowType
<1>5. op.seenTarget = account[op.target] /\ op.seenOldParent = account[par]
  <2>1. op.target \notin Stale(SeenBySet(op)) /\ par \notin Stale([a \in {par} |-> op.seenOldParent])
    BY DEF WriteSetMovingParent
  <2> QED
    BY <1>3, <2>1 DEF Stale, SeenBySet
<1>6. ClippedBy(op.seenOldParent, moved) = kept - (account[par].childAllocated - moved)
  BY <1>5 DEF ClippedBy
<1>o. old \in Rows /\ new \in Rows
  BY <1>1
<1>l. left \in Rows
  BY <1>1, <1>3, <1>4, NumberUpdate
<1>7. PICK d \in Int, e \in Int, n \in Int :
        d = op.amount - moved /\ e = -op.amount /\ n = old[par].childAllocated - kept
  <2>1. old[par].childAllocated \in Int
    BY <1>1, <1>3, Columns
  <2> HIDE DEF kept, moved, par, op
  <2> QED
    BY <1>3, <1>4, <2>1
<1>8. PICK a \in Accounts, b \in Accounts, c \in Accounts :
        a = op.target /\ b = op.source /\ c = par
  BY <1>3
<1>9. ASSUME NEW y \in Accounts
      PROVE  /\ left[y].allocated = old[y].allocated
             /\ left[y].childAllocated = IF y = c THEN kept ELSE old[y].childAllocated
  <2> HIDE DEF kept, par, op
  <2> QED
    BY <1>1, <1>4, <1>8 DEF Rows, Row
<1>10. a = op.target => moved = old[a].allocated
  BY <1>5
<1> HIDE DEF op, old, new, par, moved, kept, left
<1>11. /\ \A y \in Accounts : Own(old)[y] = old[y].allocated - old[y].childAllocated
       /\ \A y \in Accounts : Own(new)[y] = new[y].allocated - new[y].childAllocated
  BY <1>o, OwnIsInt
<1>12. ASSUME NEW y \in Accounts
       PROVE  Own(new)[y] = Own(old)[y] + (IF y = a THEN d ELSE 0) + (IF y = b THEN e ELSE 0)
                                        + (IF y = c THEN n ELSE 0)
  <2>1. /\ new[y].allocated = IF y = a THEN op.amount ELSE left[y].allocated
        /\ new[y].childAllocated = IF y = b THEN left[y].childAllocated + op.amount
                                   ELSE left[y].childAllocated
    BY <1>1, <1>2, <1>3, <1>8, <1>l, SetTargetColumns
  <2>2. old[y].allocated \in Int /\ old[y].childAllocated \in Int
    BY <1>o, Columns
  <2>3. y = a => moved = old[y].allocated
    BY <1>8, <1>10
  <2>4. y = c => n = old[y].childAllocated - kept
    BY <1>7, <1>8
  <2>5. new[y].allocated = old[y].allocated + IF y = a THEN d ELSE 0
    BY <1>3, <1>7, <1>9, <2>1, <2>2, <2>3
  <2>6. new[y].childAllocated = old[y].childAllocated - (IF y = b THEN e ELSE 0)
                                  - (IF y = c THEN n ELSE 0)
    BY <1>3, <1>4, <1>7, <1>9, <2>1, <2>2, <2>4
  <2>7. new[y].allocated \in Int /\ new[y].childAllocated \in Int
    BY <1>o, Columns
  <2>8. (IF y = a THEN d ELSE 0) \in Int /\ (IF y = b THEN e ELSE 0) \in Int
        /\ (IF y = c THEN n ELSE 0) \in Int
    OBVIOUS
  <2> QED
    BY SMTT(20), <1>11, <2>2, <2>5, <2>6, <2>7, <2>8
<1>13. Differ(old, new, a, d, b, e, c, n)
  BY <1>12 DEF Differ
<1>14. OwnCredits(new) = OwnCredits(old) + d + e + n /\ OwnCredits(old) \in Int
  BY <1>o, <1>13, OwnChanges, Zenon
<1>15. d + e + n = -ClippedBy(op.seenOldParent, moved)
  <2>1. old[par].childAllocated \in Int
    BY <1>o, <1>3, Columns
  <2>2. ClippedBy(op.seenOldParent, moved) = kept - (old[par].childAllocated - moved)
    BY <1>6 DEF old
  <2> QED
    BY <1>3, <1>4, <1>7, <2>1, <2>2
<1>16. OwnCredits(new) = OwnCredits(old) - ClippedBy(op.seenOldParent, moved)
  <2>1. PICK k \in Int : k = ClippedBy(op.seenOldParent, moved)
    BY <1>4
  <2>2. PICK w \in Int : w = OwnCredits(old)
    BY <1>14
  <2>3. w + d + e + n = w - k
    BY <1>15, <2>1
  <2> QED
    BY <1>14, <2>1, <2>2, <2>3
<1> QED
  BY <1>1, <1>2, <1>4, <1>14, <1>16 DEF Balanced, old, new

(***************************************************************************)
(* The overview page: an organization takes over what a user's old parent  *)
(* gives back.                                                             *)
(***************************************************************************)
LEMMA MoveBalances ==
  ASSUME TypeOK, TypeOK', MovesRight, NEW x \in Dashboards, MoveUserAccount(x), overtaken' = {}
  PROVE  Balanced
<1> DEFINE v == dashboard[x]
           u == v.current
           par == v.listed[u].parent
           home == v.homes[u]
           moved == v.listed[u].allocated
           kept == SubtractChildAllocation(v.seen, moved)
           old == account
           new == account'
           left == GiveBack(par, v.seen, moved)
<1>1. account \in Rows /\ account' \in Rows /\ minted \in Int /\ clipped \in Int /\ v \in Overview
  BY DEF TypeOK, AccountsTypeOK, ReconciliationTypeOK
<1>2. /\ new = TakeOver(left, u, home, moved) /\ minted' = minted
      /\ clipped' = clipped + ClippedBy(v.seen, moved)
      /\ v.phase = "moving"
  BY DEF MoveUserAccount
<1>3. u \in UserAccounts
  BY <1>2 DEF TypeOK, ReconciliationTypeOK
<1>4. /\ par \in Accounts \cup {NoAccount} /\ moved \in Nat
      /\ home \in Accounts /\ u \in Accounts /\ v.seen \in Row
  BY <1>1, <1>3, OverviewType DEF Row, Accounts
<1>5. kept \in Int /\ ClippedBy(v.seen, moved) \in Int
  BY <1>4, RowType
<1>6. par # NoAccount => v.seen = account[par]
  <2>1. par # NoAccount => par \notin Stale([a \in {par} \ {NoAccount} |-> v.seen])
    BY DEF MoveUserAccount
  <2> QED
    BY <2>1 DEF Stale
<1>7. par = NoAccount => v.seen = EmptyRow
  BY <1>2 DEF MovesRight
<1>o. old \in Rows /\ new \in Rows
  BY <1>1
<1>l. left \in Rows
  BY <1>1, <1>4, <1>5, NumberUpdate DEF GiveBack
<1>8. PICK c \in Accounts : par # NoAccount => c = par
  BY <1>4
<1>9. ASSUME NEW y \in Accounts
      PROVE  /\ left[y].allocated = old[y].allocated
             /\ left[y].childAllocated = IF par # NoAccount /\ y = c THEN kept
                                         ELSE old[y].childAllocated
  <2>1. CASE par = NoAccount
    BY <2>1 DEF GiveBack
  <2>2. CASE par # NoAccount
    <3>1. left = [old EXCEPT ![c].childAllocated = kept]
      BY <1>8, <2>2 DEF GiveBack
    <3> HIDE DEF kept, left, par
    <3> QED
      BY <1>o, <2>2, <3>1 DEF Rows, Row
  <2> QED
    BY <2>1, <2>2
<1>10. PICK a \in Accounts : a = home
  BY <1>4
<1>11. ASSUME NEW y \in Accounts
       PROVE  /\ new[y].allocated = left[y].allocated
              /\ new[y].childAllocated = left[y].childAllocated + IF y = a THEN moved ELSE 0
  <2>1. left[y].childAllocated \in Int
    BY <1>l, Columns
  <2> HIDE DEF left, u, home, moved, new
  <2> QED
    BY <1>2, <1>4, <1>10, <1>l, <2>1 DEF TakeOver, Rows, Row
<1>12. par # NoAccount => ClippedBy(v.seen, moved) = kept - (old[c].childAllocated - moved)
  BY <1>6, <1>8 DEF ClippedBy
<1>13. par = NoAccount => ClippedBy(v.seen, moved) = moved
  BY <1>4, <1>7 DEF ClippedBy, SubtractChildAllocation, EmptyRow
<1>14. old[c].childAllocated \in Int
  BY <1>o, Columns
<1> HIDE DEF u, par, home, moved, kept, old, new, left, v
<1>15. PICK d \in Int, n \in Int, z \in Int :
         /\ d = -moved /\ z = 0
         /\ n = IF par = NoAccount THEN 0 ELSE old[c].childAllocated - kept
  BY <1>4, <1>5, <1>14
<1>16. /\ \A y \in Accounts : Own(old)[y] = old[y].allocated - old[y].childAllocated
       /\ \A y \in Accounts : Own(new)[y] = new[y].allocated - new[y].childAllocated
  BY <1>o, OwnIsInt
<1>17. ASSUME NEW y \in Accounts
       PROVE  Own(new)[y] = Own(old)[y] + (IF y = a THEN d ELSE 0) + (IF y = c THEN n ELSE 0)
                                        + (IF y = c THEN z ELSE 0)
  <2>1. old[y].allocated \in Int /\ old[y].childAllocated \in Int
    BY <1>o, Columns
  <2>2. new[y].childAllocated = old[y].childAllocated - (IF y = a THEN d ELSE 0)
                                  - (IF y = c THEN n ELSE 0)
    <3>1. left[y].childAllocated = old[y].childAllocated - IF y = c THEN n ELSE 0
      <4>1. CASE par = NoAccount
        BY <1>9, <1>15, <2>1, <4>1
      <4>2. CASE par # NoAccount
        BY <1>5, <1>9, <1>14, <1>15, <2>1, <4>2
      <4> QED
        BY <4>1, <4>2
    <3>2. new[y].childAllocated = left[y].childAllocated - IF y = a THEN d ELSE 0
      <4>1. left[y].childAllocated \in Int
        BY <1>l, Columns
      <4> QED
        BY <1>4, <1>11, <1>15, <4>1
    <3>3. (IF y = a THEN d ELSE 0) \in Int /\ (IF y = c THEN n ELSE 0) \in Int
      OBVIOUS
    <3> QED
      BY <2>1, <3>1, <3>2, <3>3
  <2>3. new[y].allocated = old[y].allocated
    BY <1>9, <1>11
  <2>4. Own(old)[y] = old[y].allocated - old[y].childAllocated
        /\ Own(new)[y] = new[y].allocated - new[y].childAllocated
    BY <1>16
  <2>5. (IF y = a THEN d ELSE 0) \in Int /\ (IF y = c THEN n ELSE 0) \in Int
        /\ (IF y = c THEN z ELSE 0) = 0
    BY <1>15
  <2> QED
    BY <2>1, <2>2, <2>3, <2>4, <2>5
<1>18. Differ(old, new, a, d, c, n, c, z)
  BY <1>17 DEF Differ
<1>19. OwnCredits(new) = OwnCredits(old) + d + n + z /\ OwnCredits(old) \in Int
  BY <1>o, <1>18, OwnChanges, Zenon
<1>20. OwnCredits(new) = OwnCredits(old) - ClippedBy(v.seen, moved)
  <2>1. PICK k \in Int : k = ClippedBy(v.seen, moved)
    BY <1>5
  <2>2. PICK w \in Int : w = OwnCredits(old)
    BY <1>19
  <2>3. w + d + n + z = w - k
    BY <1>4, <1>5, <1>12, <1>13, <1>14, <1>15, <2>1
  <2> QED
    BY <1>19, <2>1, <2>2, <2>3
<1> QED
  BY <1>1, <1>2, <1>5, <1>19, <1>20 DEF Balanced, old, new

LEMMA ForgiveBalances ==
  ASSUME TypeOK, TypeOK', NEW x \in Dashboards, ForgiveOverdraft(x)
  PROVE  Balanced
<1>1. account \in Rows /\ dashboard[x] \in Overview
  BY DEF TypeOK, AccountsTypeOK, ReconciliationTypeOK
<1>2. dashboard[x].current \in Accounts
  BY <1>1, OverviewType
<1>3. \A y \in Accounts : /\ account'[y].allocated = account[y].allocated
                          /\ account'[y].childAllocated = account[y].childAllocated
  BY <1>1, <1>2 DEF ForgiveOverdraft, Rows, Row
<1> QED
  BY <1>3, Quiet DEF ForgiveOverdraft

LEMMA AllocationBalances ==
  ASSUME TypeOK, TypeOK', ChecksPassed, ParentsThere, TargetsRight, AllocationNext,
         overtaken' = {}
  PROVE  Balanced /\ overtaken = {}
<1>t. account \in Rows
  BY DEF TypeOK, AccountsTypeOK
<1>1. CASE UNCHANGED accountVars
  BY <1>1, Quiet DEF accountVars
<1>2. ASSUME NEW a \in Accounts, NEW n \in Amounts, TopUp(a, n)
      PROVE  Balanced /\ overtaken = {}
  BY <1>2, TopUpBalances DEF TopUp
<1>3. ASSUME NEW u \in UserAccounts, NEW o \in OrgAccounts, AssignHome(u, o)
      PROVE  Balanced /\ overtaken = {}
  BY <1>3, Quiet DEF AssignHome
<1>4. ASSUME NEW o \in OrgAccounts, DisableOrganization(o)
      PROVE  Balanced /\ overtaken = {}
  <2>1. \A y \in Accounts : /\ account'[y].allocated = account[y].allocated
                            /\ account'[y].childAllocated = account[y].childAllocated
    BY <1>4, <1>t, Columns DEF DisableOrganization, Row
  <2> QED
    BY <1>4, <2>1, Quiet DEF DisableOrganization
<1>5. ASSUME NEW x \in Admins, NEW mode \in {"allocate", "set"},
             NEW s \in Accounts, NEW t \in OrgAccounts \cup UserAccounts,
             NEW n \in Amounts, Resolve(x, mode, s, t, n)
      PROVE  Balanced /\ overtaken = {}
  <2>1. \A y \in Accounts : /\ account'[y].allocated = account[y].allocated
                            /\ account'[y].childAllocated = account[y].childAllocated
    BY <1>5, <1>t DEF Resolve, Rows, Row
  <2> QED
    BY <1>5, <2>1, Quiet DEF Resolve
<1>6. ASSUME NEW x \in Admins, WriteAllocate(x) \/ WriteSet(x) \/ WriteSetMovingParent(x)
      PROVE  Balanced /\ overtaken = {}
  <2>1. overtaken = {}
    BY <1>6 DEF WriteAllocate, WriteSet, WriteSetMovingParent
  <2> QED
    BY <1>6, <2>1, AllocateBalances, SetBalances, SetMovingBalances
<1> QED
  BY <1>1, <1>2, <1>3, <1>4, <1>5, <1>6 DEF AllocationNext, Check, Abort

LEMMA ReconciliationBalances ==
  ASSUME TypeOK, TypeOK', MovesRight, ReconciliationNext, overtaken' = {}
  PROVE  Balanced /\ overtaken = {}
<1>1. CASE UNCHANGED accountVars
  BY <1>1, Quiet DEF accountVars
<1>2. ASSUME NEW x \in Dashboards, MoveUserAccount(x)
      PROVE  Balanced /\ overtaken = {}
  <2>1. overtaken = {}
    BY <1>2 DEF MoveUserAccount
  <2> QED
    BY <1>2, <2>1, MoveBalances
<1>3. ASSUME NEW x \in Dashboards, ForgiveOverdraft(x)
      PROVE  Balanced /\ overtaken = {}
  <2>1. overtaken = {}
    BY <1>3 DEF ForgiveOverdraft
  <2> QED
    BY <1>3, <2>1, ForgiveBalances
<1> QED
  BY ZenonT(30), <1>1, <1>2, <1>3
  DEF ReconciliationNext, ListUserAccounts, ReadOldParent, ListOverdrawn, ReadOverdrawn,
      FinishOverview

(***************************************************************************)
(* What the balance of a step rests on stays true.                         *)
(***************************************************************************)
LEMMA ParentsStep ==
  ASSUME TypeOK, TypeOK', ParentsThere, [Next]_vars
  PROVE  ParentsThere'
<1>t. /\ account \in Rows /\ account' \in Rows
      /\ request \in [Requests -> Call] /\ admin \in [Admins -> Operation]
      /\ dashboard \in [Dashboards -> Overview]
  BY DEF TypeOK, AccountsTypeOK, UsageTypeOK, AllocationTypeOK, ReconciliationTypeOK
<1> SUFFICES ASSUME NEW a \in OrgAccounts \cup UserAccounts
             PROVE  account'[a].parent \in {account[a].parent} \cup Accounts
  BY DEF ParentsThere
<1>a. a \in Accounts
  BY DEF Accounts
<1>1. CASE account' = account
  BY <1>1
<1>2. CASE UsageNext
  <2>1. PICK r \in Requests : account' = account \/ ReserveWrite(r) \/ CommitEffect(r) \/ Refund(r)
    BY <1>2 DEF UsageNext, Estimate, ReserveRead, GeminiAnswer, GeminiFailure, CommitRead,
       CommitWrite, CommitReplyLost, CommitFails, Crash, accountVars
  <2>2. request[r].account \in Accounts
    BY <1>t DEF Call
  <2> QED
    BY <1>t, <1>a, <2>1, <2>2 DEF ReserveWrite, CommitEffect, Refund, Rows, Row
<1>3. CASE AllocationNext
  <2>1. ASSUME NEW c \in Accounts, NEW n \in Amounts, TopUp(c, n)
        PROVE  account'[a].parent = account[a].parent
    BY <1>t, <1>a, <2>1 DEF TopUp, Rows, Row
  <2>2. ASSUME NEW o \in OrgAccounts, DisableOrganization(o)
        PROVE  account'[a].parent = account[a].parent
    BY <1>t, <1>a, <2>2, Columns DEF DisableOrganization, Row
  <2>3. ASSUME NEW x \in Admins, NEW mode \in {"allocate", "set"},
               NEW s \in Accounts, NEW t \in OrgAccounts \cup UserAccounts,
               NEW n \in Amounts, Resolve(x, mode, s, t, n)
        PROVE  account'[a].parent \in {account[a].parent} \cup Accounts
    BY <1>t, <1>a, <2>3 DEF Resolve, Rows, Row
  <2>4. ASSUME NEW x \in Admins, WriteAllocate(x)
        PROVE  account'[a].parent \in {account[a].parent} \cup Accounts
    <3>1. admin[x] \in Operation /\ account' = AddToTarget(account, admin[x])
      BY <1>t, <2>4 DEF WriteAllocate
    <3>2. PICK op \in Operation : op = admin[x]
      BY <3>1
    <3>3. op.source \in Accounts /\ op.target \in Accounts
      BY OperationType
    <3> DEFINE f1 == [account EXCEPT ![op.source].childAllocated = @ + op.amount]
               f2 == [f1 EXCEPT ![op.target].allocated = @ + op.amount]
               f3 == [f2 EXCEPT ![op.target].parent = op.source]
               f4 == [f3 EXCEPT ![op.target].disabled = FALSE]
    <3>4. account' = f4
      <4>1. f1[op.target].allocated = account[op.target].allocated
        BY <1>t, <3>3 DEF Rows, Row
      <4> QED
        BY <3>1, <3>2, <4>1 DEF AddToTarget
    <3>5. f1[a].parent = account[a].parent
      BY <1>t, <1>a, <3>3 DEF Rows, Row
    <3>6. f2[a].parent = f1[a].parent
      BY <1>t, <1>a, <3>3 DEF Rows, Row
    <3>7. f4[a].parent \in {f2[a].parent} \cup Accounts
      BY <1>t, <1>a, <3>3 DEF Rows, Row
    <3> HIDE DEF f1, f2, f4
    <3> QED
      BY <3>4, <3>5, <3>6, <3>7
  <2>5. ASSUME NEW op \in Operation, NEW rows \in Rows, account' = SetTarget(rows, op),
               rows[a].parent = account[a].parent
        PROVE  account'[a].parent \in {account[a].parent} \cup Accounts
    <3>1. op.source \in Accounts /\ op.target \in Accounts
      BY OperationType
    <3> QED
      BY <1>a, <2>5, <3>1 DEF SetTarget, Rows, Row
  <2>6. ASSUME NEW x \in Admins, WriteSet(x)
        PROVE  account'[a].parent \in {account[a].parent} \cup Accounts
    BY <1>t, <2>5, <2>6 DEF WriteSet
  <2>7. ASSUME NEW x \in Admins, WriteSetMovingParent(x)
        PROVE  account'[a].parent \in {account[a].parent} \cup Accounts
    <3> DEFINE op == admin[x]
               par == op.seenTarget.parent
               n == SubtractChildAllocation(op.seenOldParent, op.seenTarget.allocated)
               left == [account EXCEPT ![par].childAllocated = n]
    <3>1. op \in Operation
      BY <1>t
    <3>2. account' = SetTarget(left, op) /\ par # NoAccount
      BY <2>7 DEF WriteSetMovingParent, LeavesOldParent
    <3>3. par \in Accounts /\ n \in Int
      BY <3>1, <3>2, OperationType, RowType
    <3>4. left \in Rows
      BY <1>t, <3>3, NumberUpdate
    <3>5. left[a].parent = account[a].parent
      BY <1>t, <1>a, <3>3 DEF Rows, Row
    <3> HIDE DEF left, op
    <3> QED
      BY <2>5, <3>1, <3>2, <3>4, <3>5
  <2> QED
    BY ZenonT(30), <1>1, <1>3, <2>1, <2>2, <2>3, <2>4, <2>6, <2>7
    DEF AllocationNext, AssignHome, Check, Abort, accountVars
<1>4. CASE ReconciliationNext
  <2>1. PICK d \in Dashboards : account' = account \/ MoveUserAccount(d) \/ ForgiveOverdraft(d)
    BY <1>4 DEF ReconciliationNext, ListUserAccounts, ReadOldParent, ListOverdrawn,
       ReadOverdrawn, FinishOverview, accountVars
  <2>2. dashboard[d] \in Overview /\ dashboard[d].current \in Accounts
    BY <1>t, OverviewType
  <2>3. CASE ForgiveOverdraft(d)
    BY <1>t, <1>a, <2>2, <2>3 DEF ForgiveOverdraft, Rows, Row
  <2>4. CASE MoveUserAccount(d)
    <3> DEFINE v == dashboard[d]
               u == v.current
               par == v.listed[u].parent
               home == v.homes[u]
               moved == v.listed[u].allocated
               left == GiveBack(par, v.seen, moved)
    <3>1. u \in UserAccounts
      BY <2>4 DEF TypeOK, ReconciliationTypeOK, MoveUserAccount
    <3>2. /\ par \in Accounts \cup {NoAccount} /\ moved \in Nat
          /\ home \in Accounts /\ v.seen \in Row
      BY <2>2, <3>1, OverviewType DEF Row, Accounts
    <3>3. SubtractChildAllocation(v.seen, moved) \in Int
      BY <3>2, RowType
    <3>n. PICK n \in Int : n = SubtractChildAllocation(v.seen, moved)
      BY <3>3
    <3>4. left \in Rows /\ left[a].parent = account[a].parent
      <4>1. CASE par = NoAccount
        BY <1>t, <4>1 DEF GiveBack
      <4>2. CASE par # NoAccount
        <5>1. par \in Accounts /\ left = [account EXCEPT ![par].childAllocated = n]
          BY <3>2, <3>n, <4>2 DEF GiveBack
        <5>2. left \in Rows
          <6> HIDE DEF par, left
          <6> QED
            BY <1>t, <5>1, NumberUpdate
        <5>3. left[a].parent = account[a].parent
          BY <1>t, <1>a, <5>1 DEF Rows, Row
        <5> QED
          BY <5>2, <5>3
      <4> QED
        BY <4>1, <4>2
    <3>5. account' = TakeOver(left, u, home, moved)
      BY <2>4 DEF MoveUserAccount
    <3> HIDE DEF left, u, home, moved
    <3> QED
      BY <1>a, <2>2, <3>2, <3>4, <3>5 DEF TakeOver, Rows, Row, u
  <2> QED
    BY <1>1, <2>1, <2>3, <2>4
<1> QED
  BY <1>1, <1>2, <1>3, <1>4 DEF Next, vars, accountVars

LEMMA TargetsStep ==
  ASSUME TypeOK, TargetsRight, [Next]_vars
  PROVE  TargetsRight'
<1>t. admin \in [Admins -> Operation] /\ Idle.phase = "idle"
  BY DEF TypeOK, AllocationTypeOK, Idle
<1>1. CASE admin' = admin
  BY <1>1 DEF TargetsRight
<1>2. CASE AllocationNext
  <2>1. ASSUME NEW x \in Admins, Finishes(x)
        PROVE  TargetsRight'
    BY <1>t, <2>1 DEF Finishes, TargetsRight
  <2>2. ASSUME NEW x \in Admins, NEW mode \in {"allocate", "set"},
               NEW s \in Accounts, NEW t \in OrgAccounts \cup UserAccounts,
               NEW n \in Amounts, Resolve(x, mode, s, t, n)
        PROVE  TargetsRight'
    <3> DEFINE y == [Idle EXCEPT !.phase = "resolved", !.mode = mode, !.source = s,
                                 !.target = t, !.amount = n]
    <3>1. y.target = t
      BY DEF Idle
    <3>2. admin' \in {admin, [admin EXCEPT ![x] = y]}
      BY <2>2 DEF Resolve
    <3> HIDE DEF y
    <3> QED
      BY <1>t, <3>1, <3>2 DEF TargetsRight
  <2>3. ASSUME NEW x \in Admins, Check(x)
        PROVE  TargetsRight'
    <3>1. PICK o \in Operation : o = admin[x]
      BY <1>t
    <3> DEFINE read == [o EXCEPT !.phase = "checked", !.seenSource = account[o.source],
                                 !.seenTarget = account[o.target]]
               more == [read EXCEPT !.seenOldParent = account[read.seenTarget.parent]]
    <3>2. /\ o.phase = "resolved"
          /\ admin' \in {[admin EXCEPT ![x] = read], [admin EXCEPT ![x] = more],
                         [admin EXCEPT ![x] = Idle]}
      BY <2>3, <3>1 DEF Check, Finishes
    <3>3. read.target = o.target /\ more.target = o.target
      BY DEF Operation
    <3> HIDE DEF read, more
    <3> QED
      BY <1>t, <3>1, <3>2, <3>3 DEF TargetsRight
  <2> QED
    BY <1>1, <1>2, <2>1, <2>2, <2>3
    DEF AllocationNext, TopUp, AssignHome, DisableOrganization, WriteAllocate, WriteSet,
        WriteSetMovingParent, Abort
<1> QED
  BY <1>1, <1>2 DEF Next, vars, allocationVars

LEMMA MovesStep ==
  ASSUME TypeOK, MovesRight, [Next]_vars
  PROVE  MovesRight'
<1>t. dashboard \in [Dashboards -> Overview]
  BY DEF TypeOK, ReconciliationTypeOK
<1>1. CASE dashboard' = dashboard
  BY <1>1 DEF MovesRight
<1>2. CASE ReconciliationNext
  <2>1. ASSUME NEW d \in Dashboards, NEW u \in UserAccounts, ReadOldParent(d, u)
        PROVE  MovesRight'
    <3> DEFINE v == dashboard[d]
               row == IF v.listed[u].parent = NoAccount THEN EmptyRow
                      ELSE account[v.listed[u].parent]
    <3>1. dashboard' = [dashboard EXCEPT ![d].phase = "moving", ![d].todo = @ \ {u},
                                         ![d].current = u, ![d].seen = row]
      BY <2>1 DEF ReadOldParent
    <3>2. \A e \in Dashboards :
            /\ e # d => dashboard'[e] = dashboard[e]
            /\ e = d => dashboard'[e] = [v EXCEPT !.phase = "moving", !.todo = @ \ {u},
                                                  !.current = u, !.seen = row]
      BY <1>t, <3>1
    <3>3. PICK z \in Overview : z = v
      BY <1>t
    <3> HIDE DEF v, row
    <3> DEFINE w == [z EXCEPT !.phase = "moving", !.todo = @ \ {u}, !.current = u, !.seen = row]
    <3>5. w.listed = z.listed /\ w.current = u /\ w.seen = row
      BY DEF Overview
    <3>6. \A e \in Dashboards : e = d => dashboard'[e] = w
      BY <3>2, <3>3
    <3> HIDE DEF w
    <3>4. \A e \in Dashboards : e = d =>
            dashboard'[e].listed = v.listed /\ dashboard'[e].current = u /\ dashboard'[e].seen = row
      BY <3>3, <3>5, <3>6
    <3> QED
      BY <3>2, <3>4 DEF MovesRight, row
  <2>2. ASSUME NEW d \in Dashboards, ~\E u \in UserAccounts : ReadOldParent(d, u),
               \/ ListUserAccounts(d) \/ MoveUserAccount(d) \/ ListOverdrawn(d)
               \/ (\E a \in Accounts : ReadOverdrawn(d, a))
               \/ ForgiveOverdraft(d) \/ FinishOverview(d)
        PROVE  MovesRight'
    <3>1. PICK v \in Overview : v = dashboard[d]
      BY <1>t
    <3>2. \E w : dashboard' = [dashboard EXCEPT ![d] = w] /\ w.phase # "moving"
      <4>1. CASE ListUserAccounts(d)
        <5> DEFINE w == [NoOverview EXCEPT
                       !.phase = "parents",
                       !.todo = {u \in UserAccounts :
                                   \/ account[u].parent # homeOrg[u]
                                   \/ account[u].organization # homeOrg[u]},
                       !.listed = [u \in UserAccounts |-> account[u]],
                       !.homes = homeOrg]
        <5>1. dashboard' = [dashboard EXCEPT ![d] = w]
          BY <1>t, <3>1, <4>1 DEF ListUserAccounts
        <5>2. w.phase = "parents"
          BY DEF Overview, NoOverview
        <5> HIDE DEF w
        <5> QED
          BY <5>1, <5>2
      <4>2. CASE MoveUserAccount(d)
        <5> DEFINE w == [v EXCEPT !.phase = "parents", !.current = Master, !.seen = EmptyRow]
        <5>1. dashboard' = [dashboard EXCEPT ![d] = w]
          BY <1>t, <3>1, <4>2 DEF MoveUserAccount
        <5>2. w.phase = "parents"
          BY DEF Overview, NoOverview
        <5> HIDE DEF w
        <5> QED
          BY <5>1, <5>2
      <4>3. CASE ListOverdrawn(d)
        <5> DEFINE w == [NoOverview EXCEPT !.phase = "overdrawn",
                                      !.todo = {a \in Accounts : Forgivable(a, account[a])}]
        <5>1. dashboard' = [dashboard EXCEPT ![d] = w]
          BY <1>t, <3>1, <4>3 DEF ListOverdrawn
        <5>2. w.phase = "overdrawn"
          BY DEF Overview, NoOverview
        <5> HIDE DEF w
        <5> QED
          BY <5>1, <5>2
      <4>4. CASE \E a \in Accounts : ReadOverdrawn(d, a)
        <5>1. PICK a \in Accounts : ReadOverdrawn(d, a)
          BY <4>4
        <5> DEFINE w == [v EXCEPT !.todo = @ \ {a}]
                   m == [w EXCEPT !.phase = "forgiving", !.current = a, !.seen = account[a]]
        <5>2. dashboard' \in {[dashboard EXCEPT ![d] = w], [dashboard EXCEPT ![d] = m]}
              /\ v.phase = "overdrawn"
          BY <3>1, <5>1 DEF ReadOverdrawn
        <5>3. w.phase = v.phase /\ m.phase = "forgiving"
          BY DEF Overview
        <5> HIDE DEF w, m
        <5>4. CASE dashboard' = [dashboard EXCEPT ![d] = w]
          BY <5>2, <5>3, <5>4
        <5>5. CASE dashboard' = [dashboard EXCEPT ![d] = m]
          BY <5>3, <5>5
        <5> QED
          BY <5>2, <5>4, <5>5
      <4>5. CASE ForgiveOverdraft(d)
        <5> DEFINE w == [v EXCEPT !.phase = "overdrawn", !.current = Master, !.seen = EmptyRow]
        <5>1. dashboard' = [dashboard EXCEPT ![d] = w]
          BY <1>t, <3>1, <4>5 DEF ForgiveOverdraft
        <5>2. w.phase = "overdrawn"
          BY DEF Overview, NoOverview
        <5> HIDE DEF w
        <5> QED
          BY <5>1, <5>2
      <4>6. CASE FinishOverview(d)
        <5> DEFINE w == NoOverview
        <5>1. dashboard' = [dashboard EXCEPT ![d] = w]
          BY <1>t, <3>1, <4>6 DEF FinishOverview
        <5>2. w.phase = "idle"
          BY DEF Overview, NoOverview
        <5> HIDE DEF w
        <5> QED
          BY <5>1, <5>2
      <4> QED
        BY <2>2, <4>1, <4>2, <4>3, <4>4, <4>5, <4>6
    <3> QED
      BY <1>t, <3>2 DEF MovesRight
  <2> QED
    BY <1>2, <2>1, <2>2 DEF ReconciliationNext
<1> QED
  BY <1>1, <1>2 DEF Next, vars

(***************************************************************************)
(* No credit is made or lost, for any accounts, calls, administrators and  *)
(* pages: what the accounts hold beyond what they have delegated is what   *)
(* was there, plus the top-ups, less what subtractions that stopped at     *)
(* zero dropped, until a writer is overtaken.                              *)
(***************************************************************************)
THEOREM NoCreditLost == Spec => []CreditsConserved
<1> DEFINE K == Total([a \in Accounts |-> Granted[a] - Delegated[a]])
<1>1. Init => CreditsInv
  <2> SUFFICES ASSUME Init PROVE ParentsThere /\ TargetsRight /\ MovesRight /\ CreditsConserved
    BY TypeInit, ChecksInit DEF CreditsInv
  <2>1. ParentsThere
    <3>1. \A u \in UserAccounts : InitialHome[u] \in Accounts
      BY DEF Accounts
    <3>2. Master \in Accounts
      BY DEF Accounts
    <3> QED
      BY <3>1, <3>2 DEF Init, AccountsInit, ParentsThere, Accounts
  <2>2. TargetsRight /\ MovesRight
    BY DEF Init, AllocationInit, ReconciliationInit, TargetsRight, MovesRight, Idle, NoOverview
  <2>3. OwnCredits(account) = K /\ minted = 0 /\ clipped = 0
    <3>1. [a \in Accounts |-> account[a].allocated - account[a].childAllocated]
            = [a \in Accounts |-> Granted[a] - Delegated[a]]
      BY DEF Init, AccountsInit
    <3> QED
      BY <3>1 DEF OwnCredits, Init, AccountsInit
  <2>4. OwnCredits(account) \in Int
    <3> DEFINE rows == account
    <3>1. rows \in Rows
      BY TypeInit DEF TypeOK, AccountsTypeOK
    <3> HIDE DEF rows
    <3>2. OwnCredits(rows) \in Int
      BY <3>1, OwnKept
    <3> QED
      BY <3>2 DEF rows
  <2>5. OwnCredits(account) = K + minted - clipped
    <3> HIDE DEF K
    <3> QED
      BY <2>3, <2>4
  <2> QED
    BY <2>1, <2>2, <2>5 DEF CreditsConserved
<1>2. CreditsInv /\ [Next]_vars => CreditsInv'
  <2> SUFFICES ASSUME CreditsInv, [Next]_vars, overtaken' = {}
               PROVE  OwnCredits(account') = K + minted' - clipped'
    BY TypeStep, ChecksStep, ParentsStep, TargetsStep, MovesStep
    DEF CreditsInv, CreditsConserved
  <2>1. TypeOK /\ TypeOK' /\ ChecksPassed /\ ParentsThere /\ TargetsRight /\ MovesRight
    BY TypeStep DEF CreditsInv
  <2>2. Balanced /\ overtaken = {}
    <3>1. CASE UNCHANGED vars
      BY <2>1, <3>1, Quiet DEF vars, accountVars
    <3>2. CASE UsageNext
      BY <2>1, <3>2, UsageBalances
    <3>3. CASE AllocationNext
      BY <2>1, <3>3, AllocationBalances
    <3>4. CASE ReconciliationNext
      BY <2>1, <3>4, ReconciliationBalances
    <3> QED
      BY <3>1, <3>2, <3>3, <3>4 DEF Next
  <2>3. OwnCredits(account) = K + minted - clipped
    BY <2>2 DEF CreditsInv, CreditsConserved
  <2>4. minted \in Int /\ clipped \in Int /\ minted' \in Int /\ clipped' \in Int
    BY <2>1 DEF TypeOK, AccountsTypeOK
  <2>5. K \in Int
    <3> DEFINE f == [a \in Accounts |-> Granted[a] - Delegated[a]]
    <3>1. f \in [Accounts -> Int] /\ IsFiniteSet(Accounts)
      BY AccountsAssumption
    <3> HIDE DEF f
    <3>2. PICK g \in [Accounts -> Int] : g = f
      BY <3>1
    <3>3. Total(g) \in Int
      BY <3>1, TotalIsInt
    <3> QED
      BY <3>2, <3>3 DEF f
  <2> HIDE DEF K
  <2> QED
    BY <2>2, <2>3, <2>4, <2>5 DEF Balanced
<1>3. CreditsInv => CreditsConserved
  BY DEF CreditsInv
<1> QED
  BY <1>1, <1>2, <1>3, PTL DEF Spec

-----------------------------------------------------------------------------
(***************************************************************************)
(* The ledger.  What the refinement needs besides the types: a call that   *)
(* Gemini has not answered has no usage, one that is committed is past its *)
(* commit, and what an overview page is about to forgive is usage of a     *)
(* limited account.                                                        *)
(***************************************************************************)
Unanswered ==
  \A r \in Requests :
    request[r].phase \in {"new", "estimated", "reserving", "reserved"} =>
      request[r].actual = 0

PageSparesUnlimited(v) ==
  /\ v.phase \in {"overdrawn", "forgiving"} => v.todo \cap Unlimited = {}
  /\ v.phase = "forgiving" => v.current \notin Unlimited /\ v.seen.used > 0

PagesSpareUnlimited == \A d \in Dashboards : PageSparesUnlimited(dashboard[d])

LedgerInv == TypeOK /\ CommittedLate /\ Unanswered /\ PagesSpareUnlimited

LEMMA LedgerInvInit == Init => LedgerInv
<1> SUFFICES ASSUME Init PROVE Unanswered /\ PagesSpareUnlimited
  BY TypeInit, CommittedInit DEF LedgerInv
<1>1. Unanswered
  BY DEF Init, UsageInit, Unanswered
<1>2. PagesSpareUnlimited
  BY DEF Init, ReconciliationInit, NoOverview, PagesSpareUnlimited,
         PageSparesUnlimited
<1> QED
  BY <1>1, <1>2

LEMMA UnansweredStep ==
  ASSUME TypeOK, Unanswered, [Next]_vars
  PROVE  Unanswered'
<1> USE DEF Unanswered
<1>t. request \in [Requests -> Call]
  BY DEF TypeOK, UsageTypeOK
<1>1. CASE UNCHANGED request
  BY <1>1
<1>2. ASSUME UsageNext PROVE Unanswered'
  <2> PICK r \in Requests :
        \/ \E n \in CreditsOrNone : Estimate(r, n)
        \/ ReserveRead(r)
        \/ ReserveWrite(r)
        \/ \E n \in CreditsOrNone : GeminiAnswer(r, n)
        \/ GeminiFailure(r)
        \/ CommitRead(r)
        \/ CommitWrite(r)
        \/ CommitReplyLost(r)
        \/ CommitFails(r)
        \/ Refund(r)
        \/ Crash(r)
    BY <1>2 DEF UsageNext
  <2>1. /\ request[r] \in Call
        /\ \A s \in Requests \ {r} : request'[s] = request[s]
    BY <1>t DEF Estimate, ReserveRead, ReserveWrite, GeminiAnswer,
       GeminiFailure, CommitRead, CommitWrite, CommitReplyLost, CommitFails,
       Refund, Crash, Moves
  <2>2. request'[r].phase \in {"new", "estimated", "reserving", "reserved"}
          => request'[r].actual = 0
    BY <1>t, <2>1
    DEF Call, Estimate, ReserveRead, ReserveWrite, GeminiAnswer,
       GeminiFailure, CommitRead, CommitWrite, CommitReplyLost, CommitFails,
       Refund, Crash, Moves
  <2> QED
    BY <2>1, <2>2
<1> QED
  BY <1>1, <1>2 DEF Next, vars

LEMMA PagesStep ==
  ASSUME TypeOK, PagesSpareUnlimited, [Next]_vars
  PROVE  PagesSpareUnlimited'
<1>t. dashboard \in [Dashboards -> Overview]
  BY DEF TypeOK, ReconciliationTypeOK
<1>1. CASE UNCHANGED dashboard
  BY <1>1 DEF PagesSpareUnlimited, PageSparesUnlimited
<1>2. ASSUME ReconciliationNext PROVE PagesSpareUnlimited'
  <2> PICK d \in Dashboards :
        \/ ListUserAccounts(d)
        \/ \E u \in UserAccounts : ReadOldParent(d, u)
        \/ MoveUserAccount(d)
        \/ ListOverdrawn(d)
        \/ \E a \in Accounts : ReadOverdrawn(d, a)
        \/ ForgiveOverdraft(d)
        \/ FinishOverview(d)
    BY <1>2 DEF ReconciliationNext
  <2> DEFINE v == dashboard[d]
             w == dashboard'[d]
  <2>1. /\ v \in Overview /\ PageSparesUnlimited(v)
        /\ \A e \in Dashboards \ {d} : dashboard'[e] = dashboard[e]
    BY <1>t DEF PagesSpareUnlimited, ListUserAccounts, ReadOldParent,
       MoveUserAccount, ListOverdrawn, ReadOverdrawn, ForgiveOverdraft,
       FinishOverview
  <2>2. CASE ListUserAccounts(d) \/ FinishOverview(d)
    <3>1. ListUserAccounts(d) => w.phase = "parents"
      BY <1>t DEF ListUserAccounts, NoOverview
    <3>2. FinishOverview(d) => w.phase = "idle"
      BY <1>t DEF FinishOverview, NoOverview
    <3> QED
      BY <2>1, <2>2, <3>1, <3>2 DEF PagesSpareUnlimited, PageSparesUnlimited
  <2>3. CASE (\E u \in UserAccounts : ReadOldParent(d, u)) \/ MoveUserAccount(d)
    <3>1. ASSUME NEW u \in UserAccounts, ReadOldParent(d, u)
          PROVE  w.phase = "moving"
      BY <1>t, <2>1, <3>1 DEF ReadOldParent, Overview
    <3>2. MoveUserAccount(d) => w.phase = "parents"
      BY <1>t, <2>1 DEF MoveUserAccount, Overview
    <3> QED
      BY <2>1, <2>3, <3>1, <3>2 DEF PagesSpareUnlimited, PageSparesUnlimited
  <2>4. CASE ListOverdrawn(d)
    <3>1. /\ w.phase = "overdrawn"
          /\ w.todo = {a \in Accounts : Forgivable(a, account[a])}
      BY <1>t, <2>4 DEF ListOverdrawn, NoOverview
    <3>2. w.todo \cap Unlimited = {}
      BY <3>1 DEF Forgivable
    <3> QED
      BY <2>1, <3>1, <3>2 DEF PagesSpareUnlimited, PageSparesUnlimited
  <2>5. ASSUME NEW a \in Accounts, ReadOverdrawn(d, a)
        PROVE  PagesSpareUnlimited'
    <3>1. /\ v.phase = "overdrawn" /\ a \in v.todo
          /\ a \notin Unlimited
      BY <2>1, <2>5 DEF ReadOverdrawn, PageSparesUnlimited
    <3>2. /\ w.todo = v.todo \ {a}
          /\ w.phase = "forgiving" =>
               w.current = a /\ w.seen = account[a] /\ account[a].used > 0
      BY <1>t, <2>1, <2>5, <3>1 DEF ReadOverdrawn, Overview
    <3> QED
      BY <2>1, <3>1, <3>2 DEF PagesSpareUnlimited, PageSparesUnlimited
  <2>6. CASE ForgiveOverdraft(d)
    <3>1. v.phase = "forgiving" /\ w.phase = "overdrawn" /\ w.todo = v.todo
      BY <1>t, <2>1, <2>6 DEF ForgiveOverdraft, Overview
    <3> QED
      BY <2>1, <3>1 DEF PagesSpareUnlimited, PageSparesUnlimited
  <2> QED
    BY <2>2, <2>3, <2>4, <2>5, <2>6
<1> QED
  BY <1>1, <1>2 DEF Next, vars

LEMMA LedgerInvStep == LedgerInv /\ [Next]_vars => LedgerInv'
  BY TypeStep, CommittedStep, UnansweredStep, PagesStep DEF LedgerInv

(***************************************************************************)
(* Each step is a step of the ledger, or leaves it.                        *)
(***************************************************************************)
LedgerStep == [Ledger!LedgerNext]_(Ledger!ledgerVars)

LEMMA LedgerKept ==
  ASSUME LedgerEntries' = LedgerEntries, HeldCredits' = HeldCredits,
         UsedCredits' = UsedCredits
  PROVE  LedgerStep
  BY DEF LedgerStep, Ledger!ledgerVars

LEMMA EntriesKept ==
  ASSUME \A r \in Requests : LedgerEntry(request'[r]) = LedgerEntry(request[r])
  PROVE  LedgerEntries' = LedgerEntries
  BY DEF LedgerEntries

LEMMA HeldKept ==
  ASSUME \A a \in Accounts : account'[a].reserved = account[a].reserved
  PROVE  HeldCredits' = HeldCredits
  BY DEF HeldCredits

LEMMA UsedKept ==
  ASSUME \A a \in Accounts : account'[a].used = account[a].used
  PROVE  UsedCredits' = UsedCredits
  BY DEF UsedCredits

\* One entry, or one account, changes
LEMMA EntryChanges ==
  ASSUME NEW r \in Requests, NEW e,
         \A s \in Requests \ {r} : request'[s] = request[s],
         LedgerEntry(request'[r]) = e
  PROVE  LedgerEntries' = [LedgerEntries EXCEPT ![r] = e]
<1> USE DEF LedgerEntries
<1>1. DOMAIN LedgerEntries' = Requests /\ DOMAIN LedgerEntries = Requests
  OBVIOUS
<1>2. ASSUME NEW s \in Requests
      PROVE  LedgerEntries'[s] = [LedgerEntries EXCEPT ![r] = e][s]
  OBVIOUS
<1> QED
  BY <1>2

LEMMA HeldChanges ==
  ASSUME NEW a \in Accounts, NEW n \in Int,
         \A b \in Accounts :
           account'[b].reserved = IF b = a THEN account[b].reserved + n
                                  ELSE account[b].reserved
  PROVE  HeldCredits' = [HeldCredits EXCEPT ![a] = @ + n]
  BY DEF HeldCredits

LEMMA UsedChanges ==
  ASSUME NEW a \in Accounts, NEW n \in Int,
         \A b \in Accounts :
           account'[b].used = IF b = a THEN account[b].used + n
                              ELSE account[b].used
  PROVE  UsedCredits' = [UsedCredits EXCEPT ![a] = @ + n]
  BY DEF UsedCredits

\* What the entry of a call is in each of its phases
LEMMA EntryOf ==
  ASSUME NEW q \in Call
  PROVE  /\ q.phase \in {"new", "estimated", "reserving", "rejected"} =>
              LedgerEntry(q) = [state |-> "none"]
         /\ q.phase \notin {"new", "estimated", "reserving", "rejected"} =>
              LedgerEntry(q) = [state |-> LedgerState(q),
                                account |-> q.account,
                                amount |-> q.reservation,
                                usage |-> q.actual]
         /\ q.phase \in {"reserved", "answered", "committing"} =>
              LedgerState(q) = "held"
         /\ q.phase \in {"failing", "leaked"} =>
              LedgerState(q) = IF q.committed THEN "unheard" ELSE "held"
         /\ q.phase = "charged" => LedgerState(q) = "billed"
         /\ q.phase = "refunded" =>
              LedgerState(q) = IF q.committed THEN "lifted twice"
                               ELSE "released"
  BY DEF Call, LedgerEntry, LedgerState, Holds, ReleasedTwice

\* Ledger steps, from what changes
LEMMA LedgerHolds ==
  ASSUME NEW r \in Requests, NEW a \in Accounts, NEW n \in CreditsOrNone,
         LedgerEntries[r] = [state |-> "none"],
         LedgerEntries' = [LedgerEntries EXCEPT ![r] =
                             [state |-> "held", account |-> a, amount |-> n,
                              usage |-> 0]],
         HeldCredits' = [HeldCredits EXCEPT ![a] = @ + n],
         UsedCredits' = UsedCredits
  PROVE  LedgerStep
<1>1. Ledger!Hold(r, a, n)
  BY DEF Ledger!Hold, Ledger!NoEntry
<1>2. LedgerEntries'[r] # LedgerEntries[r]
  <2>1. DOMAIN LedgerEntries = Requests
    BY DEF LedgerEntries
  <2>2. LedgerEntries'[r].state = "held"
    BY <2>1
  <2> QED
    BY <2>2
<1> QED
  BY <1>1, <1>2 DEF LedgerStep, Ledger!LedgerNext

LEMMA LedgerReports ==
  ASSUME NEW r \in Requests, NEW n \in CreditsOrNone,
         LedgerEntries[r].state = "held", LedgerEntries[r].usage = 0,
         LedgerEntries' = [LedgerEntries EXCEPT ![r].usage = n],
         HeldCredits' = HeldCredits, UsedCredits' = UsedCredits
  PROVE  LedgerStep
<1>1. Ledger!Report(r, n)
  BY DEF Ledger!Report
<1>2. CASE LedgerEntries'[r] = LedgerEntries[r]
  <2> DEFINE e == [LedgerEntries[r] EXCEPT !.usage = n]
  <2>1. LedgerEntries = [s \in Requests |-> LedgerEntries[s]]
    BY DEF LedgerEntries
  <2>2. LedgerEntries' = [LedgerEntries EXCEPT ![r] = e]
    OBVIOUS
  <2> HIDE DEF e
  <2>3. e = LedgerEntries[r]
    BY <1>2, <2>1, <2>2
  <2>4. LedgerEntries' = LedgerEntries
    BY <2>1, <2>2, <2>3
  <2> QED
    BY <2>4, LedgerKept
<1>3. CASE LedgerEntries'[r] # LedgerEntries[r]
  BY <1>1, <1>3 DEF LedgerStep, Ledger!LedgerNext
<1> QED
  BY <1>2, <1>3

LiftsEntry(r, from, to, n) ==
  /\ LedgerEntries[r].state = from
  /\ LedgerEntries' = [LedgerEntries EXCEPT ![r].state = to]
  /\ HeldCredits' = [HeldCredits EXCEPT ![LedgerEntries[r].account] = @ - n]
  /\ n = LedgerEntries[r].amount
  /\ "state" \in DOMAIN LedgerEntries[r]

LEMMA LiftIsChange ==
  ASSUME NEW r \in Requests, NEW from, NEW to, NEW n, from # to,
         LiftsEntry(r, from, to, n)
  PROVE  LedgerEntries'[r] # LedgerEntries[r]
<1>1. DOMAIN LedgerEntries = Requests
  BY DEF LedgerEntries
<1>2. LedgerEntries'[r].state = to
  BY <1>1 DEF LiftsEntry
<1> QED
  BY <1>2 DEF LiftsEntry

LEMMA LedgerReleases ==
  ASSUME NEW r \in Requests, NEW n,
         \/ LiftsEntry(r, "held", "released", n)
         \/ LiftsEntry(r, "unheard", "lifted twice", n),
         UsedCredits' = UsedCredits
  PROVE  LedgerStep
<1>1. Ledger!Release(r)
  BY DEF LiftsEntry, Ledger!Release, Ledger!Lifts
<1>2. LedgerEntries'[r] # LedgerEntries[r]
  BY LiftIsChange
<1> QED
  BY <1>1, <1>2 DEF LedgerStep, Ledger!LedgerNext

LEMMA LedgerForgives ==
  ASSUME NEW a \in Accounts \ Unlimited, NEW n \in Int,
         LedgerEntries' = LedgerEntries, HeldCredits' = HeldCredits,
         UsedCredits' = [UsedCredits EXCEPT ![a] = n],
         n < UsedCredits[a]
  PROVE  LedgerStep
<1>1. DOMAIN UsedCredits = Accounts
  BY DEF UsedCredits
<1>2. UsedCredits'[a] = n
  BY <1>1
<1>3. Ledger!Forgive(a)
  BY <1>2 DEF Ledger!Forgive
<1> QED
  BY <1>3 DEF LedgerStep, Ledger!LedgerNext

LEMMA CallType ==
  ASSUME NEW q \in Call
  PROVE  /\ q.account \in Accounts
         /\ q.reservation \in CreditsOrNone
         /\ q.actual \in CreditsOrNone
         /\ q.reservation \in Nat /\ q.actual \in Nat
         /\ Chargeable(q) \in CreditsOrNone /\ Chargeable(q) <= q.actual
<1>1. /\ q.account \in Accounts
      /\ q.reservation \in 0..MaxCredits /\ q.actual \in 0..MaxCredits
      /\ q.seen \in Row
  BY DEF Call, CreditsOrNone
<1>2. Available(q.seen) \in Int
  BY <1>1, RowType
<1>3. Chargeable(q) \in 0..MaxCredits /\ Chargeable(q) <= q.actual
  BY <1>1, <1>2 DEF Chargeable
<1> QED
  BY <1>1, <1>3 DEF CreditsOrNone

LEMMA EstimateKeeps ==
  ASSUME LedgerInv, NEW r \in Requests, NEW n \in CreditsOrNone, Estimate(r, n)
  PROVE  LedgerStep
<1>t. request \in [Requests -> Call]
  BY DEF LedgerInv, TypeOK, UsageTypeOK
<1>1. /\ request'[r].phase = "estimated" /\ request[r].phase = "new"
      /\ \A s \in Requests \ {r} : request'[s] = request[s]
      /\ UNCHANGED account
  BY <1>t DEF Estimate, Call, accountVars
<1>2. LedgerEntry(request'[r]) = LedgerEntry(request[r])
  BY <1>1 DEF LedgerEntry
<1> QED
  BY <1>1, <1>2, EntriesKept, HeldKept, UsedKept, LedgerKept

LEMMA QuietCallKeeps ==
  ASSUME LedgerInv, NEW r \in Requests,
         ReserveRead(r) \/ GeminiFailure(r) \/ CommitRead(r) \/ CommitFails(r)
           \/ Crash(r)
  PROVE  LedgerStep
<1>t. request \in [Requests -> Call] /\ request[r] \in Call
  BY DEF LedgerInv, TypeOK, UsageTypeOK
<1>c. request[r].committed =>
        request[r].phase \in {"charged", "failing", "refunded", "leaked"}
  BY DEF LedgerInv, CommittedLate
<1>1. /\ UNCHANGED account
      /\ \A s \in Requests \ {r} : request'[s] = request[s]
  BY <1>t DEF ReserveRead, GeminiFailure, CommitRead, CommitFails, Crash,
              Moves, accountVars
<1>2. /\ request'[r].reservation = request[r].reservation
      /\ request'[r].account = request[r].account
      /\ request'[r].actual = request[r].actual
      /\ request'[r].committed = request[r].committed
  BY <1>t DEF ReserveRead, GeminiFailure, CommitRead, CommitFails, Crash,
              Moves, Call
<1>3. LedgerEntry(request'[r]) = LedgerEntry(request[r])
  <2>1. \/ /\ request[r].phase \in {"estimated", "reserving"}
           /\ request'[r].phase \in {"reserving", "rejected"}
        \/ /\ request[r].phase \in {"reserved", "answered", "committing"}
           /\ request'[r].phase \in {"answered", "committing", "failing",
                                     "leaked"}
        \/ /\ request[r].phase = "failing"
           /\ request'[r].phase = "leaked"
    BY <1>t DEF ReserveRead, GeminiFailure, CommitRead, CommitFails, Crash,
                Moves, Call
  <2> QED
    BY <1>c, <1>2, <2>1 DEF LedgerEntry, LedgerState, Holds, ReleasedTwice
<1> QED
  BY <1>1, <1>3, EntriesKept, HeldKept, UsedKept, LedgerKept

LEMMA ReserveIsHold ==
  ASSUME LedgerInv, NEW r \in Requests, ReserveWrite(r)
  PROVE  LedgerStep
<1> DEFINE q == request[r]
           a == q.account
           n == q.reservation
<1> PICK w : w = [q EXCEPT !.phase = "reserved", !.seen = EmptyRow]
  OBVIOUS
<1>t. request \in [Requests -> Call] /\ account \in Rows /\ q \in Call
  BY DEF LedgerInv, TypeOK, UsageTypeOK, AccountsTypeOK
<1>c. q.phase = "reserving" /\ ~q.committed /\ q.actual = 0
  BY <1>t DEF LedgerInv, CommittedLate, Unanswered, ReserveWrite, Call
<1>1. /\ request' = [request EXCEPT ![r] = w]
      /\ account' = [account EXCEPT ![a].reserved = @ + n]
  BY DEF ReserveWrite
<1>2. a \in Accounts /\ n \in CreditsOrNone /\ n \in Int
  BY <1>t, CallType
<1>3. w.phase = "reserved" /\ w.account = a /\ w.reservation = n
      /\ w.actual = 0
  BY <1>t, <1>c DEF Call
<1>4. /\ LedgerEntry(q) = [state |-> "none"]
      /\ LedgerEntry(w) = [state |-> "held", account |-> a, amount |-> n,
                           usage |-> 0]
  <2>1. w \in Call
    BY <1>t, RowType DEF Call, Phases
  <2> QED
    BY <1>t, <1>c, <1>3, <2>1, EntryOf
<1>5. LedgerEntries[r] = [state |-> "none"]
  BY <1>4 DEF LedgerEntries
<1> HIDE DEF n, a
<1>6. request'[r] = w /\ \A s \in Requests \ {r} : request'[s] = request[s]
  BY <1>t, <1>1
<1>7. LedgerEntries' = [LedgerEntries EXCEPT ![r] =
          [state |-> "held", account |-> a, amount |-> n, usage |-> 0]]
  BY <1>4, <1>6, EntryChanges
<1>8. ASSUME NEW b \in Accounts
      PROVE  /\ account'[b].reserved = IF b = a THEN account[b].reserved + n
                                       ELSE account[b].reserved
             /\ account'[b].used = account[b].used
  BY <1>t, <1>1, <1>2 DEF Rows, Row
<1>9. HeldCredits' = [HeldCredits EXCEPT ![a] = @ + n]
  BY <1>2, <1>8, HeldChanges
<1>10. UsedCredits' = UsedCredits
  BY <1>8, UsedKept
<1> QED
  BY <1>2, <1>5, <1>7, <1>9, <1>10, LedgerHolds

LEMMA AnswerIsReport ==
  ASSUME LedgerInv, NEW r \in Requests, NEW n \in CreditsOrNone,
         GeminiAnswer(r, n)
  PROVE  LedgerStep
<1> DEFINE q == request[r]
<1> PICK w : w = [q EXCEPT !.phase = "answered", !.actual = n]
  OBVIOUS
<1>t. request \in [Requests -> Call] /\ q \in Call
  BY DEF LedgerInv, TypeOK, UsageTypeOK
<1>c. q.phase = "reserved" /\ q.actual = 0
  BY <1>t DEF LedgerInv, Unanswered, GeminiAnswer
<1>1. request' = [request EXCEPT ![r] = w] /\ UNCHANGED account
  BY DEF GeminiAnswer, accountVars
<1>2. w.phase = "answered" /\ w.account = q.account
      /\ w.reservation = q.reservation /\ w.actual = n
  BY <1>t DEF Call
<1>3. /\ LedgerEntry(q) = [state |-> "held", account |-> q.account,
                           amount |-> q.reservation, usage |-> 0]
      /\ LedgerEntry(w) = [state |-> "held", account |-> q.account,
                           amount |-> q.reservation, usage |-> n]
  <2>1. w \in Call
    BY <1>t DEF Call, Phases
  <2> QED
    BY <1>t, <1>c, <1>2, <2>1, EntryOf
<1>4. LedgerEntry(w) = [LedgerEntry(q) EXCEPT !.usage = n]
  BY <1>3
<1>5. LedgerEntries[r] = LedgerEntry(q)
  BY DEF LedgerEntries
<1>6. request'[r] = w /\ \A s \in Requests \ {r} : request'[s] = request[s]
  BY <1>t, <1>1
<1>7. LedgerEntries' = [LedgerEntries EXCEPT ![r] =
                          [LedgerEntry(q) EXCEPT !.usage = n]]
  BY <1>4, <1>6, EntryChanges
<1>8. LedgerEntries' = [LedgerEntries EXCEPT ![r].usage = n]
  BY <1>5, <1>7
<1>9. LedgerEntries[r].state = "held" /\ LedgerEntries[r].usage = 0
  BY <1>3, <1>5
<1> QED
  BY <1>1, <1>8, <1>9, HeldKept, UsedKept, LedgerReports

\* A commit or a refund lifts the hold: what it does to the rows
LEMMA CommitColumns ==
  ASSUME LedgerInv, NEW r \in Requests, CommitEffect(r)
  PROVE  \A b \in Accounts :
           /\ account'[b].reserved =
                IF b = request[r].account
                THEN account[b].reserved + (0 - request[r].reservation)
                ELSE account[b].reserved
           /\ account'[b].used =
                IF b = request[r].account
                THEN account[b].used + Chargeable(request[r])
                ELSE account[b].used
<1> DEFINE a == request[r].account
           n == request[r].reservation
           k == Chargeable(request[r])
<1>t. account \in Rows /\ request[r] \in Call
  BY DEF LedgerInv, TypeOK, UsageTypeOK, AccountsTypeOK
<1>1. account' = [account EXCEPT ![a].reserved = @ - n, ![a].used = @ + k]
  BY DEF CommitEffect
<1>2. a \in Accounts /\ n \in Int /\ k \in Int
  BY <1>t, CallType DEF CreditsOrNone
<1> HIDE DEF a, n, k
<1>3. ASSUME NEW b \in Accounts
      PROVE  /\ account'[b].reserved =
                  IF b = a THEN account[b].reserved + (0 - n)
                  ELSE account[b].reserved
             /\ account'[b].used =
                  IF b = a THEN account[b].used + k ELSE account[b].used
  BY <1>t, <1>1, <1>2 DEF Rows, Row
<1> QED
  BY <1>3 DEF a, n, k

LEMMA LiftFromCall ==
  ASSUME LedgerInv, NEW r \in Requests, NEW w \in Call, NEW from, NEW to,
         request[r].phase \notin {"new", "estimated", "reserving", "rejected"},
         w.phase \notin {"new", "estimated", "reserving", "rejected"},
         w.account = request[r].account,
         w.reservation = request[r].reservation,
         w.actual = request[r].actual,
         LedgerState(request[r]) = from, LedgerState(w) = to,
         request' = [request EXCEPT ![r] = w],
         \A b \in Accounts :
           account'[b].reserved =
             IF b = request[r].account
             THEN account[b].reserved + (0 - request[r].reservation)
             ELSE account[b].reserved
  PROVE  /\ LiftsEntry(r, from, to, request[r].reservation)
         /\ LedgerEntries[r].account = request[r].account
         /\ LedgerEntries[r].usage = request[r].actual
<1> DEFINE q == request[r]
           a == q.account
           n == q.reservation
<1>t. /\ request \in [Requests -> Call] /\ q \in Call
      /\ account \in Rows
  BY DEF LedgerInv, TypeOK, UsageTypeOK, AccountsTypeOK
<1>1. /\ LedgerEntry(q) = [state |-> from, account |-> a, amount |-> n,
                           usage |-> q.actual]
      /\ LedgerEntry(w) = [state |-> to, account |-> a, amount |-> n,
                           usage |-> q.actual]
  BY DEF LedgerEntry
<1>2. LedgerEntry(w) = [LedgerEntry(q) EXCEPT !.state = to]
  BY <1>1
<1>3. LedgerEntries[r] = LedgerEntry(q)
  BY DEF LedgerEntries
<1>4. request'[r] = w /\ \A s \in Requests \ {r} : request'[s] = request[s]
  BY <1>t
<1>5. LedgerEntries' = [LedgerEntries EXCEPT ![r] =
                          [LedgerEntry(q) EXCEPT !.state = to]]
  BY <1>2, <1>4, EntryChanges
<1>6. LedgerEntries' = [LedgerEntries EXCEPT ![r].state = to]
  BY <1>3, <1>5
<1>7. a \in Accounts /\ n \in Int
  BY <1>t, CallType
<1>8. \A b \in Accounts :
        account'[b].reserved = IF b = a THEN account[b].reserved + (0 - n)
                               ELSE account[b].reserved
  OBVIOUS
<1>9. /\ LedgerEntries[r].state = from /\ LedgerEntries[r].account = a
      /\ LedgerEntries[r].amount = n /\ LedgerEntries[r].usage = q.actual
      /\ "state" \in DOMAIN LedgerEntries[r]
  BY <1>1, <1>3
<1> HIDE DEF a, n
<1>10. HeldCredits' = [HeldCredits EXCEPT ![a] = @ - n]
  <2>1. PICK z \in Int : z = 0 - n
    BY <1>7
  <2>2. HeldCredits' = [HeldCredits EXCEPT ![a] = @ + z]
    BY <1>7, <1>8, <2>1, HeldChanges
  <2>3. HeldCredits[a] + z = HeldCredits[a] - n
    BY <1>t, <1>7, <2>1, Columns DEF HeldCredits
  <2> QED
    BY <2>2, <2>3
<1>11. LiftsEntry(r, from, to, n)
  BY <1>6, <1>9, <1>10 DEF LiftsEntry
<1> QED
  BY <1>9, <1>11 DEF a, n

LEMMA CommitIsBill ==
  ASSUME LedgerInv, NEW r \in Requests, CommitWrite(r) \/ CommitReplyLost(r)
  PROVE  LedgerStep
<1> DEFINE q == request[r]
<1>t. request \in [Requests -> Call] /\ q \in Call
  BY DEF LedgerInv, TypeOK, UsageTypeOK
<1>0. PICK phase \in {"charged", "failing"} :
        request' = [request EXCEPT ![r].phase = phase, ![r].seen = EmptyRow,
                                   ![r].committed = TRUE]
  BY DEF CommitWrite, CommitReplyLost
<1> PICK w : w = [q EXCEPT !.phase = phase, !.seen = EmptyRow,
                           !.committed = TRUE]
  OBVIOUS
<1>1. request' = [request EXCEPT ![r] = w]
  BY <1>t, <1>0
<1>2. q.phase = "committing" /\ CommitEffect(r)
  BY DEF CommitWrite, CommitReplyLost
<1>3. w \in Call
  BY <1>t, <1>1, RowType DEF Call, Phases
<1>4. /\ w.phase = phase /\ w.committed
      /\ w.account = q.account /\ w.reservation = q.reservation
      /\ w.actual = q.actual
  BY <1>t, <1>1 DEF Call
<1>5. PICK outcome \in {"billed", "unheard"} : LedgerState(w) = outcome
  BY <1>3, <1>4, EntryOf
<1>6. LedgerState(q) = "held"
  BY <1>t, <1>2, EntryOf
<1>7. /\ LiftsEntry(r, "held", outcome, q.reservation)
      /\ LedgerEntries[r].account = q.account
      /\ LedgerEntries[r].usage = q.actual
  BY <1>1, <1>2, <1>3, <1>4, <1>5, <1>6, CommitColumns, LiftFromCall
<1>8. PICK m \in CreditsOrNone : m = Chargeable(q) /\ m <= q.actual
  BY <1>t, CallType
<1>9. m \in Int /\ q.account \in Accounts
  BY <1>t, <1>8, CallType DEF CreditsOrNone
<1>10. \A b \in Accounts :
         account'[b].used = IF b = q.account THEN account[b].used + m
                            ELSE account[b].used
  BY <1>2, <1>8, CommitColumns
<1>11. UsedCredits' = [UsedCredits EXCEPT ![q.account] = @ + m]
  BY <1>9, <1>10, UsedChanges
<1>12. /\ m <= LedgerEntries[r].usage
       /\ UsedCredits' =
            [UsedCredits EXCEPT ![LedgerEntries[r].account] = @ + m]
  BY <1>7, <1>8, <1>11
<1> QED
  <2>1. PICK n : n = q.reservation /\ LiftsEntry(r, "held", outcome, n)
    BY <1>7
  <2>2. Ledger!Bill(r, m, outcome)
    BY <1>12, <2>1 DEF LiftsEntry, Ledger!Bill, Ledger!Lifts
  <2>3. LedgerEntries'[r] # LedgerEntries[r]
    BY <2>1, LiftIsChange
  <2> QED
    BY <2>2, <2>3 DEF LedgerStep, Ledger!LedgerNext

LEMMA RefundIsRelease ==
  ASSUME LedgerInv, NEW r \in Requests, Refund(r)
  PROVE  LedgerStep
<1> DEFINE q == request[r]
<1>t. request \in [Requests -> Call] /\ q \in Call /\ account \in Rows
  BY DEF LedgerInv, TypeOK, UsageTypeOK, AccountsTypeOK
<1>1. PICK w : /\ w = [q EXCEPT !.phase = "refunded"]
               /\ request' = [request EXCEPT ![r] = w]
  BY DEF Refund, Moves
<1>2. q.phase = "failing"
  BY DEF Refund, Moves
<1>3. w \in Call
  BY <1>t, <1>1 DEF Call, Phases
<1>4. /\ w.phase = "refunded" /\ w.committed = q.committed
      /\ w.account = q.account /\ w.reservation = q.reservation
      /\ w.actual = q.actual
  BY <1>t, <1>1 DEF Call
<1>5. ASSUME NEW b \in Accounts
      PROVE  /\ account'[b].reserved =
                  IF b = q.account THEN account[b].reserved + (0 - q.reservation)
                  ELSE account[b].reserved
             /\ account'[b].used = account[b].used
  <2>1. q.account \in Accounts /\ q.reservation \in Int
    BY <1>t, CallType
  <2>2. account' = [account EXCEPT ![q.account].reserved = @ - q.reservation]
    BY DEF Refund
  <2> HIDE DEF q
  <2> QED
    BY <1>t, <2>1, <2>2 DEF Rows, Row
<1>6. UsedCredits' = UsedCredits
  BY <1>5, UsedKept
<1>7. CASE q.committed
  <2>1. LedgerState(q) = "unheard" /\ LedgerState(w) = "lifted twice"
    BY <1>t, <1>2, <1>3, <1>4, <1>7, EntryOf
  <2>2. LiftsEntry(r, "unheard", "lifted twice", q.reservation)
    BY <1>1, <1>2, <1>3, <1>4, <1>5, <2>1, LiftFromCall
  <2> QED
    BY <1>6, <2>2, LedgerReleases
<1>8. CASE ~q.committed
  <2>1. LedgerState(q) = "held" /\ LedgerState(w) = "released"
    BY <1>t, <1>2, <1>3, <1>4, <1>8, EntryOf
  <2>2. LiftsEntry(r, "held", "released", q.reservation)
    BY <1>1, <1>2, <1>3, <1>4, <1>5, <2>1, LiftFromCall
  <2> QED
    BY <1>6, <2>2, LedgerReleases
<1> QED
  BY <1>7, <1>8

LEMMA CallsKeepLedger ==
  ASSUME LedgerInv, UsageNext
  PROVE  LedgerStep
<1> PICK r \in Requests :
      \/ \E n \in CreditsOrNone : Estimate(r, n)
      \/ ReserveRead(r)
      \/ ReserveWrite(r)
      \/ \E n \in CreditsOrNone : GeminiAnswer(r, n)
      \/ GeminiFailure(r)
      \/ CommitRead(r)
      \/ CommitWrite(r)
      \/ CommitReplyLost(r)
      \/ CommitFails(r)
      \/ Refund(r)
      \/ Crash(r)
  BY DEF UsageNext
<1> QED
  BY EstimateKeeps, QuietCallKeeps, ReserveIsHold, AnswerIsReport,
     CommitIsBill, RefundIsRelease

LEMMA OthersKeepLedger ==
  ASSUME UNCHANGED request,
         \A a \in Accounts : /\ account'[a].reserved = account[a].reserved
                             /\ account'[a].used = account[a].used
  PROVE  LedgerStep
<1>1. LedgerEntries' = LedgerEntries
  BY EntriesKept
<1> QED
  BY <1>1, HeldKept, UsedKept, LedgerKept

LEMMA ForgivenessIsForgiven ==
  ASSUME LedgerInv, NEW d \in Dashboards, ForgiveOverdraft(d),
         UNCHANGED request
  PROVE  LedgerStep
<1> DEFINE v == dashboard[d]
           c == v.current
           n == Adjustment(v.seen)
<1>t. /\ v \in Overview /\ account \in Rows
      /\ c \in Accounts /\ v.seen \in Row
  BY OverviewType
  DEF LedgerInv, TypeOK, ReconciliationTypeOK, AccountsTypeOK
<1>1. c \notin Unlimited /\ v.seen.used > 0
  BY DEF LedgerInv, PagesSpareUnlimited, PageSparesUnlimited,
         ForgiveOverdraft
<1>2. n \in Nat
  <2>1. Deficit(v.seen) \in Nat /\ v.seen.used \in Int
    BY <1>t, RowType DEF Row
  <2> QED
    BY <1>1, <2>1 DEF Adjustment
<1>3. account' = [account EXCEPT ![c].used = @ - n]
  BY DEF ForgiveOverdraft
<1> HIDE DEF c, n
<1>4. PICK z \in Int : z = 0 - n
  BY <1>2
<1>5. ASSUME NEW b \in Accounts
      PROVE  /\ account'[b].used = IF b = c THEN account[b].used + z
                                   ELSE account[b].used
             /\ account'[b].reserved = account[b].reserved
  BY <1>t, <1>2, <1>3, <1>4 DEF Rows, Row
<1>6. CASE n = 0
  <2>1. \A b \in Accounts : /\ account'[b].reserved = account[b].reserved
                            /\ account'[b].used = account[b].used
    BY <1>t, <1>4, <1>5, <1>6, Columns
  <2> QED
    BY <2>1, OthersKeepLedger
<1>7. CASE n # 0
  <2>1. UsedCredits' = [UsedCredits EXCEPT ![c] = @ + z]
    BY <1>t, <1>5, UsedChanges
  <2>2. PICK m \in Int : m = UsedCredits[c] + z /\ m < UsedCredits[c]
    BY <1>t, <1>2, <1>4, <1>7, Columns DEF UsedCredits
  <2>3. UsedCredits' = [UsedCredits EXCEPT ![c] = m]
    BY <2>1, <2>2
  <2>4. LedgerEntries' = LedgerEntries /\ HeldCredits' = HeldCredits
    BY <1>5, EntriesKept, HeldKept
  <2> QED
    BY <1>t, <1>1, <2>2, <2>3, <2>4, LedgerForgives DEF c
<1> QED
  BY <1>6, <1>7

LEMMA PagesKeepLedger ==
  ASSUME LedgerInv, ReconciliationNext, UNCHANGED request
  PROVE  LedgerStep
<1>t. TypeOK
  BY DEF LedgerInv
<1>1. ASSUME NEW d \in Dashboards, ForgiveOverdraft(d)
      PROVE  LedgerStep
  BY <1>1, ForgivenessIsForgiven
<1>2. ASSUME NEW d \in Dashboards, MoveUserAccount(d)
      PROVE  LedgerStep
  BY <1>t, <1>2, MovesKeepUsage, ReconciliationKeepsReservations,
     OthersKeepLedger
<1>3. CASE UNCHANGED account
  BY <1>3, OthersKeepLedger
<1> QED
  BY <1>1, <1>2, <1>3 DEF ReconciliationNext, ListUserAccounts,
     ReadOldParent, ListOverdrawn, ReadOverdrawn, FinishOverview, accountVars

(***************************************************************************)
(* The credit system implements the ledger, for every tree of accounts and *)
(* any number of calls, administrators and pages: a call is billed at most *)
(* once, to the account that holds its reservation and within the usage    *)
(* Gemini reported, and nothing but calls, and forgiveness on limited      *)
(* accounts, changes what accounts have used or reserved.                  *)
(***************************************************************************)
THEOREM ImplementsLedger == Spec => KeepsLedger
<1>1. Init => Ledger!LedgerInit
  BY DEF Init, AccountsInit, UsageInit, LedgerEntries, LedgerEntry,
         HeldCredits, UsedCredits, Ledger!LedgerInit, Ledger!NoEntry
<1>2. LedgerInv /\ [Next]_vars => [Ledger!LedgerNext]_(Ledger!ledgerVars)
  <2> SUFFICES ASSUME LedgerInv, [Next]_vars PROVE LedgerStep
    BY DEF LedgerStep
  <2>t. TypeOK
    BY DEF LedgerInv
  <2>1. CASE UsageNext
    BY <2>1, CallsKeepLedger
  <2>2. CASE AllocationNext /\ UNCHANGED <<request, dashboard>>
    BY <2>t, <2>2, AllocationKeepsReservations, AllocationsKeepUsage,
       OthersKeepLedger
  <2>3. CASE ReconciliationNext /\ UNCHANGED <<request, allocationVars>>
    BY <2>3, PagesKeepLedger
  <2>4. CASE UNCHANGED vars
    BY <2>4, OthersKeepLedger DEF vars, accountVars
  <2> QED
    BY <2>1, <2>2, <2>3, <2>4 DEF Next
<1> QED
  BY LedgerInvInit, LedgerInvStep, <1>1, <1>2, PTL
     DEF Spec, KeepsLedger, Ledger!LedgerSpec
=============================================================================
