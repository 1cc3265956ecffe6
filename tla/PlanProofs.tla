------------------------------- MODULE PlanProofs -------------------------------
(***************************************************************************)
(* What governs an account, for every catalogue whose ceilings do not go   *)
(* down along the ladder, every calendar and every number of operators and *)
(* runs of the sweep: types, the effective plan, the bundles of a month,   *)
(* and, with one operator, the days and the credits of comp windows.       *)
(***************************************************************************)
EXTENDS PlanEntitlement, CreditLotsLemmas

Decision == [plan : Plans, starts : Nat, ends : Nat, stack : BOOLEAN,
             carry : BOOLEAN, paid : Nat, first : BOOLEAN, credits : Nat]

\* What an operator and a run of the sweep have in hand.
DeskOK ==
  /\ desk \in [Operators -> {Idle} \cup Decision]
  /\ \A o \in Operators : desk[o] # Idle => desk[o].starts < desk[o].ends

SweepOK ==
  sweep \in [Sweepers -> {Idle} \cup [plan : Plans \cup {None}, month : Nat]]

Typed == TypeOK /\ DeskOK /\ SweepOK

-------------------------------------------------------------------------------
\* Of finitely many things some one is largest.
LEMMA LargestExists ==
  ASSUME NEW S, IsFiniteSet(S), S # {}, NEW f \in [S -> Int]
  PROVE  \E x \in S : \A y \in S : f[y] <= f[x]
<1> DEFINE P == {T \in SUBSET S : T = {} \/ \E x \in T : \A y \in T : f[y] <= f[x]}
<1>1. {} \in P
  OBVIOUS
<1>2. ASSUME NEW T \in SUBSET S, NEW z \in S \ T, T \in P
      PROVE  T \cup {z} \in P
  <2>1. CASE T = {}
    BY <2>1
  <2>2. CASE T # {}
    <3>1. PICK x \in T : \A y \in T : f[y] <= f[x]
      BY <1>2, <2>2
    <3>2. CASE f[z] <= f[x]
      BY <3>1, <3>2
    <3>3. CASE ~ (f[z] <= f[x])
      <4>1. \A y \in T \cup {z} : f[y] <= f[z]
        BY <3>1, <3>3
      <4> QED BY <4>1
    <3> QED BY <3>2, <3>3
  <2> QED BY <2>1, <2>2
<1>3. S \in P
  <2> HIDE DEF P
  <2> QED BY <1>1, <1>2, FiniteInduction
<1> QED BY <1>3

\* Windows are finitely many.
LEMMA SomeWindows ==
  ASSUME comps \in Seq(Comp), NEW C \in SUBSET (DOMAIN comps)
  PROVE  IsFiniteSet(C)
<1>1. DOMAIN comps = 1..Len(comps) /\ Len(comps) \in Int
  OBVIOUS
<1>2. IsFiniteSet(1..Len(comps))
  <2>1. 1 \in Int
    OBVIOUS
  <2> QED BY <1>1, <2>1, FS_Interval, Zenon
<1>3. C \subseteq 1..Len(comps)
  BY <1>1
<1> QED BY <1>2, <1>3, FS_Subset, Zenon

\* A window that ends last is one of those asked about, and ends last.
LEMMA LatestIsLast ==
  ASSUME comps \in Seq(Comp), NEW C \in SUBSET (DOMAIN comps), C # {}
  PROVE  Latest(C) \in C /\ \A d \in C : comps[d].ends <= comps[Latest(C)].ends
<1> DEFINE f == [c \in C |-> comps[c].ends]
<1>1. IsFiniteSet(C)
  BY SomeWindows
<1>2. ASSUME NEW c \in C
      PROVE  comps[c].ends \in Int
  <2>1. DOMAIN comps = 1..Len(comps) /\ \A k \in 1..Len(comps) : comps[k] \in Comp
    OBVIOUS
  <2>2. comps[c] \in Comp
    BY <2>1
  <2> QED BY <2>2 DEF Comp
<1>3. f \in [C -> Int]
  BY <1>2
<1>4. PICK x \in C : \A y \in C : f[y] <= f[x]
  <2> HIDE DEF f
  <2> QED BY <1>1, <1>3, LargestExists
<1>5. \E c \in C : \A d \in C : comps[d].ends <= comps[c].ends
  BY <1>4
<1> QED BY <1>5 DEF Latest

\* A rank is a place on the ladder or 0, and at a place above 0 stands the plan.
LEMMA RankPlace ==
  ASSUME ladder \in Seq(Plans), NEW p
  PROVE  /\ Rank(p) \in Nat
         /\ Configured(p) <=> Rank(p) > 0
         /\ Configured(p) => Rank(p) \in DOMAIN ladder /\ ladder[Rank(p)] = p
<1>1. CASE Configured(p)
  <2>1. \E i \in DOMAIN ladder : ladder[i] = p
    BY <1>1 DEF Configured
  <2>2. Rank(p) = CHOOSE i \in DOMAIN ladder : ladder[i] = p
    BY <1>1 DEF Rank
  <2>3. Rank(p) \in DOMAIN ladder /\ ladder[Rank(p)] = p
    BY <2>1, <2>2
  <2> QED BY <2>3, <1>1
<1>2. CASE ~Configured(p)
  BY <1>2 DEF Rank
<1> QED BY <1>1, <1>2

\* The window that governs is open and no open window is of a higher plan.
LEMMA BestIsHighest ==
  ASSUME TypeOK, Open # {}
  PROVE  /\ Best(Open) \in Open
         /\ \A c \in Open : Rank(comps[c].plan) <= Rank(comps[Best(Open)].plan)
<1> DEFINE f == [c \in Open |-> Rank(comps[c].plan)]
           B == {c \in Open : \A d \in Open : Rank(comps[d].plan) <= Rank(comps[c].plan)}
<1>1. Open \in SUBSET (DOMAIN comps)
  BY DEF Open, Ahead
<1>2. IsFiniteSet(Open)
  <2>1. comps \in Seq(Comp)
    BY DEF TypeOK
  <2> QED BY <2>1, <1>1, SomeWindows
<1>3. f \in [Open -> Int]
  <2>0. ladder \in Seq(Plans)
    BY DEF TypeOK
  <2>1. \A c \in Open : Rank(comps[c].plan) \in Nat
    BY <2>0, RankPlace
  <2> QED BY <2>1
<1>4. PICK x \in Open : \A y \in Open : f[y] <= f[x]
  <2> HIDE DEF f
  <2> QED BY <1>2, <1>3, LargestExists
<1>5. B # {}
  BY <1>4
<1>6. Best(Open) = Latest(B)
  BY DEF Best
<1>7. Latest(B) \in B
  <2>1. B \in SUBSET (DOMAIN comps)
    BY <1>1
  <2> HIDE DEF B
  <2> QED BY <2>1, <1>5, LatestIsLast DEF TypeOK
<1> QED BY <1>6, <1>7

-------------------------------------------------------------------------------
\* A ladder without its i-th rung: the plans below keep their place, the ones
\* above move down by one.
Without(L, i) == SubSeq(L, 1, i - 1) \o SubSeq(L, i + 1, Len(L))

LEMMA WithoutRung ==
  ASSUME NEW L \in Seq(Plans), NEW i \in DOMAIN L
  PROVE  /\ Without(L, i) \in Seq(Plans)
         /\ DOMAIN Without(L, i) = 1..(Len(L) - 1)
         /\ \A j \in 1..(Len(L) - 1) :
              Without(L, i)[j] = IF j < i THEN L[j] ELSE L[j + 1]
<1> DEFINE A == SubSeq(L, 1, i - 1)
           B == SubSeq(L, i + 1, Len(L))
           n == Len(L)
<1>0. /\ i \in 1..n /\ n \in Nat
      /\ \A k \in 1..n : L[k] \in Plans
  OBVIOUS
<1>1. A \in Seq(Plans) /\ Len(A) = i - 1 /\ \A j \in 1..(i - 1) : A[j] = L[j]
  BY <1>0, SubSeqProperties
<1>2. B \in Seq(Plans) /\ Len(B) = n - i /\ \A j \in 1..(n - i) : B[j] = L[i + j]
  BY <1>0, SubSeqProperties
<1>3. Without(L, i) = A \o B
  BY DEF Without
<1>3a. A \in Seq(Plans) /\ B \in Seq(Plans)
  BY <1>1, <1>2
<1> HIDE DEF A, B, n
<1>4. /\ A \o B \in Seq(Plans) /\ Len(A \o B) = Len(A) + Len(B)
      /\ \A j \in 1..(Len(A) + Len(B)) :
           (A \o B)[j] = IF j <= Len(A) THEN A[j] ELSE B[j - Len(A)]
  BY <1>3a, ConcatProperties, Zenon
<1>5. PICK M : M = A \o B
  OBVIOUS
<1>6. /\ M \in Seq(Plans) /\ Len(M) = n - 1 /\ DOMAIN M = 1..Len(M)
      /\ \A j \in 1..(n - 1) : M[j] = IF j <= i - 1 THEN A[j] ELSE B[j - (i - 1)]
  <2>1. Len(A) + Len(B) = n - 1 /\ Len(A) = i - 1
    BY <1>0, <1>1, <1>2
  <2>2. DOMAIN (A \o B) = 1..Len(A \o B)
    BY <1>4, LenProperties, Zenon
  <2> QED BY <1>4, <1>5, <2>1, <2>2, Zenon
<1>7. ASSUME NEW j \in 1..(n - 1)
      PROVE  M[j] = IF j < i THEN L[j] ELSE L[j + 1]
  <2>1. CASE j < i
    <3>1. j <= i - 1 /\ j \in 1..(i - 1)
      BY <2>1, <1>0
    <3> QED BY <3>1, <2>1, <1>1, <1>6
  <2>2. CASE ~ (j < i)
    <3>1. /\ j - (i - 1) \in 1..(n - i) /\ i + (j - (i - 1)) = j + 1
          /\ ~ (j <= i - 1)
      BY <1>0, <2>2
    <3>2. M[j] = B[j - (i - 1)]
      BY <1>6, <3>1
    <3>3. B[j - (i - 1)] = L[i + (j - (i - 1))]
      BY <3>1, <1>2
    <3> QED BY <3>1, <3>2, <3>3, <2>2
  <2> QED BY <2>1, <2>2
<1>8. M = Without(L, i)
  BY <1>3, <1>5
<1> QED BY <1>6, <1>7, <1>8 DEF n

-------------------------------------------------------------------------------
\* What the row holds.
LEMMA RowTypes ==
  ASSUME TypeOK
  PROVE  /\ sub.plan \in Plans /\ sub.granting \in BOOLEAN /\ sub.stripe \in BOOLEAN
         /\ sub.ends \in Nat /\ day \in Nat /\ Baseline \in Plans
<1>1. sub.plan \in Plans /\ sub.granting \in BOOLEAN /\ sub.stripe \in BOOLEAN
  BY DEF TypeOK
<1>2. sub.ends \in Nat /\ day \in Nat
  <2>1. Days \subseteq Nat
    BY CalendarAssumption DEF Days
  <2>2. sub.ends \in PeriodEnds \cup {0} /\ day \in Days
    BY DEF TypeOK
  <2>3. PeriodEnds \subseteq Nat
    BY <2>1, CalendarAssumption, Zenon
  <2>4. sub.ends \in PeriodEnds \/ sub.ends = 0
    BY <2>2
  <2>5. sub.ends \in Nat
    <3>1. CASE sub.ends \in PeriodEnds
      BY <2>3, <3>1, Zenon
    <3>2. CASE sub.ends = 0
      BY <3>2
    <3> QED BY <2>4, <3>1, <3>2
  <2>6. day \in Nat
    BY <2>1, <2>2
  <2> QED BY <2>5, <2>6
<1>3. Baseline \in Plans
  BY <1>1, CatalogueAssumption DEF Baseline, Entitling
<1> QED BY <1>1, <1>2, <1>3

\* What a window holds.
LEMMA WindowTypes ==
  ASSUME TypeOK, NEW c \in DOMAIN comps
  PROVE  /\ comps[c] \in Comp /\ comps[c].plan \in Plans
         /\ comps[c].starts \in Nat /\ comps[c].ends \in Nat /\ comps[c].credits \in Nat
         /\ comps[c].carry \in BOOLEAN /\ comps[c].revoked \in BOOLEAN
<1>1. DOMAIN comps = 1..Len(comps) /\ \A k \in 1..Len(comps) : comps[k] \in Comp
  BY DEF TypeOK
<1>2. comps[c] \in Comp
  BY <1>1
<1> QED BY <1>2 DEF Comp

\* A window opens at an instant, none of the ones it waits for ending later.
LEMMA OpensAtTypes ==
  ASSUME TypeOK, NEW plan, NEW starts
  PROVE  OpensAt(plan, starts) \in Nat
<1>1. CASE Existing # {} 
  <2>1. Existing \in SUBSET (DOMAIN comps)
    BY DEF Existing, Ahead
  <2>2. Latest(Existing) \in Existing
    <3>1. comps \in Seq(Comp)
      BY DEF TypeOK
    <3> QED BY <3>1, <2>1, <1>1, LatestIsLast
  <2>3. comps[Latest(Existing)].ends \in Nat
    BY <2>1, <2>2, WindowTypes
  <2> QED BY <1>1, <2>3, RowTypes DEF OpensAt
<1>2. CASE Existing = {}
  BY <1>2, RowTypes DEF OpensAt
<1> QED BY <1>1, <1>2

LEMMA BundleCreditsTypes ==
  ASSUME TypeOK, NEW plan \in Plans
  PROVE  BundleCredits(plan) \in Nat
<1> DEFINE before == IF Configured(Baseline) THEN Bundled[Baseline] ELSE 0
<1>1. before \in Nat /\ Bundled[plan] \in Nat
  BY RowTypes, CatalogueAssumption
<1>2. BundleCredits(plan) =
        IF CompBundleIsLive \/ Bundled[plan] <= before THEN 0 ELSE Bundled[plan] - before
  BY DEF BundleCredits
<1> HIDE DEF before
<1> QED BY <1>1, <1>2

-------------------------------------------------------------------------------
\* The catalogue's words for "no plan" are no plan.
LEMMA NotPlans == NoPlan \notin Plans /\ None \notin Plans /\ NoPlan # None
  BY CatalogueAssumption DEF NoPlan, None

LEMMA IdleIsNone ==
  /\ \A d \in Decision : d # Idle
  /\ \A r \in [plan : Plans \cup {None}, month : Nat] : r # Idle
<1>1. ASSUME NEW d \in Decision
      PROVE  d # Idle
  <2>1. d.plan \in Plans /\ Idle.plan = NoPlan
    BY DEF Decision, Idle
  <2> QED BY <2>1, NotPlans
<1>2. ASSUME NEW r \in [plan : Plans \cup {None}, month : Nat]
      PROVE  r # Idle
  <2>1. r.plan \in Plans \cup {None} /\ Idle.plan = NoPlan
    BY DEF Idle
  <2> QED BY <2>1, NotPlans
<1> QED BY <1>1, <1>2

LEMMA InitTyped == Init => Typed
<1> SUFFICES ASSUME Init PROVE Typed
  OBVIOUS
<1>1. day \in Days /\ failures \in 0..MaxFailures
  BY CalendarAssumption DEF Init, Days
<1>2. ladder \in Seq(Plans) /\ claims \subseteq Plans \X Nat
  BY CatalogueAssumption DEF Init
<1>3. sub \in [plan : Plans, granting : BOOLEAN, stripe : BOOLEAN, ends : PeriodEnds \cup {0}]
  BY CatalogueAssumption DEF Init
<1>4. /\ comps \in Seq(Comp) /\ \A c \in DOMAIN comps : comps[c].starts < comps[c].ends
      /\ bundles \in Seq(Bundle)
  BY DEF Init
<1>5. DeskOK /\ SweepOK
  BY DEF Init, DeskOK, SweepOK
<1> QED BY <1>1, <1>2, <1>3, <1>4, <1>5 DEF Typed, TypeOK

\* The clock, the host's configuration and the row.
LEMMA OutsideTyped ==
  ASSUME Typed, Outside PROVE Typed'
<1>0. UNCHANGED <<comps, bundles, claims, desk, sweep, failures>>
  BY DEF Outside, Tick, Retire, MirrorProvider, EditPlan, account
<1>1. DeskOK' /\ SweepOK'
  BY <1>0 DEF Typed, DeskOK, SweepOK
<1>2. /\ comps' \in Seq(Comp) /\ \A c \in DOMAIN comps' : comps'[c].starts < comps'[c].ends
      /\ bundles' \in Seq(Bundle) /\ claims' \subseteq Plans \X Nat
      /\ failures' \in 0..MaxFailures
  BY <1>0 DEF Typed, TypeOK
<1>3. CASE Tick
  <2>1. day' \in Days
    BY <1>3, CalendarAssumption DEF Tick, Typed, TypeOK, Days
  <2>2. ladder' = ladder /\ sub' = sub
    BY <1>3 DEF Tick
  <2> QED BY <1>1, <1>2, <2>1, <2>2 DEF Typed, TypeOK
<1>4. ASSUME NEW i \in DOMAIN ladder, Retire(i)
      PROVE  Typed'
  <2>1. ladder' \in Seq(Plans)
    BY <1>4, WithoutRung DEF Retire, Without, Typed, TypeOK
  <2>2. day' = day /\ sub' = sub
    BY <1>4 DEF Retire
  <2> QED BY <1>1, <1>2, <2>1, <2>2 DEF Typed, TypeOK
<1>5. ASSUME NEW p \in PaidPlans, NEW granting \in BOOLEAN, NEW ends \in PeriodEnds,
             MirrorProvider(p, granting, ends)
      PROVE  Typed'
  <2>1. sub' \in [plan : Plans, granting : BOOLEAN, stripe : BOOLEAN,
                  ends : PeriodEnds \cup {0}]
    BY <1>5, CatalogueAssumption DEF MirrorProvider
  <2>2. day' = day /\ ladder' = ladder
    BY <1>5 DEF MirrorProvider
  <2> QED BY <1>1, <1>2, <2>1, <2>2 DEF Typed, TypeOK
<1>6. ASSUME NEW p \in LocalPlans, NEW granting \in BOOLEAN, EditPlan(p, granting)
      PROVE  Typed'
  <2>1. sub' \in [plan : Plans, granting : BOOLEAN, stripe : BOOLEAN,
                  ends : PeriodEnds \cup {0}]
    BY <1>6, CatalogueAssumption DEF EditPlan, Typed, TypeOK
  <2>2. day' = day /\ ladder' = ladder
    BY <1>6 DEF EditPlan
  <2> QED BY <1>1, <1>2, <2>1, <2>2 DEF Typed, TypeOK
<1> QED BY <1>3, <1>4, <1>5, <1>6 DEF Outside

-------------------------------------------------------------------------------
\* What extend_subscription() decides.
LEMMA DecideTyped ==
  ASSUME Typed, NEW o \in Operators, NEW plan \in Plans, NEW starts \in Openings,
         NEW length \in Lengths \cup {UntilPeriodEnd}, NEW stack \in BOOLEAN,
         NEW bundle \in BOOLEAN, Decide(o, plan, starts, length, stack, bundle)
  PROVE  Typed' /\ desk'[o] \in Decision
<1> DEFINE opens == OpensAt(plan, starts)
           ends == IF length = UntilPeriodEnd THEN sub.ends ELSE opens + length
           carry == ~(starts = "now" \/ (starts = "auto" /\ IsUpgrade(plan)))
           credits == IF bundle THEN BundleCredits(plan) ELSE 0
           d == [plan |-> plan, starts |-> opens, ends |-> ends, stack |-> stack,
                 carry |-> carry, paid |-> sub.ends, first |-> Existing = {},
                 credits |-> credits]
<1>1. opens \in Nat /\ sub.ends \in Nat
  BY OpensAtTypes, RowTypes DEF Typed
<1>2. length \in Nat
  BY CalendarAssumption DEF UntilPeriodEnd
<1>3. ends \in Nat
  BY <1>1, <1>2
<1>4. carry \in BOOLEAN /\ credits \in Nat
  BY BundleCreditsTypes DEF Typed
<1>5. desk' = [desk EXCEPT ![o] = d] /\ d.starts < d.ends
  <2>1. ends > opens /\ desk' = [desk EXCEPT ![o] = d]
    BY DEF Decide
  <2> HIDE DEF opens, ends, carry, credits
  <2> QED BY <2>1, <1>1, <1>3
<1>6. d \in Decision
  <2> HIDE DEF opens, ends, carry, credits
  <2> QED BY <1>1, <1>3, <1>4 DEF Decision
<1> HIDE DEF d
<1>7. desk \in [Operators -> {Idle} \cup Decision]
  BY DEF Typed, DeskOK
<1>8. DeskOK' /\ desk'[o] \in Decision
  <2>1. desk' \in [Operators -> {Idle} \cup Decision] /\ desk'[o] = d
    BY <1>5, <1>6, <1>7
  <2>2. \A x \in Operators : desk'[x] # Idle => desk'[x].starts < desk'[x].ends
    BY <1>5, <1>7 DEF Typed, DeskOK
  <2> QED BY <2>1, <2>2, <1>6 DEF DeskOK
<1>9. TypeOK' /\ SweepOK'
  BY DEF Decide, Typed, TypeOK, SweepOK, account
<1> QED BY <1>8, <1>9 DEF Typed

\* The window written is the decided one, at the end of the row of windows.
Written(d) ==
  [plan |-> d.plan, starts |-> d.starts, ends |-> d.ends, stack |-> d.stack,
   carry |-> d.carry, paid |-> d.paid, first |-> d.first, credits |-> d.credits,
   revoked |-> FALSE, atop |-> Ahead(day)]

LEMMA WriteAppends ==
  ASSUME Typed, NEW o \in Operators, Write(o)
  PROVE  /\ desk[o] \in Decision /\ Written(desk[o]) \in Comp
         /\ desk' = [desk EXCEPT ![o] = Idle]
         /\ \/ desk[o].credits > 0 /\ desk[o].ends <= day /\ comps' = comps
            \/ /\ ~(desk[o].credits > 0 /\ desk[o].ends <= day)
               /\ comps' \in Seq(Comp) /\ DOMAIN comps' = 1..(Len(comps) + 1)
               /\ DOMAIN comps = 1..Len(comps) /\ Len(comps) \in Nat
               /\ \A c \in DOMAIN comps : comps'[c] = comps[c]
               /\ comps'[Len(comps) + 1] = Written(desk[o])
<1> DEFINE n == Len(comps)
<1>1. desk[o] \in Decision
  BY DEF Write, Typed, DeskOK
<1>2. DOMAIN comps = 1..n /\ n \in Nat /\ comps \in Seq(Comp)
  BY DEF Typed, TypeOK
<1>3. Ahead(day) \in SUBSET (1..MaxComps)
  <2>1. Ahead(day) \subseteq DOMAIN comps /\ n < MaxComps
    BY DEF Ahead, Write
  <2> QED BY <2>1, <1>2, CalendarAssumption
<1>4. Written(desk[o]) \in Comp
  BY <1>1, <1>3 DEF Written, Comp, Decision
<1>5. PICK w \in Comp : w = Written(desk[o])
  BY <1>4
<1>6. /\ desk' = [desk EXCEPT ![o] = Idle]
      /\ comps' = IF desk[o].credits > 0 /\ desk[o].ends <= day THEN comps
                  ELSE Append(comps, w)
  BY <1>5 DEF Write, Written
<1>7. CASE desk[o].credits > 0 /\ desk[o].ends <= day
  BY <1>1, <1>4, <1>6, <1>7
<1>8. CASE ~(desk[o].credits > 0 /\ desk[o].ends <= day)
  <2>1. comps' = Append(comps, w)
    BY <1>6, <1>8
  <2>2. /\ comps' \in Seq(Comp) /\ DOMAIN comps' = 1..(n + 1)
        /\ \A c \in 1..n : comps'[c] = comps[c]
        /\ comps'[n + 1] = w
    BY <1>2, <2>1
  <2> QED BY <1>1, <1>2, <1>4, <1>5, <1>6, <1>8, <2>2
<1> QED BY <1>7, <1>8

LEMMA WriteTyped ==
  ASSUME Typed, NEW o \in Operators, Write(o)
  PROVE  Typed'
<1>1. DeskOK'
  BY WriteAppends DEF Typed, DeskOK
<1>2. comps' \in Seq(Comp) /\ \A c \in DOMAIN comps' : comps'[c].starts < comps'[c].ends
  <2>1. comps \in Seq(Comp) /\ \A c \in DOMAIN comps : comps[c].starts < comps[c].ends
    BY DEF Typed, TypeOK
  <2>2. CASE comps' = comps
    BY <2>1, <2>2
  <2>3. CASE comps' # comps
    <3>1. /\ comps' \in Seq(Comp) /\ DOMAIN comps' = 1..(Len(comps) + 1)
          /\ DOMAIN comps = 1..Len(comps) /\ Len(comps) \in Nat
          /\ \A c \in DOMAIN comps : comps'[c] = comps[c]
          /\ comps'[Len(comps) + 1] = Written(desk[o])
      BY <2>3, WriteAppends
    <3>2. Written(desk[o]).starts < Written(desk[o]).ends
      BY DEF Written, Write, Typed, DeskOK
    <3>3. ASSUME NEW c \in DOMAIN comps'
          PROVE  comps'[c].starts < comps'[c].ends
      <4>1. CASE c = Len(comps) + 1
        BY <4>1, <3>1, <3>2
      <4>2. CASE c # Len(comps) + 1
        BY <4>2, <3>1, <2>1
      <4> QED BY <4>1, <4>2
    <3> QED BY <3>1, <3>3
  <2> QED BY <2>2, <2>3
<1>3. UNCHANGED <<day, ladder, sub, bundles, claims, sweep, failures>>
  BY DEF Write
<1> QED BY <1>1, <1>2, <1>3 DEF Typed, TypeOK, SweepOK

LEMMA RevokeTyped ==
  ASSUME Typed, NEW c \in DOMAIN comps, Revoke(c)
  PROVE  /\ Typed' /\ DOMAIN comps' = DOMAIN comps
         /\ \A k \in DOMAIN comps :
              /\ comps'[k].starts = comps[k].starts /\ comps'[k].ends = comps[k].ends
              /\ comps'[k].carry = comps[k].carry /\ comps'[k].credits = comps[k].credits
              /\ comps'[k].atop = comps[k].atop /\ comps'[k].plan = comps[k].plan
              /\ comps'[k].first = comps[k].first /\ comps'[k].paid = comps[k].paid
              /\ comps[k].revoked => comps'[k].revoked
<1>1. comps \in Seq(Comp) /\ \A k \in DOMAIN comps : comps[k] \in Comp
  BY WindowTypes DEF Typed, TypeOK
<1>2. comps' = [comps EXCEPT ![c] = [@ EXCEPT !.revoked = TRUE]]
  BY DEF Revoke
<1>3. [comps[c] EXCEPT !.revoked = TRUE] \in Comp
  <2>1. comps[c] \in Comp
    BY <1>1
  <2> QED BY <2>1 DEF Comp
<1>4. comps' \in Seq(Comp) /\ DOMAIN comps' = DOMAIN comps
  BY <1>1, <1>2, <1>3
<1>5. ASSUME NEW k \in DOMAIN comps
      PROVE  /\ comps'[k].starts = comps[k].starts /\ comps'[k].ends = comps[k].ends
             /\ comps'[k].carry = comps[k].carry /\ comps'[k].credits = comps[k].credits
             /\ comps'[k].atop = comps[k].atop /\ comps'[k].plan = comps[k].plan
             /\ comps'[k].first = comps[k].first /\ comps'[k].paid = comps[k].paid
             /\ comps[k].revoked => comps'[k].revoked
  <2>1. CASE k # c
    BY <2>1, <1>1, <1>2
  <2>2. CASE k = c
    <3>1. comps'[c] = [comps[c] EXCEPT !.revoked = TRUE] /\ comps[c] \in Comp
      BY <1>1, <1>2
    <3> QED BY <3>1, <2>2 DEF Comp
  <2> QED BY <2>1, <2>2
<1>6. \A k \in DOMAIN comps' : comps'[k].starts < comps'[k].ends
  BY <1>4, <1>5 DEF Typed, TypeOK
<1>7. UNCHANGED <<day, ladder, sub, bundles, claims, desk, sweep, failures>>
  BY DEF Revoke
<1>8. Typed'
  BY <1>4, <1>6, <1>7 DEF Typed, TypeOK, DeskOK, SweepOK
<1> QED BY <1>4, <1>5, <1>8

-------------------------------------------------------------------------------
\* What grant_plan_bundles() does.  A bundle is for a plan with credits, for a
\* month not over and not claimed before, or nothing is granted.
GrantStep(s) ==
  \/ bundles' = bundles /\ claims' = claims
  \/ /\ <<sweep[s].plan, sweep[s].month>> \notin claims
     /\ claims' = claims \cup {<<sweep[s].plan, sweep[s].month>>}
     /\ bundles' \in Seq(Bundle) /\ DOMAIN bundles' = 1..(Len(bundles) + 1)
     /\ DOMAIN bundles = 1..Len(bundles) /\ Len(bundles) \in Nat
     /\ \A i \in DOMAIN bundles : bundles'[i] = bundles[i]
     /\ bundles'[Len(bundles) + 1].plan = sweep[s].plan
     /\ bundles'[Len(bundles) + 1].ends = MonthEnd(sweep[s].month)
     /\ sweep[s].plan \in Plans /\ sweep[s].month \in Nat

\* The months of the calendar.
LEMMA Months ==
  /\ MonthLength \in Nat /\ MonthLength > 0
  /\ \A d \in Nat : Month(d) \in Nat
  /\ \A d, e \in Nat : d <= e => Month(d) <= Month(e)
  /\ \A m \in Nat : MonthEnd(m) \in Nat
  /\ \A m \in Nat, d \in Nat : MonthEnd(m) > d => Month(d) <= m
  /\ \A m, k \in Nat : MonthEnd(m) = MonthEnd(k) => m = k
<1>1. MonthLength \in Nat /\ MonthLength > 0
  BY CalendarAssumption
<1>2. PICK L \in Nat : L = MonthLength /\ L > 0
  BY <1>1
<1>3. ASSUME NEW d \in Nat
      PROVE  /\ Month(d) \in Nat /\ L * Month(d) <= d /\ d < L * (Month(d) + 1)
  <2>1. Month(d) = d \div L
    BY <1>2 DEF Month
  <2>2. d \div L \in Nat /\ L * (d \div L) <= d /\ d < L * ((d \div L) + 1)
    BY <1>2
  <2> QED BY <2>1, <2>2
<1>4. \A a, b \in Nat : L * a < L * (b + 1) => a <= b
  <2>1. SUFFICES ASSUME NEW a \in Nat, NEW b \in Nat, a > b
                 PROVE  L * a >= L * (b + 1)
    OBVIOUS
  <2>2. PICK k \in Nat : a = b + 1 + k
    <3>1. a - b - 1 \in Nat /\ a = b + 1 + (a - b - 1)
      BY <2>1
    <3> QED BY <3>1
  <2>3. L * a = L * (b + 1) + L * k /\ L * k \in Nat /\ L * (b + 1) \in Nat
    BY <2>2, <1>2
  <2> QED BY <2>3
<1>5. ASSUME NEW m \in Nat
      PROVE  MonthEnd(m) = L * (m + 1) /\ MonthEnd(m) \in Nat
  BY <1>2 DEF MonthEnd
<1>6. ASSUME NEW d \in Nat, NEW e \in Nat, d <= e
      PROVE  Month(d) <= Month(e)
  <2>1. L * Month(d) \in Nat /\ L * (Month(e) + 1) \in Nat
    BY <1>2, <1>3
  <2>2. L * Month(d) < L * (Month(e) + 1)
    BY <1>3, <1>6, <2>1
  <2> QED BY <2>2, <1>3, <1>4
<1>7. ASSUME NEW m \in Nat, NEW d \in Nat, MonthEnd(m) > d
      PROVE  Month(d) <= m
  <2>1. L * Month(d) \in Nat /\ L * (m + 1) \in Nat
    BY <1>2, <1>3
  <2>2. L * Month(d) < L * (m + 1)
    BY <1>3, <1>5, <1>7, <2>1
  <2> QED BY <2>2, <1>3, <1>4
<1>8. ASSUME NEW m \in Nat, NEW k \in Nat, MonthEnd(m) = MonthEnd(k)
      PROVE  m = k
  <2>1. PICK a \in Nat, c \in Nat : a = L * m /\ c = L * k
    BY <1>2
  <2>2. L * (m + 1) = a + L /\ L * (k + 1) = c + L
    BY <1>2, <2>1
  <2>3. a + L = c + L
    BY <1>5, <1>8, <2>2
  <2>4. a < c + L /\ c < a + L
    BY <1>2, <2>3
  <2>5. L * m < L * (k + 1) /\ L * k < L * (m + 1)
    BY <2>1, <2>2, <2>4
  <2> QED BY <2>5, <1>4
<1> QED BY <1>1, <1>3, <1>5, <1>6, <1>7, <1>8

\* A run in hand is about a plan once the account was read.
LEMMA RunTypes ==
  ASSUME SweepOK, NEW s \in Sweepers, sweep[s] # Idle
  PROVE  /\ sweep[s] \in [plan : Plans \cup {None}, month : Nat]
         /\ sweep[s].plan \in Plans \cup {None} /\ sweep[s].month \in Nat
<1>1. sweep[s] \in [plan : Plans \cup {None}, month : Nat]
  BY DEF SweepOK
<1> QED BY <1>1

LEMMA GrantBundleSteps ==
  ASSUME Typed, NEW s \in Sweepers, GrantBundle(s)
  PROVE  GrantStep(s) /\ Typed'
<1> DEFINE p == sweep[s].plan
           m == sweep[s].month
           b == [plan |-> p, credits |-> Bundled[p], ends |-> MonthEnd(m)]
<1>1. p \in Plans /\ m \in Nat /\ sweep[s] # Idle
  BY RunTypes DEF GrantBundle, Typed
<1>2. IF Bundles(p) /\ MonthEnd(m) > day /\ Claimable(p, m)
        THEN claims' = claims \cup {<<p, m>>} /\ bundles' = Append(bundles, b)
        ELSE bundles' = bundles /\ claims' = claims
  BY DEF GrantBundle
<1>3. bundles \in Seq(Bundle) /\ claims \subseteq Plans \X Nat
  BY DEF Typed, TypeOK
<1>4. SweepOK'
  BY DEF GrantBundle, Typed, SweepOK
<1>5. UNCHANGED <<day, ladder, sub, comps, desk, failures>>
  BY DEF GrantBundle
<1>6. DeskOK'
  BY <1>5 DEF Typed, DeskOK
<1>7. CASE Bundles(p) /\ MonthEnd(m) > day /\ Claimable(p, m)
  <2>1. b \in Bundle
    <3>1. Bundled[p] \in Nat /\ Bundled[p] > 0
      BY <1>1, <1>7, CatalogueAssumption DEF Bundles
    <3>2. MonthEnd(m) \in Nat
      BY <1>1, Months
    <3> QED BY <3>1, <3>2, <1>1 DEF Bundle
  <2>2. PICK w \in Bundle : w = b
    BY <2>1
  <2>3. bundles' = Append(bundles, w) /\ claims' = claims \cup {<<p, m>>}
    BY <1>2, <1>7, <2>2
  <2>4. w.plan = p /\ w.ends = MonthEnd(m)
    BY <2>2
  <2> HIDE DEF b
  <2>5. /\ bundles' \in Seq(Bundle) /\ DOMAIN bundles' = 1..(Len(bundles) + 1)
        /\ DOMAIN bundles = 1..Len(bundles) /\ Len(bundles) \in Nat
        /\ \A i \in DOMAIN bundles : bundles'[i] = bundles[i]
        /\ bundles'[Len(bundles) + 1] = w
    BY <1>3, <2>3
  <2>6. GrantStep(s)
    BY <1>1, <1>7, <2>3, <2>4, <2>5 DEF GrantStep, Claimable
  <2>7. claims' \subseteq Plans \X Nat
    BY <1>1, <1>3, <2>3
  <2> QED BY <1>4, <1>5, <1>6, <2>5, <2>6, <2>7 DEF Typed, TypeOK
<1>8. CASE ~(Bundles(p) /\ MonthEnd(m) > day /\ Claimable(p, m))
  <2>1. bundles' = bundles /\ claims' = claims
    BY <1>2, <1>8
  <2> QED BY <1>4, <1>5, <1>6, <2>1 DEF Typed, TypeOK, GrantStep
<1> QED BY <1>7, <1>8

LEMMA SweepTyped ==
  ASSUME Typed, NEW s \in Sweepers, Sweep(s)
  PROVE  Typed'
<1>1. ASSUME BeginSweep(s) \/ Resolve(s) \/ FailToGrant(s)
      PROVE  Typed'
  <2>1. UNCHANGED <<day, ladder, sub, comps, bundles, claims, desk>>
    BY <1>1 DEF BeginSweep, Resolve, FailToGrant, account
  <2>2. failures' \in 0..MaxFailures
    <3>1. failures \in 0..MaxFailures /\ MaxFailures \in Nat
      BY CalendarAssumption DEF Typed, TypeOK
    <3> QED BY <3>1, <1>1 DEF BeginSweep, Resolve, FailToGrant
  <2>3. SweepOK'
    <3>1. CASE BeginSweep(s)
      <4>1. Month(day) \in Nat
        BY Months, RowTypes DEF Typed
      <4> QED BY <3>1, <4>1 DEF BeginSweep, SweepOK, Typed
    <3>2. CASE Resolve(s)
      <4>1. LocalPlan \in Plans \/ LocalPlan = NoPlan
        BY CatalogueAssumption, RowTypes DEF LocalPlan, Typed
      <4>2. Bundles(LocalPlan) => LocalPlan \in Plans
        BY <4>1 DEF Bundles
      <4>3. sweep[s] \in [plan : Plans \cup {None}, month : Nat]
        BY <3>2, RunTypes DEF Resolve, Typed
      <4>4. Bundles(LocalPlan) =>
              [sweep[s] EXCEPT !.plan = LocalPlan] \in [plan : Plans \cup {None}, month : Nat]
        BY <4>2, <4>3
      <4> QED BY <3>2, <4>4 DEF Resolve, SweepOK, Typed
    <3>3. CASE FailToGrant(s)
      BY <3>3 DEF FailToGrant, SweepOK, Typed
    <3> QED BY <1>1, <3>1, <3>2, <3>3
  <2> QED BY <2>1, <2>2, <2>3 DEF Typed, TypeOK, DeskOK
<1> QED BY <1>1, GrantBundleSteps DEF Sweep

\* Types keep, whichever step is taken.
LEMMA NextTyped == Typed /\ [Next]_vars => Typed'
<1> SUFFICES ASSUME Typed, [Next]_vars PROVE Typed'
  OBVIOUS
<1>1. CASE UNCHANGED vars
  BY <1>1 DEF vars, account, Typed, TypeOK, DeskOK, SweepOK
<1>2. ASSUME NEW o \in Operators, Extend(o)
      PROVE  Typed'
  BY <1>2, WriteTyped, DecideTyped DEF Extend
<1> QED BY <1>1, <1>2, OutsideTyped, RevokeTyped, SweepTyped DEF Next

\* TypeOK: whatever is decided, written, revoked and granted, and whenever, the
\* row, the windows and the bundles stay what the columns can hold; no window is
\* empty and no bundle without credits (extend_subscription, grant_plan_bundle).
THEOREM TypesHold == Spec => []TypeOK
<1>1. Spec => []Typed
  BY InitTyped, NextTyped, PTL DEF Spec
<1>2. Typed => TypeOK
  BY DEF Typed
<1> QED BY <1>1, <1>2, PTL

-------------------------------------------------------------------------------
\* Who touches what.
LEMMA Frames ==
  ASSUME [Next]_vars
  PROVE  /\ staff' = staff
         /\ \/ /\ UNCHANGED <<comps, bundles, claims, desk, sweep>>
               /\ day' = day \/ Tick
               /\ ladder' = ladder \/ \E i \in DOMAIN ladder : Retire(i)
            \/ /\ UNCHANGED <<day, ladder, bundles, claims, sweep>>
               /\ \/ \E o \in Operators \cap staff : Extend(o)
                  \/ \E c \in DOMAIN comps : Revoke(c)
            \/ \E s \in Sweepers :
                 /\ Sweep(s)
                 /\ UNCHANGED <<day, ladder, comps, desk>>
                 /\ UNCHANGED <<bundles, claims>> \/ GrantBundle(s)
<1>1. CASE UNCHANGED vars
  BY <1>1 DEF vars, account
<1>2. CASE Outside
  <2>1. CASE Tick
    BY <2>1 DEF Tick, account
  <2>2. CASE \E i \in DOMAIN ladder : Retire(i)
    BY <2>2 DEF Retire, account
  <2>3. CASE \E p \in PaidPlans, granting \in BOOLEAN, ends \in PeriodEnds :
               MirrorProvider(p, granting, ends)
    BY <2>3 DEF MirrorProvider, account
  <2>4. CASE \E p \in LocalPlans, granting \in BOOLEAN : EditPlan(p, granting)
    BY <2>4 DEF EditPlan, account
  <2> QED BY <1>2, <2>1, <2>2, <2>3, <2>4 DEF Outside
<1>3. ASSUME NEW o \in Operators, Extend(o)
      PROVE  UNCHANGED <<staff, day, ladder, bundles, claims, sweep>>
  <2>1. CASE Write(o)
    BY <2>1 DEF Write
  <2>2. ASSUME NEW plan, NEW starts, NEW length, NEW stack, NEW bundle,
               Decide(o, plan, starts, length, stack, bundle)
        PROVE  UNCHANGED <<staff, day, ladder, bundles, claims, sweep>>
    BY <2>2 DEF Decide, account
  <2> QED BY <1>3, <2>1, <2>2 DEF Extend
<1>4. ASSUME NEW c \in DOMAIN comps, Revoke(c)
      PROVE  UNCHANGED <<staff, day, ladder, bundles, claims, sweep>>
  BY <1>4 DEF Revoke
<1>5. ASSUME NEW s \in Sweepers, Sweep(s)
      PROVE  /\ UNCHANGED <<staff, day, ladder, comps, desk>>
             /\ UNCHANGED <<bundles, claims>> \/ GrantBundle(s)
  BY <1>5 DEF Sweep, BeginSweep, Resolve, GrantBundle, FailToGrant, account
<1>6. \/ Outside
      \/ \E o \in Operators \cap staff : Extend(o)
      \/ \E c \in DOMAIN comps : Revoke(c)
      \/ \E s \in Sweepers : Sweep(s)
      \/ UNCHANGED vars
  BY DEF Next
<1> QED BY <1>1, <1>2, <1>3, <1>4, <1>5, <1>6

-------------------------------------------------------------------------------
(***************************************************************************)
(* What was given is allowed: taking a plan out of the configuration keeps *)
(* the order of the others, so what stands higher allows more.             *)
(***************************************************************************)
Ladder ==
  \A i, j \in DOMAIN ladder : i <= j =>
    \A key \in Keys : Ceiling[ladder[i]][key] <= Ceiling[ladder[j]][key]

LEMMA LadderStep == Typed /\ Ladder /\ [Next]_vars => Ladder'
<1> SUFFICES ASSUME Typed, Ladder, [Next]_vars PROVE Ladder'
  OBVIOUS
<1>1. ASSUME NEW i \in DOMAIN ladder, Retire(i)
      PROVE  Ladder'
  <2>1. ladder' = Without(ladder, i) /\ ladder \in Seq(Plans)
    BY <1>1 DEF Retire, Without, Typed, TypeOK
  <2>2. PICK n \in Nat : n = Len(ladder) /\ DOMAIN ladder = 1..n
    BY <2>1
  <2>3. /\ DOMAIN ladder' = 1..(n - 1)
        /\ \A j \in 1..(n - 1) : ladder'[j] = IF j < i THEN ladder[j] ELSE ladder[j + 1]
    BY <2>1, <2>2, WithoutRung
  <2>4. SUFFICES ASSUME NEW j \in 1..(n - 1), NEW k \in 1..(n - 1), j <= k, NEW key \in Keys
                 PROVE  Ceiling[ladder'[j]][key] <= Ceiling[ladder'[k]][key]
    BY <2>3 DEF Ladder
  <2> DEFINE up(x) == IF x < i THEN x ELSE x + 1
  <2>5. up(j) \in 1..n /\ up(k) \in 1..n /\ up(j) <= up(k)
    BY <2>2, <2>4
  <2>6. ladder'[j] = ladder[up(j)] /\ ladder'[k] = ladder[up(k)]
    BY <2>3
  <2> HIDE DEF up
  <2> QED BY <2>2, <2>5, <2>6 DEF Ladder
<1>2. CASE ladder' = ladder
  BY <1>2 DEF Ladder
<1>3. ladder' = ladder \/ \E i \in DOMAIN ladder : Retire(i)
  BY Frames
<1> QED BY <1>1, <1>2, <1>3

\* The plan that governs stands no lower than what was given.
LEMMA GovernsAbove ==
  ASSUME TypeOK,
         NEW p \in {comps[c].plan : c \in Open} \cup {q \in {sub.plan} : Entitling}
  PROVE  Rank(p) <= Rank(EffectivePlan)
<1> DEFINE comp == comps[Best(Open)].plan
<1>1. \A q : Rank(q) \in Nat
  BY RankPlace DEF TypeOK
<1>2. CASE Open = {}
  <2>1. p = sub.plan /\ Entitling /\ CompPlan = NoPlan
    BY <1>2 DEF CompPlan
  <2> QED BY <2>1, <1>1 DEF EffectivePlan
<1>3. CASE Open # {}
  <2>1. /\ CompPlan = comp /\ Best(Open) \in Open
        /\ \A c \in Open : Rank(comps[c].plan) <= Rank(comp)
    BY <1>3, BestIsHighest DEF CompPlan
  <2>2. CompPlan # NoPlan
    <3>1. Best(Open) \in DOMAIN comps
      BY <2>1 DEF Open, Ahead
    <3> QED BY <3>1, <2>1, WindowTypes, NotPlans
  <2> HIDE DEF comp
  <2>3. Rank(p) <= Rank(comp) \/ (p = sub.plan /\ Entitling)
    BY <2>1
  <2>4. CASE Entitling
    <3>1. EffectivePlan = IF Rank(comp) > Rank(sub.plan) THEN comp ELSE sub.plan
      BY <2>1, <2>2, <2>4 DEF EffectivePlan, Higher
    <3> QED BY <3>1, <2>3, <1>1
  <2>5. CASE ~Entitling
    <3>1. EffectivePlan = comp
      BY <2>1, <2>2, <2>5 DEF EffectivePlan
    <3> QED BY <3>1, <2>3, <2>5, <1>1
  <2> QED BY <2>4, <2>5
<1> QED BY <1>2, <1>3

LEMMA AboveAllowsMore ==
  ASSUME TypeOK, Ladder, NEW p \in Plans, NEW r, Rank(p) <= Rank(r),
         NEW key \in Keys, NEW quantity \in Nat, Allows(p, key, quantity)
  PROVE  Allows(r, key, quantity)
<1>1. Configured(p) /\ quantity <= Ceiling[p][key]
  BY DEF Allows
<1>2. /\ Rank(p) \in DOMAIN ladder /\ ladder[Rank(p)] = p /\ Rank(p) \in Nat
      /\ Rank(p) > 0 /\ Rank(r) \in Nat
  BY <1>1, RankPlace DEF TypeOK
<1>3. Configured(r) /\ Rank(r) \in DOMAIN ladder /\ ladder[Rank(r)] = r
  <2>1. Rank(r) > 0
    BY <1>2
  <2> QED BY <2>1, RankPlace DEF TypeOK
<1>4. r \in Plans
  BY <1>3 DEF TypeOK
<1>5. Ceiling[p][key] <= Ceiling[r][key]
  BY <1>2, <1>3 DEF Ladder
<1>6. Ceiling[p][key] \in Nat /\ Ceiling[r][key] \in Nat
  <2>1. Ceiling[p] \in [Keys -> 0..Unlimited] /\ Ceiling[r] \in [Keys -> 0..Unlimited]
    BY <1>4, CatalogueAssumption
  <2>2. Ceiling[p][key] \in 0..Unlimited /\ Ceiling[r][key] \in 0..Unlimited
    BY <2>1
  <2> QED BY <2>2, CatalogueAssumption
<1> QED BY <1>1, <1>3, <1>5, <1>6 DEF Allows

\* WhatWasGivenIsAllowed: whatever plans overlap and whichever were retired in
\* the meantime, the plan that governs allows what the paid plan and every open
\* window allow, on any ladder whose ceilings do not go down on the way up
\* (effective_plan, governing_comp_period, check_entitlement).
THEOREM GivenIsAllowed == Spec => []WhatWasGivenIsAllowed
<1>1. Init => Ladder
  BY LadderAssumption DEF Init, Ladder
<1>2. Typed /\ Ladder => WhatWasGivenIsAllowed
  <2> SUFFICES ASSUME Typed, Ladder,
                      NEW p \in {comps[c].plan : c \in Open} \cup {q \in {sub.plan} : Entitling},
                      NEW key \in Keys, NEW quantity \in 1..Unlimited,
                      Allows(p, key, quantity)
               PROVE  Allows(EffectivePlan, key, quantity)
    BY DEF WhatWasGivenIsAllowed
  <2>1. TypeOK /\ quantity \in Nat
    BY CatalogueAssumption DEF Typed
  <2>2. p \in Plans
    <3>1. CASE p \in {comps[c].plan : c \in Open}
      BY <3>1, <2>1, WindowTypes DEF Open, Ahead
    <3>2. CASE p = sub.plan
      BY <3>2, <2>1, RowTypes
    <3> QED BY <3>1, <3>2
  <2> QED BY <2>1, <2>2, GovernsAbove, AboveAllowsMore
<1> QED BY <1>1, <1>2, InitTyped, NextTyped, LadderStep, PTL DEF Spec

-------------------------------------------------------------------------------
(***************************************************************************)
(* One bundle of a plan to spend: a bundle ends with the month it was      *)
(* claimed for, that month has begun, and a month is claimed once.         *)
(***************************************************************************)
OfAMonth ==
  \A i \in DOMAIN bundles : \E m \in Nat :
    /\ bundles[i].ends = MonthEnd(m) /\ m <= Month(day)
    /\ <<bundles[i].plan, m>> \in claims

OncePerMonth ==
  \A i, j \in DOMAIN bundles :
    bundles[i].plan = bundles[j].plan /\ bundles[i].ends = bundles[j].ends => i = j

RunsBegan == \A s \in Sweepers : sweep[s] # Idle => sweep[s].month <= Month(day)

MonthsKept == OfAMonth /\ OncePerMonth /\ RunsBegan

LEMMA MonthsStep == Typed /\ MonthsKept /\ [Next]_vars => MonthsKept'
<1> SUFFICES ASSUME Typed, MonthsKept, [Next]_vars PROVE MonthsKept'
  OBVIOUS
<1>0. Typed' /\ day \in Nat /\ day' \in Nat
  <2>1. Typed'
    BY NextTyped
  <2>2. day \in Days /\ day' \in Days
    BY <2>1 DEF Typed, TypeOK
  <2> QED BY <2>1, <2>2, CalendarAssumption DEF Days
<1>1. day <= day'
  BY <1>0, Frames DEF Tick
<1>2. Month(day) \in Nat /\ Month(day') \in Nat /\ Month(day) <= Month(day')
  BY <1>0, <1>1, Months
<1>3. RunsBegan'
  <2>0. SUFFICES ASSUME NEW s \in Sweepers, sweep'[s] # Idle
               PROVE  sweep'[s].month <= Month(day')
    BY DEF RunsBegan, Month
  <2>1. CASE sweep'[s] = sweep[s]
    <3>1. sweep[s].month \in Nat
      BY <2>0, <2>1, RunTypes DEF Typed
    <3> QED BY <2>0, <2>1, <3>1, <1>2 DEF MonthsKept, RunsBegan
  <2>2. ASSUME sweep'[s] # sweep[s]
        PROVE  \/ day' = day /\ sweep'[s].month = Month(day)
               \/ day' = day /\ sweep[s] # Idle /\ sweep'[s].month = sweep[s].month
    <3>0. sweep \in [Sweepers -> {Idle} \cup [plan : Plans \cup {None}, month : Nat]]
      BY DEF Typed, SweepOK
    <3>1. \E t \in Sweepers : Sweep(t)
      BY <2>2, Frames
    <3>2. PICK t \in Sweepers : Sweep(t)
      BY <3>1
    <3>3. day' = day
      BY <3>2 DEF Sweep, BeginSweep, Resolve, GrantBundle, FailToGrant, account
    <3>4. t = s
      BY <3>0, <3>2, <2>2 DEF Sweep, BeginSweep, Resolve, GrantBundle, FailToGrant
    <3>5. CASE BeginSweep(s)
      BY <2>0, <3>0, <3>3, <3>5 DEF BeginSweep
    <3>6. CASE Resolve(s)
      <4>1. /\ sweep[s] # Idle /\ sweep'[s] = [sweep[s] EXCEPT !.plan = LocalPlan]
        BY <3>0, <3>6, <2>0 DEF Resolve
      <4>2. sweep[s] \in [plan : Plans \cup {None}, month : Nat]
        BY <4>1, RunTypes DEF Typed
      <4> QED BY <4>1, <4>2, <3>3
    <3>7. CASE GrantBundle(s) \/ FailToGrant(s)
      BY <2>0, <3>0, <3>7 DEF GrantBundle, FailToGrant
    <3> QED BY <3>2, <3>4, <3>5, <3>6, <3>7 DEF Sweep
  <2> QED BY <2>0, <2>1, <2>2, <1>2 DEF MonthsKept, RunsBegan
<1>4. CASE bundles' = bundles /\ claims' = claims
  <2>1. OncePerMonth'
    BY <1>4 DEF MonthsKept, OncePerMonth
  <2>2. ASSUME NEW i \in DOMAIN bundles
        PROVE  \E m \in Nat : /\ bundles[i].ends = MonthEnd(m) /\ m <= Month(day')
                              /\ <<bundles[i].plan, m>> \in claims
    <3>1. PICK m \in Nat : /\ bundles[i].ends = MonthEnd(m) /\ m <= Month(day)
                           /\ <<bundles[i].plan, m>> \in claims
      BY <2>2 DEF MonthsKept, OfAMonth
    <3>2. m <= Month(day')
      BY <3>1, <1>2
    <3> QED BY <3>1, <3>2
  <2>3. OfAMonth'
    BY <2>2, <1>4 DEF OfAMonth, Month, MonthEnd
  <2> QED BY <1>3, <2>1, <2>3 DEF MonthsKept
<1>5. ASSUME NEW s \in Sweepers, GrantBundle(s), ~(bundles' = bundles /\ claims' = claims)
      PROVE  MonthsKept'
  <2> DEFINE n == Len(bundles)
             p == sweep[s].plan
             m == sweep[s].month
  <2>1. /\ <<p, m>> \notin claims /\ claims' = claims \cup {<<p, m>>}
        /\ DOMAIN bundles' = 1..(n + 1) /\ DOMAIN bundles = 1..n /\ n \in Nat
        /\ \A i \in DOMAIN bundles : bundles'[i] = bundles[i]
        /\ bundles'[n + 1].plan = p /\ bundles'[n + 1].ends = MonthEnd(m)
        /\ p \in Plans /\ m \in Nat
    BY <1>5, GrantBundleSteps DEF GrantStep
  <2>2. m <= Month(day) /\ day' = day
    BY <1>5 DEF GrantBundle, MonthsKept, RunsBegan
  <2> HIDE DEF n, p, m
  <2>3. ASSUME NEW i \in DOMAIN bundles
        PROVE  ~(bundles[i].plan = p /\ bundles[i].ends = MonthEnd(m))
    <3>1. PICK k \in Nat : bundles[i].ends = MonthEnd(k) /\ <<bundles[i].plan, k>> \in claims
      BY <2>3 DEF MonthsKept, OfAMonth
    <3>2. MonthEnd(k) = MonthEnd(m) => k = m
      BY <2>1, Months
    <3> QED BY <3>1, <3>2, <2>1
  <2>4. OncePerMonth'
    <3> SUFFICES ASSUME NEW i \in 1..(n + 1), NEW j \in 1..(n + 1),
                        bundles'[i].plan = bundles'[j].plan,
                        bundles'[i].ends = bundles'[j].ends
                 PROVE  i = j
      BY <2>1 DEF OncePerMonth
    <3>1. CASE i \in 1..n /\ j \in 1..n
      BY <3>1, <2>1 DEF MonthsKept, OncePerMonth
    <3>2. CASE i = n + 1 /\ j \in 1..n
      BY <3>2, <2>1, <2>3
    <3>3. CASE i \in 1..n /\ j = n + 1
      BY <3>3, <2>1, <2>3
    <3>4. CASE i = n + 1 /\ j = n + 1
      BY <3>4
    <3>5. (i \in 1..n \/ i = n + 1) /\ (j \in 1..n \/ j = n + 1)
      BY <2>1
    <3> QED BY <3>1, <3>2, <3>3, <3>4, <3>5
  <2>5. OfAMonth'
    <3> SUFFICES ASSUME NEW i \in 1..(n + 1)
                 PROVE  \E k \in Nat : /\ bundles'[i].ends = MonthEnd(k) /\ k <= Month(day)
                                       /\ <<bundles'[i].plan, k>> \in claims'
      BY <2>1, <2>2 DEF OfAMonth, Month, MonthEnd
    <3>1. CASE i \in 1..n
      BY <3>1, <2>1 DEF MonthsKept, OfAMonth
    <3>2. CASE i = n + 1
      BY <3>2, <2>1, <2>2
    <3> QED BY <3>1, <3>2, <2>1
  <2> QED BY <1>3, <2>4, <2>5 DEF MonthsKept
<1>6. \/ bundles' = bundles /\ claims' = claims
      \/ \E s \in Sweepers : GrantBundle(s)
  BY Frames
<1> QED BY <1>4, <1>5, <1>6

\* OneLiveBundle: whichever runs of the sweep crossed the end of a month, and
\* however many ran at once, two bundles of one plan are never there to be spent
\* together (grant_plan_bundles, _month_bounds, claim_provider_object).
THEOREM OneBundleLives == Spec => []OneLiveBundle
<1>1. Init => MonthsKept
  BY DEF Init, MonthsKept, OfAMonth, OncePerMonth, RunsBegan
<1>2. Typed /\ MonthsKept => OneLiveBundle
  <2> SUFFICES ASSUME Typed, MonthsKept, NEW i \in DOMAIN bundles, NEW j \in DOMAIN bundles,
                      bundles[i].plan = bundles[j].plan,
                      bundles[i].ends > day, bundles[j].ends > day
               PROVE  i = j
    BY DEF OneLiveBundle
  <2>1. PICK m \in Nat : bundles[i].ends = MonthEnd(m) /\ m <= Month(day)
    BY DEF MonthsKept, OfAMonth
  <2>2. PICK k \in Nat : bundles[j].ends = MonthEnd(k) /\ k <= Month(day)
    BY DEF MonthsKept, OfAMonth
  <2>3. day \in Nat /\ Month(day) \in Nat
    BY RowTypes, Months DEF Typed
  <2>4. Month(day) <= m /\ Month(day) <= k
    BY <2>1, <2>2, <2>3, Months
  <2>5. m = k
    BY <2>1, <2>2, <2>3, <2>4
  <2> QED BY <2>1, <2>2, <2>5 DEF MonthsKept, OncePerMonth
<1> QED BY <1>1, <1>2, InitTyped, NextTyped, MonthsStep, PTL DEF Spec

-------------------------------------------------------------------------------
(***************************************************************************)
(* One operator at a time.  What was decided is still right when it is     *)
(* written: nothing was given in between, and time and revocations only    *)
(* take windows away.                                                      *)
(***************************************************************************)
OneAtATime == \A S \in Staffing : \A o, p \in Operators \cap S : o = p

Staffed ==
  /\ staff \in Staffing
  /\ \A o \in Operators : desk[o] # Idle => o \in staff

\* What waits opens no earlier than what there is closes, the paid period if
\* there is nothing else.
Waits ==
  \A o \in Operators : desk[o] # Idle /\ desk[o].carry =>
    /\ \A c \in Ahead(day) : desk[o].starts >= comps[c].ends
    /\ desk[o].first => desk[o].starts >= desk[o].paid

\* Credits are decided on only while no comp bundle is live.
NoneLive ==
  \A o \in Operators : desk[o] # Idle /\ desk[o].credits > 0 =>
    \A c \in DOMAIN comps : ~(comps[c].credits > 0 /\ comps[c].ends > day)

\* A window came on top of windows.
Tops == \A c \in DOMAIN comps : comps[c].atop \subseteq DOMAIN comps

Alone == Staffed /\ Waits /\ NoneLive /\ Tops /\ CarriedDaysAdd /\ OneCompBundle

\* No windows are added and nothing is decided.
LEMMA QuietAlone ==
  ASSUME Typed, Typed', Alone, staff' = staff, desk' = desk, day <= day',
         DOMAIN comps' = DOMAIN comps,
         \A k \in DOMAIN comps :
           /\ comps'[k].starts = comps[k].starts /\ comps'[k].ends = comps[k].ends
           /\ comps'[k].carry = comps[k].carry /\ comps'[k].credits = comps[k].credits
           /\ comps'[k].atop = comps[k].atop
           /\ comps'[k].first = comps[k].first /\ comps'[k].paid = comps[k].paid
           /\ comps[k].revoked => comps'[k].revoked
  PROVE  Alone'
<1>1. /\ day \in Nat /\ day' \in Nat
      /\ \A k \in DOMAIN comps : comps[k].ends \in Nat /\ comps[k].revoked \in BOOLEAN
  <2>1. day \in Days /\ day' \in Days
    BY DEF Typed, TypeOK
  <2> QED BY <2>1, CalendarAssumption, WindowTypes DEF Days, Typed
<1>2. Ahead(day)' \subseteq Ahead(day)
  <2>1. \A k \in DOMAIN comps : comps[k].ends > day' => comps[k].ends > day
    BY <1>1
  <2> QED BY <2>1 DEF Ahead
<1>3. Staffed'
  BY DEF Alone, Staffed
<1>4. Waits'
  <2>1. ASSUME NEW o \in Operators, desk[o] # Idle, desk[o].carry,
               NEW c \in Ahead(day)'
        PROVE  desk[o].starts >= comps'[c].ends
    <3>1. c \in Ahead(day) /\ c \in DOMAIN comps
      BY <2>1, <1>2 DEF Ahead
    <3> QED BY <2>1, <3>1 DEF Alone, Waits
  <2>2. ASSUME NEW o \in Operators, desk[o] # Idle, desk[o].carry, desk[o].first
        PROVE  desk[o].starts >= desk[o].paid
    BY <2>2 DEF Alone, Waits
  <2> QED BY <2>1, <2>2 DEF Waits
<1>5. NoneLive'
  <2> SUFFICES ASSUME NEW o \in Operators, desk[o] # Idle, desk[o].credits > 0,
                      NEW c \in DOMAIN comps, comps[c].credits > 0, comps[c].ends > day'
               PROVE  FALSE
    BY DEF NoneLive
  <2>1. comps[c].ends > day
    BY <1>1
  <2> QED BY <2>1 DEF Alone, NoneLive
<1>6. CarriedDaysAdd'
  <2>1. ASSUME NEW c \in DOMAIN comps, comps[c].carry, NEW d \in comps[c].atop
        PROVE  comps'[c].starts >= comps'[d].ends
    <3>1. d \in DOMAIN comps /\ comps[c].starts >= comps[d].ends
      BY <2>1 DEF Alone, Tops, CarriedDaysAdd
    <3> QED BY <3>1
  <2>2. ASSUME NEW c \in DOMAIN comps, comps[c].carry, comps[c].first
        PROVE  comps'[c].starts >= comps'[c].paid
    <3>1. comps[c].starts >= comps[c].paid
      BY <2>2 DEF Alone, CarriedDaysAdd
    <3> QED BY <3>1
  <2> QED BY <2>1, <2>2 DEF CarriedDaysAdd
<1>7. OneCompBundle'
  <2> SUFFICES ASSUME NEW c \in DOMAIN comps, NEW d \in DOMAIN comps,
                      comps[c].credits > 0, comps[d].credits > 0,
                      comps[c].ends > day', comps[d].ends > day'
               PROVE  c = d
    BY DEF OneCompBundle
  <2>1. comps[c].ends > day /\ comps[d].ends > day
    BY <1>1
  <2> QED BY <2>1 DEF Alone, OneCompBundle
<1>8. Tops'
  BY DEF Alone, Tops
<1> QED BY <1>3, <1>4, <1>5, <1>6, <1>7, <1>8 DEF Alone

\* What is decided fits what there is.
LEMMA DecideAlone ==
  ASSUME Typed, Alone, NEW o \in Operators, o \in staff, NEW plan \in Plans,
         NEW starts \in Openings, NEW length \in Lengths \cup {UntilPeriodEnd},
         NEW stack \in BOOLEAN, NEW bundle \in BOOLEAN,
         Decide(o, plan, starts, length, stack, bundle)
  PROVE  Alone'
<1> DEFINE now == starts = "now" \/ (starts = "auto" /\ IsUpgrade(plan))
<1>1. UNCHANGED <<staff, day, comps>>
  BY DEF Decide, account
<1>2. /\ \A p \in Operators : p # o => desk'[p] = desk[p]
      /\ desk'[o] \in Decision
      /\ desk'[o].starts = OpensAt(plan, starts) /\ desk'[o].carry = ~now
      /\ desk'[o].credits = IF bundle THEN BundleCredits(plan) ELSE 0
      /\ desk'[o].paid = sub.ends /\ desk'[o].first = (Existing = {})
  <2>1. desk \in [Operators -> {Idle} \cup Decision] /\ desk'[o] \in Decision
    BY DecideTyped DEF Typed, DeskOK
  <2> QED BY <2>1 DEF Decide
<1>3. Staffed'
  BY <1>1, <1>2 DEF Alone, Staffed
<1>4. ~now => \A c \in Ahead(day) : OpensAt(plan, starts) >= comps[c].ends
  <2> SUFFICES ASSUME ~now, NEW c \in Ahead(day)
               PROVE  OpensAt(plan, starts) >= comps[c].ends
    OBVIOUS
  <2>1. OpensAt(plan, starts) = comps[Latest(Existing)].ends
    BY DEF OpensAt, Existing
  <2>2. Existing \in SUBSET (DOMAIN comps) /\ c \in Existing
    BY DEF Existing, Ahead
  <2>3. /\ Latest(Existing) \in DOMAIN comps /\ c \in DOMAIN comps
        /\ comps[c].ends <= comps[Latest(Existing)].ends
    <3>1. comps \in Seq(Comp)
      BY DEF Typed, TypeOK
    <3> QED BY <2>2, <3>1, LatestIsLast
  <2> QED BY <2>1, <2>3, WindowTypes DEF Typed
<1>4a. ~now /\ Existing = {} => OpensAt(plan, starts) >= sub.ends
  <2>1. ~now /\ Existing = {} =>
          OpensAt(plan, starts) = IF sub.ends > day THEN sub.ends ELSE day
    BY DEF OpensAt
  <2>2. day \in Nat /\ sub.ends \in Nat
    BY RowTypes DEF Typed
  <2> QED BY <2>1, <2>2
<1>5. Waits'
  <2> SUFFICES ASSUME NEW p \in Operators, desk'[p] # Idle, desk'[p].carry
               PROVE  /\ \A c \in Ahead(day) : desk'[p].starts >= comps[c].ends
                      /\ desk'[p].first => desk'[p].starts >= desk'[p].paid
    BY <1>1 DEF Waits, Ahead
  <2>1. CASE p = o
    BY <2>1, <1>2, <1>4, <1>4a
  <2>2. CASE p # o
    BY <2>2, <1>2 DEF Alone, Waits
  <2> QED BY <2>1, <2>2
<1>6. NoneLive'
  <2> SUFFICES ASSUME NEW p \in Operators, desk'[p] # Idle, desk'[p].credits > 0
               PROVE  \A c \in DOMAIN comps : ~(comps[c].credits > 0 /\ comps[c].ends > day)
    BY <1>1 DEF NoneLive
  <2>1. CASE p = o
    <3>1. ~CompBundleIsLive
      BY <2>1, <1>2 DEF BundleCredits
    <3> QED BY <3>1 DEF CompBundleIsLive
  <2>2. CASE p # o
    BY <2>2, <1>2 DEF Alone, NoneLive
  <2> QED BY <2>1, <2>2
<1>7. Tops' /\ CarriedDaysAdd' /\ OneCompBundle'
  BY <1>1 DEF Alone, Tops, CarriedDaysAdd, OneCompBundle
<1> QED BY <1>3, <1>5, <1>6, <1>7 DEF Alone

\* What is written fits what there is: nobody else has decided anything.
LEMMA WriteAlone ==
  ASSUME Typed, Typed', Alone, OneAtATime, NEW o \in Operators, o \in staff, Write(o)
  PROVE  Alone'
<1> DEFINE n == Len(comps)
           d == desk[o]
<1>1. UNCHANGED <<staff, day>> /\ d # Idle
  BY DEF Write
<1>2. \A p \in Operators : desk'[p] = Idle
  <2>1. \A p \in Operators : desk[p] # Idle => p = o
    BY DEF Alone, Staffed, OneAtATime
  <2>2. desk' = [desk EXCEPT ![o] = Idle] /\ desk \in [Operators -> {Idle} \cup Decision]
    BY WriteAppends DEF Typed, DeskOK
  <2> QED BY <2>1, <2>2
<1>3. Staffed' /\ Waits' /\ NoneLive'
  BY <1>1, <1>2 DEF Alone, Staffed, Waits, NoneLive
<1>4. CASE comps' = comps
  BY <1>1, <1>3, <1>4 DEF Alone, Tops, CarriedDaysAdd, OneCompBundle
<1>5. CASE comps' # comps
  <2>1. PICK w : w = Written(d)
    OBVIOUS
  <2>2. /\ w.starts = d.starts /\ w.ends = d.ends /\ w.carry = d.carry
        /\ w.credits = d.credits /\ w.atop = Ahead(day)
        /\ w.first = d.first /\ w.paid = d.paid
    BY <2>1 DEF Written
  <2>3. /\ DOMAIN comps' = 1..(n + 1) /\ DOMAIN comps = 1..n /\ n \in Nat
        /\ \A c \in 1..n : comps'[c] = comps[c]
        /\ comps'[n + 1] = w
    BY <1>5, <2>1, WriteAppends
  <2>4. Ahead(day) \subseteq 1..n
    BY <2>3 DEF Ahead
  <2> HIDE DEF n, d
  <2>5. \A c \in 1..(n + 1) : c \in 1..n \/ c = n + 1
    BY <2>3
  <2>6. 1..n \subseteq 1..(n + 1)
    BY <2>3
  <2>7. Tops'
    <3> SUFFICES ASSUME NEW c \in 1..(n + 1)
                 PROVE  comps'[c].atop \subseteq 1..(n + 1)
      BY <2>3 DEF Tops
    <3>1. CASE c \in 1..n
      BY <3>1, <2>3, <2>6 DEF Alone, Tops
    <3>2. CASE c = n + 1
      BY <3>2, <2>2, <2>3, <2>4, <2>6
    <3> QED BY <3>1, <3>2, <2>5
  <2>8. CarriedDaysAdd'
    <3>1. ASSUME NEW c \in 1..n, comps'[c].carry
          PROVE  /\ \A e \in comps'[c].atop : comps'[c].starts >= comps'[e].ends
                 /\ comps'[c].first => comps'[c].starts >= comps'[c].paid
      <4>1. comps[c].carry /\ comps[c].atop \subseteq 1..n
        BY <3>1, <2>3 DEF Alone, Tops
      <4>2. /\ \A e \in comps[c].atop : comps[c].starts >= comps[e].ends
            /\ comps[c].first => comps[c].starts >= comps[c].paid
        BY <4>1, <2>3 DEF Alone, CarriedDaysAdd
      <4> QED BY <4>1, <4>2, <2>3
    <3>2. ASSUME w.carry
          PROVE  /\ \A e \in w.atop : w.starts >= comps'[e].ends
                 /\ w.first => w.starts >= w.paid
      <4>1. d.carry
        BY <3>2, <2>2
      <4>2. /\ \A e \in Ahead(day) : d.starts >= comps[e].ends
            /\ d.first => d.starts >= d.paid
        BY <4>1, <1>1 DEF Alone, Waits, d
      <4> QED BY <4>2, <2>2, <2>3, <2>4
    <3>3. ASSUME NEW c \in 1..(n + 1), comps'[c].carry
          PROVE  /\ \A e \in comps'[c].atop : comps'[c].starts >= comps'[e].ends
                 /\ comps'[c].first => comps'[c].starts >= comps'[c].paid
      <4>1. CASE c \in 1..n
        BY <4>1, <3>3, <3>1
      <4>2. CASE c = n + 1
        BY <4>2, <3>3, <3>2, <2>3
      <4> QED BY <4>1, <4>2, <2>5
    <3> QED BY <3>3, <2>3 DEF CarriedDaysAdd
  <2>9. OneCompBundle'
    <3>0. d.credits > 0 =>
            \A c \in 1..n : ~(comps[c].credits > 0 /\ comps[c].ends > day)
      BY <1>1, <2>3 DEF Alone, NoneLive, d
    <3> SUFFICES ASSUME NEW c \in 1..(n + 1), NEW e \in 1..(n + 1),
                        comps'[c].credits > 0, comps'[e].credits > 0,
                        comps'[c].ends > day, comps'[e].ends > day
                 PROVE  c = e
      BY <2>3, <1>1 DEF OneCompBundle
    <3>1. CASE c \in 1..n /\ e \in 1..n
      BY <3>1, <2>3 DEF Alone, OneCompBundle
    <3>2. CASE c = n + 1 /\ e \in 1..n
      BY <3>0, <3>2, <2>2, <2>3
    <3>3. CASE c \in 1..n /\ e = n + 1
      BY <3>0, <3>3, <2>2, <2>3
    <3>4. CASE c = n + 1 /\ e = n + 1
      BY <3>4
    <3> QED BY <3>1, <3>2, <3>3, <3>4, <2>5
  <2> QED BY <1>3, <2>7, <2>8, <2>9 DEF Alone
<1> QED BY <1>4, <1>5

LEMMA AloneStep == OneAtATime /\ Typed /\ Alone /\ [Next]_vars => Alone'
<1> SUFFICES ASSUME OneAtATime, Typed, Alone, [Next]_vars PROVE Alone'
  OBVIOUS
<1>1. Typed' /\ staff' = staff
  BY NextTyped, Frames
<1>2. ASSUME NEW o \in Operators, o \in staff, Extend(o)
      PROVE  Alone'
  BY <1>1, <1>2, DecideAlone, WriteAlone DEF Extend
<1>3. ASSUME NEW c \in DOMAIN comps, Revoke(c)
      PROVE  Alone'
  <2>1. UNCHANGED <<staff, day, desk>> /\ day <= day'
    <3>1. UNCHANGED <<staff, day, desk>>
      BY <1>3 DEF Revoke
    <3> QED BY <3>1, RowTypes DEF Typed
  <2> QED BY <1>1, <1>3, <2>1, RevokeTyped, QuietAlone
<1>4. CASE comps' = comps /\ desk' = desk /\ (day' = day \/ Tick)
  <2>1. day <= day'
    BY <1>4, RowTypes DEF Tick, Typed
  <2> QED BY <1>1, <1>4, <2>1, QuietAlone
<1> QED BY <1>2, <1>3, <1>4, Frames

LEMMA AloneHolds == OneAtATime => (Spec => [](Typed /\ Alone))
<1>1. Init => Alone
  BY DEF Init, Alone, Staffed, Waits, NoneLive, Tops, CarriedDaysAdd, OneCompBundle
<1> SUFFICES ASSUME OneAtATime PROVE Spec => [](Typed /\ Alone)
  OBVIOUS
<1>2. Typed /\ Alone /\ [Next]_vars => (Typed /\ Alone)'
  BY AloneStep, NextTyped
<1> QED BY <1>1, <1>2, InitTyped, PTL DEF Spec

\* CarriedDaysAdd: with one operator at a time, whatever is revoked, however
\* late a window is written and whatever the provider reports, a carry opens
\* after all the windows it came on top of close and, where it found none to
\* wait for, not before the paid period it read.  It says nothing of the paid
\* period of a carry that did find one (extend_subscription, latest_comp_period).
THEOREM DaysAdd == OneAtATime => (Spec => []CarriedDaysAdd)
<1>1. Alone => CarriedDaysAdd
  BY DEF Alone
<1>2. OneAtATime => (Spec => [](Typed /\ Alone))
  BY AloneHolds
<1> QED BY <1>1, <1>2, PTL

\* OneCompBundle: with one operator at a time, two comp bundles are never there
\* to be spent together (_comp_bundle_is_live, _grant_comp_bundle).
THEOREM OneCompBundleLives == OneAtATime => (Spec => []OneCompBundle)
<1>1. Alone => OneCompBundle
  BY DEF Alone
<1>2. OneAtATime => (Spec => [](Typed /\ Alone))
  BY AloneHolds
<1> QED BY <1>1, <1>2, PTL

===============================================================================
