-------------------------- MODULE CreditWalletProofs --------------------------
(***************************************************************************)
(* Safety of the wallet for every wallet size, clock, deadline, number of  *)
(* keys and of refunds.                                                    *)
(*                                                                         *)
(* First types, the balance cache, the life of a lot, the deadline of a    *)
(* grant, one row per key, a captured hold.  That argument goes in two     *)
(* stages.  Every action is a Step: a relation between the state before    *)
(* and after that says what a service may do to each variable (one lemma   *)
(* per action).  Every one of these theorems follows from the Steps alone. *)
(*                                                                         *)
(* Then the books: they balance, credits neither appear nor vanish, and a  *)
(* reservation is backed by what it names until it is charged for it.      *)
(* Then money given back: clawbacks stay within their grant, a debt is     *)
(* owed, collected or closed by a won dispute, a top-up pays what is owed  *)
(* before it leaves anything to spend.                                     *)
(*                                                                         *)
(* Last the account: every step of the wallet is one of CreditAccount.     *)
(***************************************************************************)
EXTENDS CreditWalletRefinement, CreditLotsLemmas, TLAPS

\* A grant never loses its lots and a clawback names a grant: a won dispute
\* finds the lot whose deadline its credits come back with.
GrantsHaveLots ==
  /\ \A g \in 1..Len(ledger) :
        ledger[g].type = "grant" => \E i \in 1..Len(lots) : lots[i].grant = g
  /\ \A r \in 1..Len(ledger) :
        ledger[r].type \in {"refund", "dispute"} =>
          ledger[r].of \in 1..Len(ledger) /\ ledger[ledger[r].of].type = "grant"

IInv == TypeOK /\ GrantsHaveLots

-------------------------------------------------------------------------------
ClockStep ==
  clock' \in 0..MaxClock /\ asOf' \in 0..clock' /\ sweep' \subseteq HoldKeys

\* Lots go down and descend from lots, or from the one lot of a new grant.
LotsStep ==
  /\ lots' \in Seq(Lot)
  /\ \/ Descends(lots, lots')
     \/ \E l \in Lot : /\ l.grant = NextRow /\ Len(ledger') = NextRow
                       /\ Descends(Append(lots, l), lots')

\* The cache is computed again, or nothing it depends on moved.
BalanceStep ==
  \/ balance' = LiveBalance(lots', asOf')
  \/ UNCHANGED <<lots, balance, asOf>>

DebtsStep ==
  /\ debts' \in Seq(Debt)
  /\ \A d \in 1..Len(debts') : debts'[d].row \in 1..Len(ledger')

\* What a service may write: its key is unused, its grant has a lot, its
\* clawback names a grant.
Fresh(row) ==
  /\ row.type = "grant" => \E i \in 1..Len(lots') : lots'[i].grant = NextRow
  /\ row.type \in {"refund", "dispute"} =>
       row.of \in 1..Len(ledger) /\ ledger[row.of].type = "grant"
  /\ Unused(row.key)

LedgerStep ==
  /\ ledger' \in Seq(Row)
  /\ Len(ledger') \in {Len(ledger), NextRow}
  /\ \A r \in 1..Len(ledger) : /\ ledger'[r].type = ledger[r].type
                               /\ ledger'[r].key = ledger[r].key
                               /\ ledger'[r].of = ledger[r].of
  /\ Len(ledger') = NextRow => Fresh(ledger'[NextRow])

HoldsStep ==
  /\ DOMAIN holds' = HoldKeys
  /\ \A h \in HoldKeys : HoldRecord(holds'[h])
  /\ \A h \in HoldKeys : holds[h].status = "captured" => holds'[h] = holds[h]

Step ==
  ClockStep /\ LotsStep /\ BalanceStep /\ DebtsStep /\ LedgerStep /\ HoldsStep

-------------------------------------------------------------------------------
\* Facts about the records and sequences of a state that has its types.
LEMMA Types ==
  /\ Lot = LotWith(0..Never) /\ (0..Never) \in SUBSET Int
  /\ Debt = DebtRecords
  /\ MaxClock \in Nat /\ Never \in Nat
  /\ Deadlines \subseteq 0..Never /\ Amounts \subseteq Nat \ {0}
  /\ Waivers \subseteq BOOLEAN /\ Reasons \subseteq {"refund", "dispute"}
<1>1. MaxClock \in Nat /\ Never \in Nat
  BY BoundsAssumption DEF Never
<1>2. (0..Never) \in SUBSET Int
  BY <1>1
<1> QED
  BY <1>1, <1>2, DeadlinesAssumption, AmountsAssumption, PolicyAssumption, Zenon
     DEF Lot, LotWith, Debt, DebtRecords

\* Indexes of the sequences of a state.
LEMMA Indexes ==
  ASSUME TypeOK
  PROVE  /\ Len(lots) \in Nat /\ DOMAIN lots = 1..Len(lots)
         /\ Len(debts) \in Nat /\ DOMAIN debts = 1..Len(debts)
         /\ Len(ledger) \in Nat /\ DOMAIN ledger = 1..Len(ledger)
         /\ NextRow \in Nat /\ NextRow = Len(ledger) + 1
         /\ clock \in 0..MaxClock /\ clock \in Nat
BY BoundsAssumption DEF TypeOK, NextRow

\* A reading of the clock is a time that has passed.
LEMMA ReadingsPast ==
  ASSUME TypeOK
  PROVE  \A now \in Readings : now \in 0..clock /\ now \in Nat
BY Indexes DEF Readings

\* The lots of a state after the expiry sweep that opens every service.
LEMMA Swept ==
  ASSUME TypeOK, NEW now
  PROVE  /\ ExpireDueLots(lots, now) \in Seq(LotWith(0..Never))
         /\ Len(ExpireDueLots(lots, now)) = Len(lots)
         /\ DOMAIN ExpireDueLots(lots, now) = DOMAIN lots
         /\ Descends(lots, ExpireDueLots(lots, now))
         /\ LiveBalance(ExpireDueLots(lots, now), now) \in Nat
<1>1. lots \in Seq(LotWith(0..Never))
  BY Types, Zenon DEF TypeOK
<1>2. DOMAIN ExpireDueLots(lots, now) = DOMAIN lots
  BY DEF ExpireDueLots
<1> QED BY <1>1, <1>2, ExpireDescends, LiveBalanceNat, Zenon

-------------------------------------------------------------------------------
(* What the pieces the actions are made of do to a single variable.        *)

\* A call that leaves the lots alone takes a LotsStep ...
LEMMA NoLots ==
  ASSUME TypeOK, UNCHANGED lots
  PROVE  LotsStep
<1>1. lots \in Seq(LotWith(0..Never)) /\ Seq(Lot) = Seq(LotWith(0..Never))
  BY Types, Zenon DEF TypeOK
<1>2. Descends(lots, lots)
  BY <1>1, DescendsReflexive, Zenon
<1> QED BY <1>1, <1>2, Zenon DEF LotsStep

\* ... one that leaves the debts alone a DebtsStep ...
LEMMA NoDebts ==
  ASSUME TypeOK, UNCHANGED debts, LedgerStep
  PROVE  DebtsStep
<1>1. debts \in Seq(Debt) /\ \A d \in 1..Len(debts) : debts[d].row \in 1..Len(ledger)
  BY Indexes, Zenon DEF TypeOK
<1>2. 1..Len(ledger) \subseteq 1..Len(ledger')
  BY Indexes DEF LedgerStep
<1> QED BY <1>1, <1>2, Zenon DEF DebtsStep

\* ... one that leaves the holds alone a HoldsStep ...
LEMMA NoHolds ==
  ASSUME TypeOK, UNCHANGED holds
  PROVE  HoldsStep
BY Zenon DEF TypeOK, HoldsStep

\* ... and one that writes no row a LedgerStep.
LEMMA NoRow ==
  ASSUME TypeOK, UNCHANGED ledger
  PROVE  LedgerStep
<1>1. Len(ledger) # NextRow
  <2>1. Len(ledger) \in Nat /\ NextRow = Len(ledger) + 1
    BY Indexes, Zenon
  <2> HIDE DEF NextRow
  <2> QED BY <2>1
<1>2. ledger' = ledger
  OBVIOUS
<1> QED BY <1>1, <1>2, Zenon DEF LedgerStep, TypeOK

\* A row is posted at the end of the ledger.
LEMMA PostStep ==
  ASSUME TypeOK, NEW row \in Row, ledger' = Append(ledger, row), Fresh(row)
  PROVE  /\ LedgerStep /\ Len(ledger') = NextRow
<1>1. ledger \in Seq(Row)
  BY Zenon DEF TypeOK
<1>2. /\ ledger' \in Seq(Row) /\ Len(ledger') = NextRow
      /\ ledger'[NextRow] = row
      /\ \A r \in 1..Len(ledger) : ledger'[r] = ledger[r]
  BY <1>1, AppendProperties DEF NextRow
<1> QED BY <1>2, Zenon DEF LedgerStep

-------------------------------------------------------------------------------
(* One lemma per action: it is a Step.                                     *)

\* Time passing is a Step: it moves only the clock.
LEMMA TickStep ==
  ASSUME IInv, Tick
  PROVE  Step
<1> USE DEF IInv
<1>1. clock' \in 0..MaxClock /\ asOf' \in 0..clock' /\ sweep' \subseteq HoldKeys
  BY Types, Indexes DEF Tick, TypeOK
<1>2. UNCHANGED <<lots, balance, asOf, holds, debts, ledger>>
  BY Zenon DEF Tick
<1>3. LotsStep /\ HoldsStep /\ LedgerStep /\ BalanceStep
  BY <1>2, NoLots, NoHolds, NoRow, Zenon DEF BalanceStep
<1>4. DebtsStep
  BY <1>2, <1>3, NoDebts, Zenon
<1> QED BY <1>1, <1>3, <1>4, Zenon DEF Step, ClockStep

\* What Step asks of the clock and the cache, of an action that computes it.
LEMMA SyncStep ==
  ASSUME TypeOK, NEW now \in 0..clock, SyncBalance(now),
         UNCHANGED clock, sweep' \subseteq HoldKeys
  PROVE  ClockStep /\ BalanceStep
<1>1. clock' \in 0..MaxClock /\ asOf' = now /\ now \in 0..clock'
  BY Zenon DEF TypeOK, SyncBalance
<1>2. balance' = LiveBalance(lots', asOf')
  BY <1>1, Zenon DEF SyncBalance
<1> QED BY <1>1, <1>2, Zenon DEF ClockStep, BalanceStep

\* The expiry worker is a Step: lots past their deadline are zeroed, the cache follows.
LEMMA ExpireCreditLotsStep ==
  ASSUME IInv, ExpireCreditLots
  PROVE  Step
<1> USE DEF IInv
<1>1. /\ lots' = ExpireDueLots(lots, clock) /\ SyncBalance(clock)
      /\ UNCHANGED <<clock, holds, debts, ledger, sweep>>
  BY Zenon DEF ExpireCreditLots
<1>2. clock \in 0..clock /\ sweep' \subseteq HoldKeys
  BY <1>1, Indexes DEF TypeOK
<1>3. ClockStep /\ BalanceStep
  BY <1>1, <1>2, SyncStep, Zenon
<1>4. LotsStep
  BY <1>1, Swept, Types, Zenon DEF LotsStep
<1>5. HoldsStep /\ LedgerStep
  BY <1>1, NoHolds, NoRow, Zenon
<1>6. DebtsStep
  BY <1>1, <1>5, NoDebts, Zenon
<1> QED BY <1>3, <1>4, <1>5, <1>6, Zenon DEF Step

\* Listing the stale holds is a Step: only the list changes.
LEMMA ListStaleHoldsStep ==
  ASSUME IInv, ListStaleHolds
  PROVE  Step
<1> USE DEF IInv
<1>1. /\ sweep' \subseteq HoldKeys
      /\ UNCHANGED <<clock, lots, balance, asOf, holds, debts, ledger>>
  BY Zenon DEF ListStaleHolds
<1>2. ClockStep
  BY <1>1, Zenon DEF ClockStep, TypeOK
<1>3. LotsStep /\ HoldsStep /\ LedgerStep /\ BalanceStep
  BY <1>1, NoLots, NoHolds, NoRow, Zenon DEF BalanceStep
<1>4. DebtsStep
  BY <1>1, <1>3, NoDebts, Zenon
<1> QED BY <1>2, <1>3, <1>4, Zenon DEF Step

\* The debts of a state, and those a service leaves when a row is posted.
LEMMA DebtsTyped ==
  ASSUME TypeOK
  PROVE  /\ debts \in Seq(DebtRecords)
         /\ \A d \in 1..Len(debts) : debts[d].row \in 1..Len(ledger)
BY Types, Indexes, Zenon DEF TypeOK

\* Debts that are collected or cancelled keep the rows that opened them.
LEMMA KeptDebts ==
  ASSUME TypeOK, LedgerStep, debts' \in Seq(DebtRecords),
         Len(debts') = Len(debts),
         \A d \in 1..Len(debts) : debts'[d].row = debts[d].row
  PROVE  DebtsStep
<1>1. 1..Len(ledger) \subseteq 1..Len(ledger')
  BY Indexes DEF LedgerStep
<1>2. \A d \in 1..Len(debts') : debts'[d].row \in 1..Len(ledger)
  BY DebtsTyped, Zenon
<1> QED BY <1>1, <1>2, Types, Zenon DEF DebtsStep

\* A debt is opened on the row that the same call posts.
LEMMA OpenedDebt ==
  ASSUME TypeOK, LedgerStep, Len(ledger') = NextRow,
         NEW credits \in Nat, debts' = OpenDebt(debts, credits, NextRow)
  PROVE  DebtsStep
<1> DEFINE new == [out |-> credits, init |-> credits, billed |-> 0, row |-> NextRow]
<1>1. new \in DebtRecords
  <2>1. 0 \in Nat /\ NextRow \in Nat
    BY Indexes
  <2> QED BY <2>1, Zenon DEF DebtRecords
<1>2. new.row = NextRow
  BY Zenon
<1>3. debts \in Seq(DebtRecords) /\ debts' = Append(debts, new)
  BY DebtsTyped, Zenon DEF OpenDebt
<1> HIDE DEF new
<1>4. /\ debts' \in Seq(DebtRecords) /\ Len(debts') = Len(debts) + 1
      /\ debts'[Len(debts) + 1] = new
      /\ \A d \in 1..Len(debts) : debts'[d] = debts[d]
  BY <1>1, <1>3, AppendProperties
<1>5. \A d \in 1..Len(debts') : d \in 1..Len(debts) \/ d = Len(debts) + 1
  BY <1>4, Indexes
<1>6. 1..Len(ledger) \subseteq 1..Len(ledger') /\ NextRow \in 1..Len(ledger')
  <2>1. NextRow = Len(ledger) + 1 /\ Len(ledger) \in Nat
    BY Indexes, Zenon
  <2> HIDE DEF NextRow
  <2> QED BY <2>1
<1>7. \A d \in 1..Len(debts') : debts'[d].row \in 1..Len(ledger')
  BY <1>2, <1>4, <1>5, <1>6, DebtsTyped, Zenon
<1> QED BY <1>4, <1>7, Types, Zenon DEF DebtsStep

\* credit() is a Step, whether it settles the debts or not.
LEMMA CreditStep ==
  ASSUME IInv, NEW key \in Keys \cup {NoKey}, NEW c \in Amounts,
         NEW exp \in Deadlines, NEW settle \in BOOLEAN,
         Credit(key, c, exp, settle)
  PROVE  Step
<1> DEFINE E == 0..Never
           l == [rem |-> c, exp |-> exp, grant |-> NextRow, expired |-> 0]
           granted(now) == Append(ExpireDueLots(lots, now), l)
<1>1. TypeOK
  BY DEF IInv
<1>2. PICK now \in Readings :
        /\ Unused(key)
        /\ Post([Entry("grant", c) EXCEPT !.key = key])
        /\ lots' = IF settle THEN LotsAfterSettling(granted(now), debts, now)
                             ELSE granted(now)
        /\ debts' = IF settle THEN SettleDebts(granted(now), debts, now) ELSE debts
        /\ SyncBalance(now)
        /\ UNCHANGED <<clock, holds, sweep>>
  BY Zenon DEF Credit
<1>3. now \in 0..clock /\ sweep' \subseteq HoldKeys
  BY <1>1, <1>2, ReadingsPast, Zenon DEF TypeOK
<1>4. ClockStep /\ BalanceStep
  BY <1>1, <1>2, <1>3, SyncStep, Zenon
<1>5. HoldsStep
  BY <1>1, <1>2, NoHolds, Zenon
<1>6. l \in LotWith(E) /\ l.grant = NextRow
  <2>1. c \in Nat /\ exp \in E /\ NextRow \in Nat /\ 0 \in Nat
    BY <1>1, Types, Indexes
  <2> HIDE DEF E
  <2> QED BY <2>1, Zenon DEF LotWith
<1> HIDE DEF l
<1>7. /\ granted(now) \in Seq(LotWith(E))
      /\ Append(lots, l) \in Seq(LotWith(E))
      /\ Len(Append(lots, l)) = Len(lots) + 1 /\ Append(lots, l)[Len(lots) + 1] = l
      /\ Descends(Append(lots, l), granted(now))
  <2> DEFINE swept == ExpireDueLots(lots, now)
  <2>1. lots \in Seq(LotWith(E))
    BY <1>1, Types, Zenon DEF TypeOK
  <2>2. swept \in Seq(LotWith(E)) /\ Len(lots) = Len(swept) /\ Descends(lots, swept)
    BY <1>1, Swept, ZenonT(60)
  <2>3. granted(now) = Append(swept, l)
    OBVIOUS
  <2> HIDE DEF swept, granted, E
  <2>4. Append(lots, l) \in Seq(LotWith(E)) /\ Append(swept, l) \in Seq(LotWith(E))
    BY <1>6, <2>1, <2>2, AppendBothDescends, ZenonT(60)
  <2>5. Len(Append(lots, l)) = Len(lots) + 1 /\ Append(lots, l)[Len(lots) + 1] = l
    BY <1>6, <2>1, <2>2, AppendBothDescends, ZenonT(60)
  <2>6. Descends(Append(lots, l), Append(swept, l))
    BY <1>6, <2>1, <2>2, AppendBothDescends, ZenonT(60)
  <2> QED BY <2>3, <2>4, <2>5, <2>6, Zenon
<1> HIDE DEF granted
<1>8. lots' \in Seq(LotWith(E)) /\ Descends(Append(lots, l), lots')
  <2>1. CASE settle
    <3>1. /\ lots' \in Seq(LotWith(E)) /\ Descends(granted(now), lots')
      BY <1>1, <1>2, <1>7, <2>1, DebtsTyped, SettlingDescends, Zenon
    <3> QED BY <1>7, <3>1, DescendsTransitive, Zenon
  <2>2. CASE ~settle
    BY <1>2, <1>7, <2>2, Zenon
  <2> QED BY <2>1, <2>2, Zenon
<1>9. \E i \in 1..Len(lots') : lots'[i].grant = NextRow
  <2>1. Len(Append(lots, l)) \in Nat /\ Len(lots') \in Nat /\ Len(lots) \in Nat
    BY <1>1, <1>7, <1>8, Indexes
  <2>2. Len(lots) + 1 \in 1..Len(Append(lots, l))
    BY <1>7, <2>1
  <2>3. Len(lots) + 1 \in 1..Len(lots')
    <3>1. Len(lots) + 1 <= Len(lots')
      BY <1>7, <1>8, Zenon DEF Descends
    <3> QED BY <2>1, <3>1
  <2>4. lots'[Len(lots) + 1].grant = l.grant
    BY <1>7, <1>8, <2>2, Zenon DEF Descends
  <2> QED BY <1>6, <2>3, <2>4, Zenon
<1>10. LedgerStep /\ Len(ledger') = NextRow
  <2> DEFINE row == [Entry("grant", c) EXCEPT !.key = key]
  <2>1. "grant" \in RowType /\ c \in Int /\ 0 \in Nat
    BY Types DEF RowType
  <2>2. row \in Row /\ row.type = "grant" /\ row.key = key
    <3>1. Entry("grant", c) \in Row
      BY <2>1, Zenon DEF Entry, Row
    <3> QED BY <3>1, Zenon DEF Row, Entry
  <2>3. ledger' = Append(ledger, row)
    BY <1>2, Zenon DEF Post
  <2> HIDE DEF row
  <2>4. Fresh(row)
    BY <1>2, <1>9, <2>2 DEF Fresh
  <2> QED BY <1>1, <2>2, <2>3, <2>4, PostStep, Zenon
<1>11. LotsStep
  BY <1>6, <1>8, <1>10, Types, Zenon DEF LotsStep
<1>12. DebtsStep
  <2>1. CASE settle
    <3>1. debts' = SettleDebts(granted(now), debts, now)
      BY <1>2, <2>1, Zenon
    <3>2. /\ debts' \in Seq(DebtRecords) /\ Len(debts') = Len(debts)
          /\ \A d \in 1..Len(debts) : debts'[d].row = debts[d].row
      <4> DEFINE new == SettleDebts(granted(now), debts, now)
      <4>1. debts \in Seq(DebtRecords)
        BY <1>1, DebtsTyped
      <4>2. /\ new \in Seq(DebtRecords) /\ Len(new) = Len(debts)
            /\ \A d \in 1..Len(debts) : new[d].row = debts[d].row
        BY <1>7, <4>1, SettlingDebts
      <4> QED BY <3>1, <4>2, Zenon
    <3> QED BY <1>1, <1>10, <3>2, KeptDebts, Zenon
  <2>2. CASE ~settle
    BY <1>1, <1>2, <1>10, <2>2, NoDebts, Zenon
  <2> QED BY <2>1, <2>2, Zenon
<1> QED BY <1>4, <1>5, <1>10, <1>11, <1>12, Zenon DEF Step

\* What Step asks of the lots, of a service that descends from them.
LEMMA DescentStep ==
  ASSUME lots' \in Seq(LotWith(0..Never)), Descends(lots, lots')
  PROVE  LotsStep
BY Types, Zenon DEF LotsStep

\* The lots after the sweep and a spend of what is there.
LEMMA SpendStep ==
  ASSUME TypeOK, NEW now, NEW n \in Nat,
         lots' = ConsumeLots(ExpireDueLots(lots, now), n, now)
  PROVE  LotsStep
<1> DEFINE E == 0..Never
           ls == ExpireDueLots(lots, now)
           new == ConsumeLots(ls, n, now)
<1>1. lots \in Seq(LotWith(E)) /\ ls \in Seq(LotWith(E)) /\ Descends(lots, ls)
  BY Types, Swept, Zenon DEF TypeOK
<1> HIDE DEF E, ls
<1>2. new \in Seq(LotWith(E)) /\ Descends(ls, new)
  BY <1>1, ConsumeDescends, Zenon
<1> HIDE DEF new
<1>3. Descends(lots, new)
  BY <1>1, <1>2, DescendsTransitive, Zenon
<1>4. lots' = new
  BY DEF new, ls
<1> QED BY <1>2, <1>3, <1>4, DescentStep, Zenon DEF E

\* debit() is a Step, whole or partial.
LEMMA DebitStep ==
  ASSUME IInv, NEW key \in Keys \cup {NoKey}, NEW c \in Amounts,
         NEW partial \in BOOLEAN, Debit(key, c, partial)
  PROVE  Step
<1> DEFINE there(now) == LiveBalance(ExpireDueLots(lots, now), now)
           charged(now) == IF partial THEN Clip(c, there(now)) ELSE c
           row(now) == [Entry("charge", -charged(now)) EXCEPT !.key = key,
                                                             !.requested = c]
<1>1. TypeOK
  BY DEF IInv
<1>2. PICK now \in Readings :
        /\ Unused(key)
        /\ Post(row(now))
        /\ lots' = ConsumeLots(ExpireDueLots(lots, now), charged(now), now)
        /\ debts' = IF charged(now) < c THEN OpenDebt(debts, c - charged(now), NextRow)
                                        ELSE debts
        /\ SyncBalance(now)
        /\ UNCHANGED <<clock, holds, sweep>>
  BY Zenon DEF Debit
<1>3. now \in 0..clock /\ sweep' \subseteq HoldKeys
  BY <1>1, <1>2, ReadingsPast, Zenon DEF TypeOK
<1>4. ClockStep /\ BalanceStep
  BY <1>1, <1>2, <1>3, SyncStep, Zenon
<1>5. HoldsStep
  BY <1>1, <1>2, NoHolds, Zenon
<1>6. charged(now) \in Nat /\ charged(now) <= c /\ c \in Nat
  <2>1. c \in Nat /\ there(now) \in Nat
    BY <1>1, Types, Swept
  <2> HIDE DEF there
  <2>2. Clip(c, there(now)) \in 0..there(now) /\ Clip(c, there(now)) <= c
    BY <2>1, ClipBounds
  <2> QED BY <2>1, <2>2
<1> HIDE DEF charged
<1>7. LotsStep
  BY <1>1, <1>2, <1>6, SpendStep, Zenon
<1>8. LedgerStep /\ Len(ledger') = NextRow
  <2>1. "charge" \in RowType /\ -charged(now) \in Int /\ 0 \in Nat
    BY <1>6 DEF RowType
  <2>2. row(now) \in Row /\ row(now).type = "charge" /\ row(now).key = key
    <3>1. Entry("charge", -charged(now)) \in Row
      BY <2>1, Zenon DEF Entry, Row
    <3> QED BY <1>6, <3>1, Zenon DEF Row, Entry
  <2> HIDE DEF row
  <2>3. ledger' = Append(ledger, row(now))
    BY <1>2, Zenon DEF Post
  <2>4. Fresh(row(now))
    BY <1>2, <2>2 DEF Fresh
  <2> QED BY <1>1, <2>2, <2>3, <2>4, PostStep, Zenon
<1>9. DebtsStep
  <2>1. CASE charged(now) < c
    <3>1. c - charged(now) \in Nat
      BY <1>6, <2>1
    <3>2. debts' = OpenDebt(debts, c - charged(now), NextRow)
      BY <1>2, <2>1, Zenon
    <3> QED BY <1>1, <1>8, <3>1, <3>2, OpenedDebt, Zenon
  <2>2. CASE ~(charged(now) < c)
    BY <1>1, <1>2, <1>8, <2>2, NoDebts, Zenon
  <2> QED BY <2>1, <2>2, Zenon
<1> QED BY <1>4, <1>5, <1>7, <1>8, <1>9, Zenon DEF Step

\* _meter_only_debit() is a Step: the cache moves only if a lot was expired.
LEMMA MeterOnlyDebitStep ==
  ASSUME IInv, NEW key \in Keys \cup {NoKey}, MeterOnlyDebit(key)
  PROVE  Step
<1> DEFINE row == [Entry("charge", 0) EXCEPT !.key = key]
<1>1. TypeOK
  BY DEF IInv
<1>2. PICK now \in Readings :
        /\ Unused(key) /\ Post(row)
        /\ lots' = ExpireDueLots(lots, now)
        /\ IF Due(lots, now) # {} THEN SyncBalance(now) ELSE UNCHANGED <<balance, asOf>>
        /\ UNCHANGED <<clock, holds, debts, sweep>>
  BY Zenon DEF MeterOnlyDebit
<1>3. now \in 0..clock /\ sweep' \subseteq HoldKeys
  BY <1>1, <1>2, ReadingsPast, Zenon DEF TypeOK
<1>4. ClockStep /\ BalanceStep
  <2>1. CASE Due(lots, now) # {}
    BY <1>1, <1>2, <1>3, <2>1, SyncStep, Zenon
  <2>2. CASE Due(lots, now) = {}
    <3>1. ExpireDueLots(lots, now) = lots
      <4>1. ExpireDueLots(lots, now) = [i \in DOMAIN lots |-> lots[i]]
        BY <2>2 DEF ExpireDueLots
      <4>2. lots \in Seq(Lot)
        BY <1>1, Zenon DEF TypeOK
      <4> QED BY <4>1, <4>2
    <3>2. UNCHANGED <<lots, balance, asOf, clock, sweep>>
      BY <1>2, <2>2, <3>1, Zenon
    <3> QED BY <1>1, <3>2, Zenon DEF ClockStep, BalanceStep, TypeOK
  <2> QED BY <2>1, <2>2, Zenon
<1>5. HoldsStep
  BY <1>1, <1>2, NoHolds, Zenon
<1>6. LotsStep
  BY <1>1, <1>2, Swept, DescentStep, Zenon
<1>7. LedgerStep
  <2>1. "charge" \in RowType /\ 0 \in Int /\ 0 \in Nat
    BY DEF RowType
  <2>2. row \in Row /\ row.type = "charge" /\ row.key = key
    <3>1. Entry("charge", 0) \in Row
      BY <2>1, Zenon DEF Entry, Row
    <3> QED BY <3>1, Zenon DEF Row, Entry
  <2> HIDE DEF row
  <2>3. ledger' = Append(ledger, row)
    BY <1>2, Zenon DEF Post
  <2>4. Fresh(row)
    BY <1>2, <2>2 DEF Fresh
  <2> QED BY <1>1, <2>2, <2>3, <2>4, PostStep, Zenon
<1>8. DebtsStep
  BY <1>1, <1>2, <1>7, NoDebts, Zenon
<1> QED BY <1>4, <1>5, <1>6, <1>7, <1>8, Zenon DEF Step

-------------------------------------------------------------------------------
\* A reservation of this wallet's lots.
AllocTyped(alloc) ==
  /\ DOMAIN alloc \subseteq DOMAIN lots
  /\ \A i \in DOMAIN alloc : alloc[i] \in Nat \ {0}

\* What the type says of one hold.
LEMMA AllocTypes ==
  ASSUME TypeOK, NEW h \in HoldKeys
  PROVE  /\ HoldRecord(holds[h]) /\ AllocTyped(holds[h].alloc)
         /\ Allocates(lots, holds[h].alloc)
         /\ holds[h].credits \in Nat
<1>1. HoldRecord(holds[h])
  BY Zenon DEF TypeOK
<1>2. AllocTyped(holds[h].alloc) /\ holds[h].credits \in Nat
  BY <1>1, Zenon DEF HoldRecord, AllocTyped
<1>3. \A n \in Nat \ {0} : n \in Nat
  OBVIOUS
<1> QED BY <1>1, <1>2, <1>3, Zenon DEF AllocTyped, Allocates

\* The walks' results as reservations.
LEMMA PositiveTyped ==
  ASSUME TypeOK, NEW take, Allocates(lots, take)
  PROVE  AllocTyped(Positive(take))
<1>1. /\ Allocates(lots, Positive(take))
      /\ \A i \in DOMAIN Positive(take) : Positive(take)[i] \in Nat \ {0}
  BY PositiveAllocates, Zenon
<1> QED BY <1>1, Zenon DEF Allocates, AllocTyped

\* What a walk of the live lots gives is a well-formed set of allocations.
LEMMA ConsumptionAllocates ==
  ASSUME TypeOK, NEW now, NEW n \in Nat
  PROVE  Allocates(lots, Consumption(ExpireDueLots(lots, now), n, now))
<1> DEFINE ls == ExpireDueLots(lots, now)
           take == Consumption(ls, n, now)
<1>1. ls \in Seq(LotWith(0..Never)) /\ DOMAIN ls = DOMAIN lots
  BY Swept, Zenon
<1> HIDE DEF ls
<1>2. take \in [Live(ls, now) -> Nat] /\ Live(ls, now) \subseteq DOMAIN ls
  BY <1>1, ConsumeShrinks, Zenon
<1> HIDE DEF take
<1>3. DOMAIN take \subseteq DOMAIN lots /\ \A i \in DOMAIN take : take[i] \in Nat
  BY <1>1, <1>2
<1> QED BY <1>3, Zenon DEF Allocates, take, ls

\* A key that is not captured gets another record.
LEMMA HoldReplaced ==
  ASSUME TypeOK, NEW h \in HoldKeys, holds[h].status # "captured",
         NEW new, HoldRecord(new), holds' = [holds EXCEPT ![h] = new]
  PROVE  HoldsStep
<1>1. DOMAIN holds = HoldKeys
  BY Zenon DEF TypeOK
<1>2. /\ DOMAIN holds' = HoldKeys /\ holds'[h] = new
      /\ \A k \in HoldKeys : k # h => holds'[k] = holds[k]
  BY <1>1, Zenon
<1>3. \A k \in HoldKeys : HoldRecord(holds'[k])
  BY <1>2, AllocTypes, Zenon
<1> QED BY <1>2, <1>3, Zenon DEF HoldsStep

\* An open hold is resolved.
LEMMA HoldResolved ==
  ASSUME TypeOK, NEW h \in HoldKeys, Open(h), NEW st \in HoldStatus,
         NEW alloc, AllocTyped(alloc),
         holds' = [holds EXCEPT ![h].status = st, ![h].alloc = alloc]
  PROVE  HoldsStep
<1> DEFINE hd == holds[h]
           new == [[hd EXCEPT !.status = st] EXCEPT !.alloc = alloc]
<1>1. HoldRecord(hd) /\ h \in DOMAIN holds
  BY AllocTypes, Zenon DEF TypeOK
<1>2. HoldRecord(new)
  <2>1. /\ DOMAIN hd = {"status", "credits", "alloc", "exp", "waived"}
        /\ hd.credits \in Nat /\ hd.exp \in 0..Never /\ hd.waived \in BOOLEAN
    BY <1>1, Zenon DEF HoldRecord
  <2> HIDE DEF hd
  <2>2. /\ DOMAIN new = DOMAIN hd /\ new.status = st /\ new.alloc = alloc
        /\ new.credits = hd.credits /\ new.exp = hd.exp /\ new.waived = hd.waived
    BY <2>1, Zenon
  <2> HIDE DEF new
  <2> QED BY <2>1, <2>2, Zenon DEF HoldRecord, AllocTyped
<1>3. holds' = [holds EXCEPT ![h] = new]
  BY <1>1, Zenon
<1>4. holds[h].status # "captured"
  BY Zenon DEF Open
<1> QED BY <1>2, <1>3, <1>4, HoldReplaced, Zenon

\* The charge of a hold: one row, and the hold is captured.
LEMMA ChargeStep ==
  ASSUME TypeOK, NEW h \in HoldKeys, Open(h), NEW actual \in Nat,
         NEW alloc, AllocTyped(alloc), ChargeHold(h, actual, alloc)
  PROVE  HoldsStep /\ LedgerStep
<1>1. HoldsStep
  <2>1. "captured" \in HoldStatus
    BY DEF HoldStatus
  <2> QED BY <2>1, HoldResolved, Zenon DEF ChargeHold
<1>2. LedgerStep
  <2> DEFINE row == [Entry("capture", -actual) EXCEPT !.hold = h]
  <2>1. "capture" \in RowType /\ -actual \in Int /\ 0 \in Nat
    BY DEF RowType
  <2>2. row \in Row /\ row.type = "capture" /\ row.key = NoKey
    <3>1. Entry("capture", -actual) \in Row
      BY <2>1, Zenon DEF Entry, Row
    <3> QED BY <3>1, Zenon DEF Row, Entry
  <2>3. ledger' = Append(ledger, row)
    BY Zenon DEF Post, ChargeHold
  <2> HIDE DEF row
  <2>4. Fresh(row)
    BY <2>2 DEF Fresh, Unused
  <2> QED BY <2>2, <2>3, <2>4, PostStep, Zenon
<1> QED BY <1>1, <1>2

\* The lots once something of them was handed back.
LEMMA HandBackStep ==
  ASSUME TypeOK, NEW now, NEW back, Allocates(lots, back),
         lots' = HandBack(ExpireDueLots(lots, now), back, now)
  PROVE  LotsStep
<1> DEFINE E == 0..Never
           ls == ExpireDueLots(lots, now)
           new == ExpireDueLots(ls \o HoldReleaseLots(ls, back), now)
<1>1. /\ lots \in Seq(LotWith(E)) /\ ls \in Seq(LotWith(E))
      /\ Descends(lots, ls) /\ DOMAIN ls = DOMAIN lots /\ E \in SUBSET Int
  BY Types, Swept, Zenon DEF TypeOK
<1>2. lots' = new
  BY Zenon DEF HandBack
<1> HIDE DEF E, ls
<1>3. Allocates(ls, back)
  BY <1>1, Zenon DEF Allocates
<1>4. new \in Seq(LotWith(E)) /\ Descends(ls, new)
  BY <1>1, <1>3, HandingBackDescends
<1> HIDE DEF new
<1>5. Descends(lots, new)
  BY <1>1, <1>4, DescendsTransitive, Zenon
<1> QED BY <1>2, <1>4, <1>5, DescentStep, Zenon DEF E

\* hold() is a Step: the reservation it arms is well formed and no captured hold is re-armed.
LEMMA HoldStep ==
  ASSUME IInv, NEW h \in HoldKeys, NEW c \in Amounts, NEW exp \in Deadlines,
         NEW waived \in Waivers, Hold(h, c, exp, waived)
  PROVE  Step
<1> DEFINE credits == IF waived THEN 0 ELSE c
           ls(now) == ExpireDueLots(lots, now)
           alloc(now) == Positive(Consumption(ls(now), credits, now))
           new(now) == [status |-> "held", credits |-> credits, exp |-> exp,
                        alloc |-> alloc(now), waived |-> waived]
<1>1. TypeOK
  BY DEF IInv
<1>2. PICK now \in Readings :
        /\ Reservable(h)
        /\ lots' = ConsumeLots(ls(now), credits, now)
        /\ holds' = [holds EXCEPT ![h] = new(now)]
        /\ SyncBalance(now)
        /\ UNCHANGED <<clock, debts, ledger, sweep>>
  BY Zenon DEF Hold
<1>3. now \in 0..clock /\ sweep' \subseteq HoldKeys
  BY <1>1, <1>2, ReadingsPast, Zenon DEF TypeOK
<1>4. ClockStep /\ BalanceStep
  BY <1>1, <1>2, <1>3, SyncStep, Zenon
<1>5. credits \in Nat /\ exp \in 0..Never /\ waived \in BOOLEAN
  BY Types
<1> HIDE DEF credits
<1>6. LotsStep
  BY <1>1, <1>2, <1>5, SpendStep, Zenon
<1>7. AllocTyped(alloc(now))
  BY <1>1, <1>5, ConsumptionAllocates, PositiveTyped, Zenon
<1> HIDE DEF alloc
<1>8. HoldsStep
  <2>1. HoldRecord(new(now))
    <3>1. "held" \in HoldStatus
      BY DEF HoldStatus
    <3> QED BY <1>5, <1>7, <3>1, Zenon DEF HoldRecord, AllocTyped
  <2>2. holds[h].status # "captured"
    BY <1>2 DEF Reservable
  <2> HIDE DEF new
  <2> QED BY <1>1, <1>2, <2>1, <2>2, HoldReplaced, Zenon
<1>9. LedgerStep
  BY <1>1, <1>2, NoRow, Zenon
<1>10. DebtsStep
  BY <1>1, <1>2, <1>9, NoDebts, Zenon
<1> QED BY <1>4, <1>6, <1>8, <1>9, <1>10, Zenon DEF Step

\* capture() for the reserved amount or less is a Step.
LEMMA CaptureWithinStep ==
  ASSUME IInv, NEW h \in HoldKeys, NEW actual \in Amounts \cup {0},
         CaptureWithin(h, actual)
  PROVE  Step
<1> DEFINE ls(now) == ExpireDueLots(lots, now)
           alloc == holds[h].alloc
           back(now) == Refund(ls(now), alloc, holds[h].credits - actual)
<1>1. TypeOK
  BY DEF IInv
<1>2. PICK now \in Readings :
        /\ Open(h)
        /\ lots' = HandBack(ls(now), back(now), now)
        /\ ChargeHold(h, actual, LessBack(alloc, back(now)))
        /\ SyncBalance(now)
        /\ UNCHANGED <<clock, debts, sweep>>
  BY Zenon DEF CaptureWithin
<1>3. now \in 0..clock /\ sweep' \subseteq HoldKeys
  BY <1>1, <1>2, ReadingsPast, Zenon DEF TypeOK
<1>4. ClockStep /\ BalanceStep
  BY <1>1, <1>2, <1>3, SyncStep, Zenon
<1>5. actual \in Nat /\ AllocTyped(alloc) /\ Allocates(lots, alloc)
      /\ holds[h].credits - actual \in Int
  <2>1. actual \in Nat
    BY Types
  <2>2. AllocTyped(alloc) /\ Allocates(lots, alloc) /\ holds[h].credits \in Nat
    BY <1>1, AllocTypes, Zenon
  <2> HIDE DEF alloc
  <2> QED BY <2>1, <2>2
<1> HIDE DEF alloc
<1>6. /\ back(now) \in [DOMAIN alloc -> Nat]
      /\ \A i \in DOMAIN alloc : back(now)[i] <= alloc[i]
  <2>1. lots \in Seq(Lot)
    BY <1>1, Zenon DEF TypeOK
  <2> QED BY <1>5, <2>1, RefundBounds, Zenon DEF Refund
<1> HIDE DEF back
<1>7. Allocates(lots, back(now))
  <2>1. DOMAIN back(now) = DOMAIN alloc /\ \A i \in DOMAIN alloc : back(now)[i] \in Nat
    BY <1>6
  <2> QED BY <1>5, <2>1, Zenon DEF Allocates
<1>8. LotsStep
  BY <1>1, <1>2, <1>7, HandBackStep, Zenon
<1>9. AllocTyped(LessBack(alloc, back(now)))
  <2> DEFINE left == [i \in DOMAIN alloc |-> alloc[i] - back(now)[i]]
  <2>1. \A i \in DOMAIN alloc : left[i] \in Nat
    <3>1. ASSUME NEW i \in DOMAIN alloc PROVE alloc[i] - back(now)[i] \in Nat
      <4>1. alloc[i] \in Nat /\ back(now)[i] \in Nat /\ back(now)[i] <= alloc[i]
        BY <1>5, <1>6 DEF Allocates
      <4> QED BY <4>1
    <3> QED BY <3>1
  <2>2. DOMAIN left = DOMAIN alloc
    OBVIOUS
  <2>3. LessBack(alloc, back(now)) = Positive(left)
    BY Zenon DEF LessBack
  <2> HIDE DEF left
  <2>4. Allocates(lots, left)
    BY <1>5, <2>1, <2>2, Zenon DEF Allocates
  <2> QED BY <1>1, <2>3, <2>4, PositiveTyped, Zenon
<1>10. HoldsStep /\ LedgerStep
  BY <1>1, <1>2, <1>5, <1>9, ChargeStep, Zenon
<1>11. DebtsStep
  BY <1>1, <1>2, <1>10, NoDebts, Zenon
<1> QED BY <1>4, <1>8, <1>10, <1>11, Zenon DEF Step

\* capture() for more than was reserved is a Step.
LEMMA CaptureBeyondStep ==
  ASSUME IInv, NEW h \in HoldKeys, NEW actual \in Amounts \cup {0},
         CaptureBeyond(h, actual)
  PROVE  Step
<1> DEFINE ls(now) == ExpireDueLots(lots, now)
           alloc == holds[h].alloc
           more == actual - holds[h].credits
           take(now) == Consumption(ls(now), more, now)
<1>1. TypeOK
  BY DEF IInv
<1>2. PICK now \in Readings :
        /\ Open(h) /\ more > 0
        /\ lots' = ConsumeLots(ls(now), more, now)
        /\ ChargeHold(h, actual, PlusExtra(alloc, take(now)))
        /\ SyncBalance(now)
        /\ UNCHANGED <<clock, debts, sweep>>
  BY Zenon DEF CaptureBeyond
<1>3. now \in 0..clock /\ sweep' \subseteq HoldKeys
  BY <1>1, <1>2, ReadingsPast, Zenon DEF TypeOK
<1>4. ClockStep /\ BalanceStep
  BY <1>1, <1>2, <1>3, SyncStep, Zenon
<1>5. actual \in Nat /\ more \in Nat /\ Allocates(lots, alloc)
  <2>1. actual \in Nat
    BY Types
  <2>2. Allocates(lots, alloc) /\ holds[h].credits \in Nat
    BY <1>1, AllocTypes, Zenon
  <2> HIDE DEF alloc
  <2> QED BY <1>2, <2>1, <2>2
<1> HIDE DEF alloc, more
<1>6. Allocates(lots, take(now))
  BY <1>1, <1>5, ConsumptionAllocates, Zenon
<1>7. LotsStep
  BY <1>1, <1>2, <1>5, SpendStep, Zenon
<1> HIDE DEF take
<1>8. AllocTyped(PlusExtra(alloc, take(now)))
  <2> DEFINE t == take(now)
             D == DOMAIN alloc \cup DOMAIN t
             v(i) == (IF i \in DOMAIN alloc THEN alloc[i] ELSE 0)
                     + (IF i \in DOMAIN t THEN t[i] ELSE 0)
             both == [i \in D |-> v(i)]
  <2>1. \A i \in D : v(i) \in Nat
    BY <1>5, <1>6 DEF Allocates
  <2>2. D \subseteq DOMAIN lots
    BY <1>5, <1>6, Zenon DEF Allocates
  <2>3. PlusExtra(alloc, t) = Positive(both)
    BY Zenon DEF PlusExtra
  <2> HIDE DEF v, D
  <2>4. DOMAIN both = D /\ \A i \in D : both[i] = v(i)
    OBVIOUS
  <2> HIDE DEF both
  <2>5. Allocates(lots, both)
    BY <2>1, <2>2, <2>4, Zenon DEF Allocates
  <2> QED BY <1>1, <2>3, <2>5, PositiveTyped, Zenon
<1>9. HoldsStep /\ LedgerStep
  BY <1>1, <1>2, <1>5, <1>8, ChargeStep, Zenon
<1>10. DebtsStep
  BY <1>1, <1>2, <1>9, NoDebts, Zenon
<1> QED BY <1>4, <1>7, <1>9, <1>10, Zenon DEF Step

\* _meter_only_capture() is a Step.
LEMMA MeterOnlyCaptureStep ==
  ASSUME IInv, NEW h \in HoldKeys, MeterOnlyCapture(h)
  PROVE  Step
<1>1. TypeOK
  BY DEF IInv
<1>2. PICK now \in Readings :
        /\ Open(h)
        /\ ChargeHold(h, 0, holds[h].alloc)
        /\ UNCHANGED lots
        /\ SyncBalance(now)
        /\ UNCHANGED <<clock, debts, sweep>>
  BY Zenon DEF MeterOnlyCapture
<1>3. now \in 0..clock /\ sweep' \subseteq HoldKeys
  BY <1>1, <1>2, ReadingsPast, Zenon DEF TypeOK
<1>4. ClockStep /\ BalanceStep
  BY <1>1, <1>2, <1>3, SyncStep, Zenon
<1>5. 0 \in Nat
  OBVIOUS
<1>6. HoldsStep /\ LedgerStep
  BY <1>1, <1>2, <1>5, AllocTypes, ChargeStep, Zenon
<1>7. LotsStep
  BY <1>1, <1>2, NoLots, Zenon
<1>8. DebtsStep
  BY <1>1, <1>2, <1>6, NoDebts, Zenon
<1> QED BY <1>4, <1>6, <1>7, <1>8, Zenon DEF Step

\* release() and the sweep that calls it.
LEMMA GiveBackStep ==
  ASSUME IInv, NEW h \in HoldKeys, Open(h), NEW st \in {"released", "expired"},
         GiveBack(h, st), sweep' \subseteq HoldKeys
  PROVE  Step
<1>1. TypeOK
  BY DEF IInv
<1>2. PICK now \in Readings :
        /\ lots' = HandBack(ExpireDueLots(lots, now), holds[h].alloc, now)
        /\ holds' = [holds EXCEPT ![h].status = st, ![h].alloc = NoAlloc]
        /\ SyncBalance(now)
        /\ UNCHANGED <<clock, debts, ledger>>
  BY Zenon DEF GiveBack
<1>3. now \in 0..clock
  BY <1>1, <1>2, ReadingsPast, Zenon
<1>4. ClockStep /\ BalanceStep
  BY <1>1, <1>2, <1>3, SyncStep, Zenon
<1>5. LotsStep
  BY <1>1, <1>2, AllocTypes, HandBackStep, Zenon
<1>6. HoldsStep
  <2>1. st \in HoldStatus
    BY DEF HoldStatus
  <2>2. AllocTyped(NoAlloc)
    BY DEF AllocTyped, NoAlloc
  <2> QED BY <1>1, <1>2, <2>1, <2>2, HoldResolved, Zenon
<1>7. LedgerStep
  BY <1>1, <1>2, NoRow, Zenon
<1>8. DebtsStep
  BY <1>1, <1>2, <1>7, NoDebts, Zenon
<1> QED BY <1>4, <1>5, <1>6, <1>7, <1>8, Zenon DEF Step

\* release() is a Step: only an open hold is given back.
LEMMA ReleaseStep ==
  ASSUME IInv, NEW h \in HoldKeys, Release(h)
  PROVE  Step
<1>1. Open(h) /\ GiveBack(h, "released") /\ sweep' \subseteq HoldKeys
  BY Zenon DEF Release, IInv, TypeOK
<1> QED BY <1>1, GiveBackStep

\* The sweep releasing one listed hold is a Step, whatever became of the hold meanwhile.
LEMMA ExpireHoldStep ==
  ASSUME IInv, NEW h \in HoldKeys, ExpireHold(h)
  PROVE  Step
<1>1. TypeOK
  BY DEF IInv
<1>2. sweep' \subseteq HoldKeys
  <2>1. sweep \subseteq HoldKeys /\ sweep' = sweep \ {h}
    BY <1>1, Zenon DEF ExpireHold, TypeOK
  <2> QED BY <2>1
<1>3. CASE Open(h)
  <2>1. GiveBack(h, "expired")
    BY <1>3, Zenon DEF ExpireHold
  <2> QED BY <1>2, <1>3, <2>1, GiveBackStep
<1>4. CASE ~Open(h)
  <2>1. UNCHANGED <<clock, lots, balance, asOf, holds, debts, ledger>>
    BY <1>4, Zenon DEF ExpireHold
  <2>2. ClockStep
    BY <1>1, <1>2, <2>1, Zenon DEF ClockStep, TypeOK
  <2>3. LotsStep /\ HoldsStep /\ LedgerStep /\ BalanceStep
    BY <1>1, <2>1, NoLots, NoHolds, NoRow, Zenon DEF BalanceStep
  <2>4. DebtsStep
    BY <1>1, <2>1, <2>3, NoDebts, Zenon
  <2> QED BY <2>2, <2>3, <2>4, Zenon DEF Step
<1> QED BY <1>3, <1>4

-------------------------------------------------------------------------------
\* The fields of a ledger row.
LEMMA RowFields ==
  ASSUME TypeOK, NEW r \in DOMAIN ledger
  PROVE  /\ r \in 1..Len(ledger) /\ r \in Nat
         /\ ledger[r] \in Row /\ ledger[r].delta \in Int
         /\ ledger[r].requested \in Nat /\ ledger[r].of \in Nat
<1>1. r \in 1..Len(ledger) /\ Len(ledger) \in Nat
  BY Indexes
<1>2. r \in Nat
  BY <1>1
<1>3. ledger[r] \in Row
  <2>1. ledger \in Seq(Row)
    BY Zenon DEF TypeOK
  <2> QED BY <2>1
<1> QED BY <1>1, <1>2, <1>3, Zenon DEF Row

\* What was already clawed back of a grant is an amount.
LEMMA AlreadyNat ==
  ASSUME TypeOK, NEW g
  PROVE  AlreadyClawedBack(g) \in Nat
<1> DEFINE f == [r \in DOMAIN ledger |-> ledger[r].requested]
<1>1. ClawbacksOf(g) \subseteq DOMAIN ledger /\ IsFiniteSet(ClawbacksOf(g))
  <2>1. ledger \in Seq(Row)
    BY Zenon DEF TypeOK
  <2>2. ClawbacksOf(g) \subseteq DOMAIN ledger
    BY Zenon DEF ClawbacksOf
  <2> QED BY <2>1, <2>2, LotsFinite
<1>2. \A r \in ClawbacksOf(g) : f[r] \in Nat
  BY <1>1, RowFields, Zenon
<1> HIDE DEF f
<1>3. SumFunctionOnSet(f, ClawbacksOf(g)) \in Nat
  BY <1>1, <1>2, SumNat, Zenon
<1> QED BY <1>3, Zenon DEF AlreadyClawedBack, f

\* What a clawback takes out of the lots of a grant.
LEMMA ReclaimStep ==
  ASSUME TypeOK, NEW now, NEW g, NEW credits \in Int
  PROVE  LET ls == ExpireDueLots(lots, now)
             take == Reclaim(ls, g, credits)
         IN  /\ SumFunction(take) \in Nat /\ ExpiredOf(ls, g) \in Nat
             /\ lots' = TakeFrom(ls, take) => LotsStep
<1> DEFINE E == 0..Never
           ls == ExpireDueLots(lots, now)
           D == GrantedLots(ls, g)
           f == Restrict(Remaining(ls), D)
           take == Reclaim(ls, g, credits)
           gone == [i \in DOMAIN ls |-> ls[i].expired]
<1>1. /\ lots \in Seq(LotWith(E)) /\ ls \in Seq(LotWith(E)) /\ Descends(lots, ls)
  BY Types, Swept, Zenon DEF TypeOK
<1> HIDE DEF E, ls
<1>2. D \subseteq DOMAIN ls /\ IsFiniteSet(D)
  <2>1. D \subseteq DOMAIN ls
    BY Zenon DEF GrantedLots
  <2> HIDE DEF D
  <2> QED BY <1>1, <2>1, LotsFinite
<1> HIDE DEF D
<1>3. DOMAIN f = D /\ \A i \in D : f[i] = ls[i].rem /\ f[i] \in Nat
  <2>1. DOMAIN f = D /\ \A i \in D : f[i] = ls[i].rem
    BY <1>2 DEF Restrict, Remaining
  <2> HIDE DEF f
  <2> QED BY <1>1, <1>2, <2>1, LotFields, Zenon
<1>4. take = Walk(credits, f, CreationOrder(DOMAIN ls))
  BY Zenon DEF Reclaim, D
<1> HIDE DEF f, take
<1>5. take \in [D -> Nat] /\ \A i \in D : take[i] <= f[i]
  BY <1>2, <1>3, <1>4, WalkBounds
<1>6. SumFunction(take) \in Nat
  <2>1. SumFunction(take) = SumFunctionOnSet(take, DOMAIN take)
    BY Zenon DEF SumFunction, SumFunctionOnSet, FoldFunction
  <2> QED BY <1>2, <1>5, <2>1, SumNat
<1>7. ExpiredOf(ls, g) \in Nat
  <2>1. \A i \in D : gone[i] \in Nat
    BY <1>1, <1>2, LotFields, Zenon
  <2>2. ExpiredOf(ls, g) = SumFunctionOnSet(gone, D)
    BY Zenon DEF ExpiredOf, D
  <2> HIDE DEF gone
  <2> QED BY <1>2, <2>1, <2>2, SumNat
<1>8. ASSUME lots' = TakeFrom(ls, take) PROVE LotsStep
  <2> DEFINE new == TakeFrom(ls, take)
  <2>1. \A i \in DOMAIN take : i \in DOMAIN ls =>
          take[i] \in Nat /\ take[i] <= ls[i].rem
    BY <1>3, <1>5
  <2>2. new \in Seq(LotWith(E)) /\ Len(new) = Len(ls) /\ Shrunk(ls, new)
    BY <1>1, <2>1, TakeShrinks
  <2> HIDE DEF new
  <2>3. Descends(ls, new)
    BY <1>1, <2>2, ShrunkDescends, Zenon
  <2>4. Descends(lots, new)
    BY <1>1, <2>2, <2>3, DescendsTransitive, Zenon
  <2> QED BY <1>8, <2>2, <2>4, DescentStep, Zenon DEF new, E
<1> QED BY <1>6, <1>7, <1>8 DEF take, ls

\* claw_back_grant() is a Step.
LEMMA ClawBackGrantStep ==
  ASSUME IInv, NEW g \in DOMAIN ledger, NEW reason \in Reasons,
         NEW target \in 1..ledger[g].delta, ClawBackGrant(g, target, reason)
  PROVE  Step
<1> DEFINE ls == ExpireDueLots(lots, clock)
           credits == target - AlreadyClawedBack(g)
           take == Reclaim(ls, g, credits)
           reclaimed == SumFunction(take)
           owed == credits - reclaimed
           outstanding == owed - Clip(owed, ExpiredOf(ls, g))
           row == [Entry(reason, -reclaimed) EXCEPT !.of = g, !.requested = credits]
<1>1. TypeOK
  BY DEF IInv
<1>2. /\ ledger[g].type = "grant" /\ credits > 0
      /\ Post(row)
      /\ lots' = TakeFrom(ls, take)
      /\ debts' = IF outstanding > 0 THEN OpenDebt(debts, outstanding, NextRow)
                                     ELSE debts
      /\ SyncBalance(clock)
      /\ UNCHANGED <<clock, holds, sweep>>
  BY Zenon DEF ClawBackGrant
<1>3. clock \in 0..clock /\ sweep' \subseteq HoldKeys
  BY <1>1, <1>2, Indexes DEF TypeOK
<1>4. ClockStep /\ BalanceStep
  BY <1>1, <1>2, <1>3, SyncStep, Zenon
<1>5. HoldsStep
  BY <1>1, <1>2, NoHolds, Zenon
<1>6. credits \in Nat
  <2>1. target \in Int /\ AlreadyClawedBack(g) \in Nat
    BY <1>1, AlreadyNat
  <2> QED BY <1>2, <2>1
<1>7. credits \in Int
  <2> HIDE DEF credits
  <2> QED BY <1>6
<1> HIDE DEF credits
<1>8. reclaimed \in Nat /\ ExpiredOf(ls, g) \in Nat /\ LotsStep
  BY <1>1, <1>2, <1>7, ReclaimStep, Zenon
<1> HIDE DEF reclaimed
<1>9. LedgerStep /\ Len(ledger') = NextRow
  <2>1. reason \in RowType /\ -reclaimed \in Int /\ 0 \in Nat
    BY <1>8, Types DEF RowType
  <2>2. g \in Nat /\ g \in 1..Len(ledger)
    BY <1>1, RowFields, Zenon
  <2>3. row \in Row /\ row.type = reason /\ row.key = NoKey /\ row.of = g
    <3>1. Entry(reason, -reclaimed) \in Row
      BY <2>1, Zenon DEF Entry, Row
    <3> QED BY <1>6, <2>2, <3>1, Zenon DEF Row, Entry
  <2> HIDE DEF row
  <2>4. ledger' = Append(ledger, row)
    BY <1>2, Zenon DEF Post
  <2>5. Fresh(row)
    <3>1. row.type # "grant"
      BY <2>3, Types
    <3>2. Unused(row.key)
      BY <2>3, Zenon DEF Unused
    <3> QED BY <1>2, <2>2, <2>3, <3>1, <3>2, Zenon DEF Fresh
  <2> QED BY <1>1, <2>3, <2>4, <2>5, PostStep, Zenon
<1>10. DebtsStep
  <2>1. CASE outstanding > 0
    <3>1. outstanding \in Nat
      <4>1. owed \in Int
        BY <1>7, <1>8
      <4> HIDE DEF owed
      <4>2. Clip(owed, ExpiredOf(ls, g)) \in Int
        BY <1>8, <4>1, ClipBounds
      <4> HIDE DEF ls
      <4> QED BY <2>1, <4>1, <4>2
    <3>2. debts' = OpenDebt(debts, outstanding, NextRow)
      BY <1>2, <2>1, Zenon
    <3> HIDE DEF outstanding
    <3> QED BY <1>1, <1>9, <3>1, <3>2, OpenedDebt, Zenon
  <2>2. CASE ~(outstanding > 0)
    BY <1>1, <1>2, <1>9, <2>2, NoDebts, Zenon
  <2> QED BY <2>1, <2>2, Zenon
<1> QED BY <1>4, <1>5, <1>8, <1>9, <1>10, Zenon DEF Step

\* The first lot of a grant is one of its lots.
LEMMA TemplateLot ==
  ASSUME IInv, NEW r \in DOMAIN ledger, ledger[r].type = "dispute"
  PROVE  LET g == ledger[r].of
             template == CHOOSE i \in GrantedLots(lots, g) :
                           \A j \in GrantedLots(lots, g) : i <= j
         IN  template \in DOMAIN lots /\ lots[template].grant = g
<1> DEFINE g == ledger[r].of
           S == GrantedLots(lots, g)
           R == {p \in S \X S : p[1] > p[2]}
           template == CHOOSE i \in S : \A j \in S : i <= j
<1>1. TypeOK /\ GrantsHaveLots
  BY DEF IInv
<1>2. g \in 1..Len(ledger) /\ ledger[g].type = "grant"
  <2>1. r \in 1..Len(ledger)
    BY <1>1, RowFields, Zenon
  <2>2. ledger[r].type \in {"refund", "dispute"}
    OBVIOUS
  <2> QED BY <1>1, <2>1, <2>2, Zenon DEF GrantsHaveLots
<1> HIDE DEF g
<1>3. S # {} /\ S \subseteq DOMAIN lots /\ DOMAIN lots = 1..Len(lots) /\ Len(lots) \in Nat
  <2>1. PICK i \in 1..Len(lots) : lots[i].grant = g
    BY <1>1, <1>2, Zenon DEF GrantsHaveLots
  <2>2. DOMAIN lots = 1..Len(lots) /\ Len(lots) \in Nat
    BY <1>1, Indexes
  <2> QED BY <2>1, <2>2, Zenon DEF GrantedLots
<1>4. \A i \in S : lots[i].grant = g
  BY Zenon DEF GrantedLots
<1> HIDE DEF S
<1>5. \A i \in S : i \in Int
  BY <1>3
<1>6. IsFiniteSet(S) /\ StrictTotalOrder(R, S)
  <2>1. IsFiniteSet(S)
    <3>1. lots \in Seq(Lot)
      BY <1>1, Zenon DEF TypeOK
    <3> QED BY <1>3, <3>1, LotsFinite
  <2>2. \A x, y \in S : <<x, y>> \in R <=> x > y
    OBVIOUS
  <2> HIDE DEF R
  <2>3. /\ \A x \in S : ~(x > x)
        /\ \A x, y \in S : x # y => x > y \/ y > x
        /\ \A x, y, z \in S : x > y /\ y > z => x > z
    BY <1>5
  <2> QED BY <2>1, <2>2, <2>3, Zenon DEF StrictTotalOrder
<1>7. PICK m \in S : \A y \in S \ {m} : <<y, m>> \in R
  <2> HIDE DEF R
  <2> QED BY <1>3, <1>6, LastExists
<1>8. \A j \in S : m <= j
  <2>1. \A j \in S : j = m \/ j > m
    BY <1>7
  <2> HIDE DEF R
  <2> QED BY <1>5, <2>1
<1>9. template \in S
  BY <1>8, Zenon
<1> HIDE DEF template
<1>10. template \in DOMAIN lots /\ lots[template].grant = g
  BY <1>3, <1>4, <1>9
<1> QED BY <1>10 DEF template, S, g

\* A won dispute marks its clawback; nothing else of the ledger changes.
LEMMA ReversedRows ==
  ASSUME TypeOK, NEW r \in DOMAIN ledger
  PROVE  /\ Reversed(r) \in Seq(Row) /\ Len(Reversed(r)) = Len(ledger)
         /\ \A s \in 1..Len(ledger) : /\ Reversed(r)[s].type = ledger[s].type
                                       /\ Reversed(r)[s].key = ledger[s].key
                                       /\ Reversed(r)[s].of = ledger[s].of
<1> DEFINE new == Reversed(r)
<1>1. ledger \in Seq(Row) /\ DOMAIN ledger = 1..Len(ledger) /\ Len(ledger) \in Nat
  BY Indexes DEF TypeOK
<1>2. \A s \in DOMAIN ledger :
        new[s] = ledger[s] \/ new[s] = [ledger[s] EXCEPT !.reversed = TRUE]
  BY Zenon DEF Reversed
<1>3. new = [s \in DOMAIN ledger |-> new[s]]
  <2>1. DOMAIN new = DOMAIN ledger
    BY Zenon DEF Reversed
  <2>2. new = [s \in DOMAIN ledger |-> IF s = r THEN [ledger[r] EXCEPT !.reversed = TRUE]
                                               ELSE ledger[s]]
    BY Zenon DEF Reversed
  <2> HIDE DEF new
  <2> QED BY <2>2, Zenon
<1> HIDE DEF new
<1>4. ASSUME NEW s \in DOMAIN ledger
      PROVE  /\ new[s] \in Row /\ new[s].type = ledger[s].type
             /\ new[s].key = ledger[s].key /\ new[s].of = ledger[s].of
  <2>1. ledger[s] \in Row
    BY RowFields, Zenon
  <2>2. CASE new[s] = ledger[s]
    BY <2>1, <2>2, Zenon
  <2>3. CASE new[s] = [ledger[s] EXCEPT !.reversed = TRUE]
    <3>1. TRUE \in BOOLEAN
      OBVIOUS
    <3> QED BY <2>1, <2>3, <3>1, Zenon DEF Row
  <2> QED BY <1>2, <2>2, <2>3, Zenon
<1>5. new \in Seq(Row) /\ Len(new) = Len(ledger)
  <2>1. new \in [1..Len(ledger) -> Row]
    BY <1>1, <1>3, <1>4
  <2> QED BY <1>1, <2>1, SeqDef
<1> QED BY <1>1, <1>4, <1>5, Zenon DEF new

\* ... and closes the debt it opened.
LEMMA CancelledDebts ==
  ASSUME TypeOK, NEW r
  PROVE  /\ CancelDebts(r) \in Seq(DebtRecords) /\ Len(CancelDebts(r)) = Len(debts)
         /\ \A d \in 1..Len(debts) : CancelDebts(r)[d].row = debts[d].row
<1> DEFINE new == CancelDebts(r)
<1>1. debts \in Seq(DebtRecords) /\ DOMAIN debts = 1..Len(debts) /\ Len(debts) \in Nat
  BY DebtsTyped, Indexes
<1>2. \A d \in DOMAIN debts :
        new[d] = debts[d] \/ new[d] = [debts[d] EXCEPT !.out = 0]
  BY Zenon DEF CancelDebts
<1>3. new = [d \in DOMAIN debts |-> new[d]]
  BY DEF CancelDebts
<1> HIDE DEF new
<1>4. ASSUME NEW d \in DOMAIN debts
      PROVE  new[d] \in DebtRecords /\ new[d].row = debts[d].row
  <2>1. debts[d] \in DebtRecords
    BY <1>1, DebtFields, Zenon
  <2>2. CASE new[d] = debts[d]
    BY <2>1, <2>2, Zenon
  <2>3. CASE new[d] = [debts[d] EXCEPT !.out = 0]
    <3>1. 0 \in Nat
      OBVIOUS
    <3> QED BY <2>1, <2>3, <3>1, Zenon DEF DebtRecords
  <2> QED BY <1>2, <2>2, <2>3, Zenon
<1>5. new \in Seq(DebtRecords) /\ Len(new) = Len(debts)
  <2>1. new \in [1..Len(debts) -> DebtRecords]
    BY <1>1, <1>3, <1>4
  <2> QED BY <1>1, <2>1, SeqDef
<1> QED BY <1>1, <1>4, <1>5, Zenon DEF new

\* What a cancelled debt had collected is an amount.
LEMMA CollectedInt ==
  ASSUME TypeOK, NEW r
  PROVE  Collected(r) \in Int
<1> DEFINE f == [d \in DOMAIN debts |-> debts[d].init - debts[d].out]
<1>1. debts \in Seq(DebtRecords)
  BY DebtsTyped, Zenon
<1>2. DebtsOf(r) \subseteq DOMAIN debts /\ IsFiniteSet(DebtsOf(r))
  <2>1. DebtsOf(r) \subseteq DOMAIN debts
    BY Zenon DEF DebtsOf
  <2> QED BY <1>1, <2>1, LotsFinite
<1>3. \A d \in DebtsOf(r) : f[d] \in Int
  <2>1. \A d \in DOMAIN debts : debts[d].init \in Nat /\ debts[d].out \in Nat
    BY <1>1, DebtFields, Zenon
  <2>2. ASSUME NEW d \in DOMAIN debts PROVE f[d] \in Int
    <3>1. debts[d].init \in Nat /\ debts[d].out \in Nat
      BY <2>1
    <3> QED BY <3>1
  <2> HIDE DEF f
  <2> QED BY <1>2, <2>2, Zenon
<1> HIDE DEF f
<1>4. SumFunctionOnSet(f, DebtsOf(r)) \in Int
  BY <1>2, <1>3, SumInt, Zenon
<1> QED BY <1>4, Zenon DEF Collected, f

\* _reverse_clawback() is a Step, provided the disputed grant has a lot to copy the deadline of.
LEMMA ReverseClawbackStep ==
  ASSUME IInv, NEW r \in DOMAIN ledger, ReverseClawback(r)
  PROVE  Step
<1> DEFINE E == 0..Never
           given == Collected(r) - ledger[r].delta
           g == ledger[r].of
           template == CHOOSE i \in GrantedLots(lots, g) :
                         \A j \in GrantedLots(lots, g) : i <= j
           l == [rem |-> given, exp |-> lots[template].exp, grant |-> g, expired |-> 0]
           restored(now) == ExpireDueLots(Append(lots, l), now)
           row == [Entry("restored", given) EXCEPT !.of = r]
<1>1. TypeOK
  BY DEF IInv
<1>2. PICK now \in Readings :
        /\ ledger[r].type = "dispute"
        /\ IF given > 0
             THEN /\ ledger' = Append(Reversed(r), row)
                  /\ lots' = LotsAfterSettling(restored(now), CancelDebts(r), now)
                  /\ debts' = SettleDebts(restored(now), CancelDebts(r), now)
                  /\ SyncBalance(now)
             ELSE /\ ledger' = Reversed(r)
                  /\ debts' = CancelDebts(r)
                  /\ UNCHANGED <<lots, balance, asOf>>
        /\ UNCHANGED <<clock, holds, sweep>>
  BY Zenon DEF ReverseClawback
<1>3. now \in 0..clock /\ sweep' \subseteq HoldKeys
  BY <1>1, <1>2, ReadingsPast, Zenon DEF TypeOK
<1>4. HoldsStep
  BY <1>1, <1>2, NoHolds, Zenon
<1>5. /\ Reversed(r) \in Seq(Row) /\ Len(Reversed(r)) = Len(ledger)
      /\ \A s \in 1..Len(ledger) : /\ Reversed(r)[s].type = ledger[s].type
                                    /\ Reversed(r)[s].key = ledger[s].key
                                    /\ Reversed(r)[s].of = ledger[s].of
  BY <1>1, ReversedRows
<1>6. /\ CancelDebts(r) \in Seq(DebtRecords) /\ Len(CancelDebts(r)) = Len(debts)
      /\ \A d \in 1..Len(debts) : CancelDebts(r)[d].row = debts[d].row
  BY <1>1, CancelledDebts
<1>7. lots \in Seq(LotWith(E)) /\ E \in SUBSET Int
  BY <1>1, Types, Zenon DEF TypeOK
<1>8. CASE given > 0
  <2>1. /\ ledger' = Append(Reversed(r), row)
        /\ lots' = LotsAfterSettling(restored(now), CancelDebts(r), now)
        /\ debts' = SettleDebts(restored(now), CancelDebts(r), now)
        /\ SyncBalance(now)
        /\ UNCHANGED <<clock, sweep>>
    BY <1>2, <1>8, Zenon
  <2>2. ClockStep /\ BalanceStep
    BY <1>1, <1>3, <2>1, SyncStep, Zenon
  <2>3. given \in Nat /\ g \in Nat /\ r \in Nat
    <3>1. Collected(r) \in Int /\ ledger[r].delta \in Int /\ g \in Nat /\ r \in Nat
      BY <1>1, CollectedInt, RowFields, Zenon
    <3> HIDE DEF g
    <3> QED BY <1>8, <3>1
  <2>4. template \in DOMAIN lots /\ lots[template].grant = g
    BY <1>2, TemplateLot, Zenon
  <2> HIDE DEF template, g, given
  <2>5. l \in LotWith(E) /\ l.exp = lots[template].exp /\ l.grant = lots[template].grant
    <3>1. lots[template].exp \in E /\ 0 \in Nat
      BY <1>7, <2>4, LotFields
    <3> HIDE DEF E
    <3> QED BY <2>3, <2>4, <3>1, Zenon DEF LotWith
  <2> HIDE DEF l, E
  <2>6. Append(lots, l) \in Seq(LotWith(E)) /\ Descends(lots, Append(lots, l))
    <3>1. Append(lots, l) = lots \o <<l>> /\ <<l>> \in Seq(LotWith(E)) /\ Len(<<l>>) = 1
      BY <1>7, <2>5
    <3>2. template \in 1..Len(lots)
      BY <1>7, <2>4, LotsFinite, Zenon
    <3>3. \A k \in 1..Len(<<l>>) : \E j \in 1..Len(lots) :
            <<l>>[k].exp = lots[j].exp /\ <<l>>[k].grant = lots[j].grant
      <4>1. \A k \in 1..Len(<<l>>) : <<l>>[k] = l
        BY <3>1
      <4> QED BY <2>5, <3>2, <4>1, Zenon
    <3> QED BY <1>7, <3>1, <3>3, AppendDescends, Zenon
  <2>7. restored(now) \in Seq(LotWith(E)) /\ Descends(Append(lots, l), restored(now))
    BY <2>6, ExpireDescends, Zenon
  <2> HIDE DEF restored
  <2>8. LotsStep
    <3> DEFINE new == LotsAfterSettling(restored(now), CancelDebts(r), now)
    <3>1. new \in Seq(LotWith(E)) /\ Descends(restored(now), new)
      BY <1>6, <2>7, SettlingDescends
    <3>2. lots' = new
      BY <2>1
    <3> HIDE DEF new
    <3>3. Descends(lots, new)
      BY <1>7, <2>6, <2>7, <3>1, DescendsTransitive, Zenon
    <3> QED BY <3>1, <3>2, <3>3, DescentStep, Zenon DEF E
  <2>9. LedgerStep /\ Len(ledger') = NextRow
    <3>1. row \in Row /\ row.type = "restored" /\ row.key = NoKey
      <4>1. "restored" \in RowType /\ given \in Int /\ 0 \in Nat
        BY <2>3 DEF RowType
      <4>2. Entry("restored", given) \in Row
        BY <4>1, Zenon DEF Entry, Row
      <4> QED BY <2>3, <4>2, Zenon DEF Row, Entry
    <3> HIDE DEF row
    <3>2. Fresh(row)
      BY <3>1 DEF Fresh, Unused
    <3>3. /\ ledger' \in Seq(Row) /\ Len(ledger') = NextRow
          /\ ledger'[NextRow] = row
          /\ \A s \in 1..Len(ledger) : ledger'[s] = Reversed(r)[s]
      BY <1>5, <2>1, <3>1, AppendProperties DEF NextRow
    <3> QED BY <1>5, <3>2, <3>3, Zenon DEF LedgerStep
  <2>10. DebtsStep
    <3> DEFINE new == SettleDebts(restored(now), CancelDebts(r), now)
    <3>1. /\ new \in Seq(DebtRecords) /\ Len(new) = Len(CancelDebts(r))
          /\ \A d \in 1..Len(CancelDebts(r)) : new[d].row = CancelDebts(r)[d].row
      BY <1>6, <2>7, SettlingDebts
    <3>2. debts' = new
      BY <2>1
    <3> HIDE DEF new
    <3>3. /\ debts' \in Seq(DebtRecords) /\ Len(debts') = Len(debts)
          /\ \A d \in 1..Len(debts) : debts'[d].row = debts[d].row
      BY <1>6, <3>1, <3>2, Zenon
    <3> QED BY <1>1, <2>9, <3>3, KeptDebts, Zenon
  <2> QED BY <1>4, <2>2, <2>8, <2>9, <2>10, Zenon DEF Step
<1>9. CASE ~(given > 0)
  <2>1. /\ ledger' = Reversed(r) /\ debts' = CancelDebts(r)
        /\ UNCHANGED <<lots, balance, asOf, clock, sweep>>
    BY <1>2, <1>9, Zenon
  <2>2. LedgerStep
    <3>1. Len(ledger) # NextRow
      <4>1. Len(ledger) \in Nat /\ NextRow = Len(ledger) + 1
        BY <1>1, Indexes, Zenon
      <4> HIDE DEF NextRow
      <4> QED BY <4>1
    <3> QED BY <1>5, <2>1, <3>1, Zenon DEF LedgerStep
  <2>3. ClockStep /\ BalanceStep
    BY <1>1, <2>1, Zenon DEF ClockStep, BalanceStep, TypeOK
  <2>4. LotsStep
    BY <1>1, <2>1, NoLots, Zenon
  <2>5. DebtsStep
    BY <1>1, <1>6, <2>1, <2>2, KeptDebts, Zenon
  <2> QED BY <1>4, <2>2, <2>3, <2>4, <2>5, Zenon DEF Step
<1> QED BY <1>8, <1>9, Zenon

\* A step that changes nothing.
LEMMA StutterStep ==
  ASSUME IInv, UNCHANGED vars
  PROVE  Step
<1>1. TypeOK
  BY DEF IInv
<1>2. UNCHANGED <<clock, lots, balance, asOf, holds, debts, ledger, sweep>>
  BY Zenon DEF vars
<1>3. ClockStep
  BY <1>1, <1>2, Zenon DEF ClockStep, TypeOK
<1>4. LotsStep /\ HoldsStep /\ LedgerStep /\ BalanceStep
  BY <1>1, <1>2, NoLots, NoHolds, NoRow, Zenon DEF BalanceStep
<1>5. DebtsStep
  BY <1>1, <1>2, <1>4, NoDebts, Zenon
<1> QED BY <1>3, <1>4, <1>5, Zenon DEF Step

\* Every step of the wallet is a Step.
LEMMA NextIsStep ==
  ASSUME IInv, [Next]_vars
  PROVE  Step
<1>1. CASE Tick
  BY <1>1, TickStep
<1>2. CASE Spend
  <2>1. PICK key \in Keys \cup {NoKey} :
          \/ \E c \in Amounts, exp \in Deadlines, settle \in BOOLEAN :
               Credit(key, c, exp, settle)
          \/ \E c \in Amounts, partial \in BOOLEAN : Debit(key, c, partial)
          \/ MeterOnlyDebit(key)
    BY <1>2, Zenon DEF Spend
  <2> QED BY <2>1, CreditStep, DebitStep, MeterOnlyDebitStep, Zenon
<1>3. CASE Reserve
  <2>1. PICK h \in HoldKeys :
          \/ \E c \in Amounts, exp \in Deadlines, waived \in Waivers :
               Hold(h, c, exp, waived)
          \/ \E actual \in Amounts \cup {0} :
               CaptureWithin(h, actual) \/ CaptureBeyond(h, actual)
          \/ MeterOnlyCapture(h)
          \/ Release(h)
    BY <1>3, Zenon DEF Reserve
  <2> QED BY <2>1, HoldStep, CaptureWithinStep, CaptureBeyondStep,
             MeterOnlyCaptureStep, ReleaseStep, Zenon
<1>4. CASE Workers
  BY <1>4, ListStaleHoldsStep, ExpireHoldStep, ExpireCreditLotsStep, Zenon DEF Workers
<1>5. CASE MoneyBack
  BY <1>5, ClawBackGrantStep, ReverseClawbackStep, Zenon DEF MoneyBack
<1>6. CASE UNCHANGED vars
  BY <1>6, StutterStep
<1> QED BY <1>1, <1>2, <1>3, <1>4, <1>5, <1>6, Zenon DEF Next

-------------------------------------------------------------------------------
(* The theorems: everything from here on uses the Steps alone.             *)

\* No lot is lost: each is still there, and each new one has an ancestor.
LEMMA LotsKept ==
  ASSUME IInv, Step
  PROVE  /\ Len(lots') \in Nat /\ DOMAIN lots' = 1..Len(lots')
         /\ 1..Len(lots) \subseteq 1..Len(lots')
         /\ \A i \in 1..Len(lots) :
              /\ lots'[i].rem <= lots[i].rem /\ lots'[i].expired >= lots[i].expired
              /\ lots'[i].exp = lots[i].exp /\ lots'[i].grant = lots[i].grant
         /\ \A i, j \in 1..Len(lots') :
              lots'[i].grant = lots'[j].grant =>
                \/ lots'[i].exp = lots'[j].exp
                \/ \E m, n \in 1..Len(lots) :
                     /\ lots[m].grant = lots[n].grant
                     /\ lots[m].exp = lots'[i].exp /\ lots[n].exp = lots'[j].exp
         /\ \A i \in 1..Len(lots') : lots'[i].grant \in 1..Len(ledger')
<1> DEFINE E == 0..Never
<1>1. /\ TypeOK /\ LotsStep /\ LedgerStep /\ Len(lots) \in Nat
      /\ DOMAIN lots = 1..Len(lots) /\ Len(ledger) \in Nat
      /\ NextRow = Len(ledger) + 1
  BY Indexes DEF IInv, Step
<1>2. /\ lots \in Seq(LotWith(E)) /\ lots' \in Seq(LotWith(E))
      /\ \A i \in 1..Len(lots) : lots[i].grant \in 1..Len(ledger)
  <2>1. lots \in Seq(Lot) /\ lots' \in Seq(Lot)
    BY <1>1, Zenon DEF TypeOK, LotsStep
  <2>2. \A i \in 1..Len(lots) : lots[i].grant \in 1..Len(ledger)
    BY <1>1, Indexes, Zenon DEF TypeOK
  <2> QED BY <2>1, <2>2, Types, Zenon
<1>3. Len(lots') \in Nat /\ DOMAIN lots' = 1..Len(lots')
  BY <1>2
<1>4. 1..Len(ledger) \subseteq 1..Len(ledger')
  BY <1>1 DEF LedgerStep
<1> HIDE DEF E
<1>5. CASE Descends(lots, lots')
  <2>1. Len(lots) <= Len(lots')
    BY <1>5, Zenon DEF Descends
  <2>2. 1..Len(lots) \subseteq 1..Len(lots')
    BY <1>1, <1>3, <2>1
  <2>3. \A i \in 1..Len(lots') : \E m \in 1..Len(lots) :
          lots'[i].exp = lots[m].exp /\ lots'[i].grant = lots[m].grant
    BY <1>5, Zenon DEF Descends
  <2>4. \A i, j \in 1..Len(lots') :
          lots'[i].grant = lots'[j].grant =>
            \E m, n \in 1..Len(lots) :
              /\ lots[m].grant = lots[n].grant
              /\ lots[m].exp = lots'[i].exp /\ lots[n].exp = lots'[j].exp
    <3> SUFFICES ASSUME NEW i \in 1..Len(lots'), NEW j \in 1..Len(lots'),
                        lots'[i].grant = lots'[j].grant
                 PROVE  \E m, n \in 1..Len(lots) :
                          /\ lots[m].grant = lots[n].grant
                          /\ lots[m].exp = lots'[i].exp /\ lots[n].exp = lots'[j].exp
      BY Zenon
    <3>1. PICK m \in 1..Len(lots) : lots'[i].exp = lots[m].exp /\ lots'[i].grant = lots[m].grant
      BY <2>3, Zenon
    <3>2. PICK n \in 1..Len(lots) : lots'[j].exp = lots[n].exp /\ lots'[j].grant = lots[n].grant
      BY <2>3, Zenon
    <3> QED BY <3>1, <3>2, Zenon
  <2>5. \A i \in 1..Len(lots') : lots'[i].grant \in 1..Len(ledger')
    BY <1>2, <1>4, <2>3, Zenon
  <2> QED BY <1>3, <1>5, <2>2, <2>4, <2>5, Zenon DEF Descends
<1>6. ASSUME NEW l \in Lot, l.grant = NextRow, Len(ledger') = NextRow,
             Descends(Append(lots, l), lots')
      PROVE  /\ 1..Len(lots) \subseteq 1..Len(lots')
             /\ \A i \in 1..Len(lots) :
                  /\ lots'[i].rem <= lots[i].rem /\ lots'[i].expired >= lots[i].expired
                  /\ lots'[i].exp = lots[i].exp /\ lots'[i].grant = lots[i].grant
             /\ \A i, j \in 1..Len(lots') :
                  lots'[i].grant = lots'[j].grant =>
                    \/ lots'[i].exp = lots'[j].exp
                    \/ \E m, n \in 1..Len(lots) :
                         /\ lots[m].grant = lots[n].grant
                         /\ lots[m].exp = lots'[i].exp /\ lots[n].exp = lots'[j].exp
             /\ \A i \in 1..Len(lots') : lots'[i].grant \in 1..Len(ledger')
  <2> DEFINE all == Append(lots, l)  n == Len(lots)
  <2>1. /\ Len(all) = n + 1 /\ all[n + 1] = l
        /\ \A i \in 1..n : all[i] = lots[i] /\ i \in 1..Len(all)
    <3>1. l \in LotWith(E)
      BY Types, Zenon DEF E
    <3>2. /\ Len(all) = n + 1 /\ all[n + 1] = l /\ \A i \in 1..n : all[i] = lots[i]
      BY <1>2, <3>1, AppendProperties
    <3> HIDE DEF all
    <3>3. \A i \in 1..n : i \in 1..Len(all)
      BY <1>1, <3>2
    <3> QED BY <3>2, <3>3, Zenon
  <2>2. \A i \in 1..Len(all) : i \in 1..n \/ i = n + 1
    BY <1>1, <2>1
  <2> HIDE DEF all
  <2>3. /\ Len(all) <= Len(lots')
        /\ \A i \in 1..Len(all) :
             /\ lots'[i].rem <= all[i].rem /\ lots'[i].expired >= all[i].expired
             /\ lots'[i].exp = all[i].exp /\ lots'[i].grant = all[i].grant
        /\ \A i \in 1..Len(lots') : \E m \in 1..Len(all) :
             lots'[i].exp = all[m].exp /\ lots'[i].grant = all[m].grant
    BY <1>6, Zenon DEF Descends, all
  <2>4. 1..n \subseteq 1..Len(lots')
    BY <1>1, <1>3, <2>1, <2>3
  <2>5. \A i \in 1..n : lots[i].grant # NextRow
    <3> SUFFICES ASSUME NEW i \in 1..n PROVE lots[i].grant # NextRow
      OBVIOUS
    <3>1. lots[i].grant \in 1..Len(ledger)
      BY <1>2
    <3> HIDE DEF NextRow
    <3> QED BY <1>1, <3>1
  <2>6. \A i \in 1..n : lots'[i].rem <= lots[i].rem /\ lots'[i].expired >= lots[i].expired
                      /\ lots'[i].exp = lots[i].exp /\ lots'[i].grant = lots[i].grant
    BY <2>1, <2>3, Zenon
  <2>7. ASSUME NEW i \in 1..Len(lots'), NEW j \in 1..Len(lots'),
               lots'[i].grant = lots'[j].grant
        PROVE  \/ lots'[i].exp = lots'[j].exp
               \/ \E m, k \in 1..n :
                    /\ lots[m].grant = lots[k].grant
                    /\ lots[m].exp = lots'[i].exp /\ lots[k].exp = lots'[j].exp
    <3>1. PICK m \in 1..Len(all) : lots'[i].exp = all[m].exp /\ lots'[i].grant = all[m].grant
      BY <2>3, Zenon
    <3>2. PICK k \in 1..Len(all) : lots'[j].exp = all[k].exp /\ lots'[j].grant = all[k].grant
      BY <2>3, Zenon
    <3>3. CASE m \in 1..n /\ k \in 1..n
      BY <2>1, <2>7, <3>1, <3>2, <3>3, Zenon
    <3>4. CASE m = n + 1 /\ k = n + 1
      BY <3>1, <3>2, <3>4, Zenon
    <3>5. CASE m \in 1..n /\ k = n + 1
      BY <1>6, <2>1, <2>5, <2>7, <3>1, <3>2, <3>5, Zenon
    <3>6. CASE m = n + 1 /\ k \in 1..n
      BY <1>6, <2>1, <2>5, <2>7, <3>1, <3>2, <3>6, Zenon
    <3> QED BY <2>2, <3>3, <3>4, <3>5, <3>6, Zenon
  <2>8. ASSUME NEW i \in 1..Len(lots') PROVE lots'[i].grant \in 1..Len(ledger')
    <3>1. PICK m \in 1..Len(all) : lots'[i].grant = all[m].grant
      BY <2>3, Zenon
    <3>2. NextRow \in 1..Len(ledger')
      <4> HIDE DEF NextRow
      <4> QED BY <1>1, <1>6
    <3>3. all[m].grant \in 1..Len(ledger) \/ all[m].grant = NextRow
      BY <1>2, <1>6, <2>1, <2>2, Zenon
    <3> QED BY <1>4, <3>1, <3>2, <3>3, Zenon
  <2> QED BY <2>4, <2>6, <2>7, <2>8, Zenon
<1>7. \/ Descends(lots, lots')
      \/ \E l \in Lot : /\ l.grant = NextRow /\ Len(ledger') = NextRow
                        /\ Descends(Append(lots, l), lots')
  BY <1>1, Zenon DEF LotsStep
<1>8. CASE \E l \in Lot : /\ l.grant = NextRow /\ Len(ledger') = NextRow
                          /\ Descends(Append(lots, l), lots')
  <2>1. PICK l \in Lot : /\ l.grant = NextRow /\ Len(ledger') = NextRow
                         /\ Descends(Append(lots, l), lots')
    BY <1>8, Zenon
  <2> QED BY <1>3, <1>6, <2>1, Zenon
<1> QED BY <1>5, <1>7, <1>8, Zenon

\* The ledger only grows, by at most the next row.
LEMMA LedgerKept ==
  ASSUME IInv, Step
  PROVE  /\ Len(ledger') \in Nat /\ DOMAIN ledger' = 1..Len(ledger')
         /\ 1..Len(ledger) \subseteq 1..Len(ledger')
         /\ \A r \in 1..Len(ledger') :
              r \in 1..Len(ledger) \/ (r = NextRow /\ Len(ledger') = NextRow)
<1>1. /\ Len(ledger) \in Nat /\ NextRow = Len(ledger) + 1
      /\ ledger' \in Seq(Row) /\ Len(ledger') \in {Len(ledger), NextRow}
  BY Indexes DEF IInv, Step, LedgerStep
<1> HIDE DEF NextRow
<1> QED BY <1>1

\* Types are kept by every Step.
LEMMA TypesKept ==
  ASSUME IInv, Step
  PROVE  TypeOK'
<1>1. TypeOK /\ ClockStep /\ LotsStep /\ BalanceStep /\ DebtsStep /\ LedgerStep /\ HoldsStep
  BY Zenon DEF IInv, Step
<1>2. clock' \in 0..MaxClock /\ asOf' \in 0..clock' /\ sweep' \subseteq HoldKeys
  BY <1>1, Zenon DEF ClockStep
<1>3. lots' \in Seq(Lot) /\ \A i \in DOMAIN lots' : lots'[i].grant \in DOMAIN ledger'
  BY <1>1, LotsKept, LedgerKept, Zenon DEF LotsStep
<1>4. balance' \in Nat
  <2>1. CASE balance' = LiveBalance(lots', asOf')
    <3>1. lots' \in Seq(LotWith(0..Never))
      BY <1>3, Types, Zenon
    <3>2. \A ls \in Seq(LotWith(0..Never)) : \A now : LiveBalance(ls, now) \in Nat
      BY LiveBalanceNat, Zenon
    <3> QED BY <2>1, <3>1, <3>2, Zenon
  <2>2. CASE UNCHANGED <<lots, balance, asOf>>
    BY <1>1, <2>2, Zenon DEF TypeOK
  <2> QED BY <1>1, <2>1, <2>2, Zenon DEF BalanceStep
<1>5. debts' \in Seq(Debt) /\ \A d \in DOMAIN debts' : debts'[d].row \in DOMAIN ledger'
  <2>1. debts' \in Seq(Debt) /\ \A d \in 1..Len(debts') : debts'[d].row \in 1..Len(ledger')
    BY <1>1, Zenon DEF DebtsStep
  <2>2. DOMAIN debts' = 1..Len(debts')
    BY <2>1
  <2> QED BY <2>1, <2>2, LedgerKept, Zenon
<1>6. ledger' \in Seq(Row)
  BY <1>1, Zenon DEF LedgerStep
<1>7. DOMAIN holds' = HoldKeys /\ \A h \in HoldKeys : HoldRecord(holds[h])'
  <2>1. DOMAIN lots \subseteq DOMAIN lots'
    BY <1>1, Indexes, LotsKept, Zenon
  <2>2. ASSUME NEW h \in HoldKeys PROVE HoldRecord(holds[h])'
    <3>1. HoldRecord(holds'[h])
      BY <1>1, Zenon DEF HoldsStep
    <3>2. DOMAIN holds'[h].alloc \subseteq DOMAIN lots'
      BY <2>1, <3>1, Zenon DEF HoldRecord
    <3> QED BY <3>1, <3>2, Zenon DEF HoldRecord
  <2> QED BY <1>1, <2>2, Zenon DEF HoldsStep
<1> QED BY <1>2, <1>3, <1>4, <1>5, <1>6, <1>7, Zenon DEF TypeOK

\* A grant keeps its lots, a clawback its grant.
LEMMA GrantsKeepLots ==
  ASSUME IInv, Step
  PROVE  GrantsHaveLots'
<1>1. GrantsHaveLots /\ LedgerStep
  BY Zenon DEF IInv, Step
<1>2. ASSUME NEW g \in 1..Len(ledger'), ledger'[g].type = "grant"
      PROVE  \E i \in 1..Len(lots') : lots'[i].grant = g
  <2>1. CASE g \in 1..Len(ledger)
    <3>1. ledger[g].type = "grant"
      BY <1>1, <1>2, <2>1, Zenon DEF LedgerStep
    <3>2. PICK i \in 1..Len(lots) : lots[i].grant = g
      BY <1>1, <2>1, <3>1, Zenon DEF GrantsHaveLots
    <3> QED BY <3>2, LotsKept, Zenon
  <2>2. CASE g = NextRow /\ Len(ledger') = NextRow
    BY <1>1, <1>2, <2>2, Zenon DEF LedgerStep, Fresh
  <2> QED BY <2>1, <2>2, LedgerKept, Zenon
<1>3. ASSUME NEW r \in 1..Len(ledger'), ledger'[r].type \in {"refund", "dispute"}
      PROVE  ledger'[r].of \in 1..Len(ledger') /\ ledger'[ledger'[r].of].type = "grant"
  <2>1. ledger'[r].of \in 1..Len(ledger) /\ ledger[ledger'[r].of].type = "grant"
    <3>1. CASE r \in 1..Len(ledger)
      BY <1>1, <1>3, <3>1, Zenon DEF LedgerStep, GrantsHaveLots
    <3>2. CASE r = NextRow /\ Len(ledger') = NextRow
      BY <1>1, <1>3, <3>2, Zenon DEF LedgerStep, Fresh
    <3> QED BY <3>1, <3>2, LedgerKept, Zenon
  <2> QED BY <1>1, <2>1, LedgerKept, Zenon DEF LedgerStep
<1> QED BY <1>2, <1>3, Zenon DEF GrantsHaveLots

\* The state a wallet is created in.
LEMMA InitialState ==
  ASSUME Init
  PROVE  IInv /\ BalanceIsLiveLots /\ KeysUsedOnce /\ GrantDeadlineKept
<1>1. /\ clock = 0 /\ asOf = 0 /\ balance = 0 /\ sweep = {}
      /\ lots = << >> /\ debts = << >> /\ ledger = << >>
      /\ holds = [h \in HoldKeys |-> NewHold]
  BY Zenon DEF Init
<1>2. /\ Len(lots) = 0 /\ lots \in Seq(Lot) /\ DOMAIN lots = {}
      /\ Len(debts) = 0 /\ debts \in Seq(Debt) /\ DOMAIN debts = {}
      /\ Len(ledger) = 0 /\ ledger \in Seq(Row) /\ DOMAIN ledger = {}
      /\ 1..0 = {}
  BY <1>1
<1>3. ASSUME NEW h \in HoldKeys PROVE HoldRecord(holds[h])
  <2>1. holds[h] = NewHold
    BY <1>1, Zenon
  <2>2. DOMAIN NoAlloc = {}
    BY Zenon DEF NoAlloc
  <2>3. "none" \in HoldStatus /\ 0 \in Nat /\ Never \in 0..Never /\ FALSE \in BOOLEAN
    BY Types DEF HoldStatus
  <2>4. /\ DOMAIN NewHold = {"status", "credits", "alloc", "exp", "waived"}
        /\ NewHold.status = "none" /\ NewHold.credits = 0 /\ NewHold.alloc = NoAlloc
        /\ NewHold.exp = Never /\ NewHold.waived = FALSE
    BY Zenon DEF NewHold
  <2> QED BY <2>1, <2>2, <2>3, <2>4, Zenon DEF HoldRecord
<1>4. TypeOK
  <2>1. clock \in 0..MaxClock /\ asOf \in 0..clock /\ balance \in Nat
    BY <1>1, Types
  <2>2. sweep \subseteq HoldKeys /\ DOMAIN holds = HoldKeys
    BY <1>1
  <2> QED BY <1>2, <1>3, <2>1, <2>2, Zenon DEF TypeOK
<1>5. GrantsHaveLots
  BY <1>2, Zenon DEF GrantsHaveLots
<1>6. BalanceIsLiveLots
  <2>1. Live(lots, asOf) = {}
    BY <1>2, Zenon DEF Live
  <2> QED BY <1>1, <2>1, SumEmpty DEF BalanceIsLiveLots, LiveBalance
<1> QED BY <1>2, <1>4, <1>5, <1>6, Zenon DEF IInv, KeysUsedOnce, GrantDeadlineKept

\* The inductive invariant.
LEMMA Invariance == Spec => []IInv
<1>1. Init => IInv
  BY InitialState
<1>2. IInv /\ [Next]_vars => IInv'
  BY NextIsStep, TypesKept, GrantsKeepLots, Zenon DEF IInv
<1> QED BY <1>1, <1>2, PTL DEF Spec

\* Every state of the wallet has its types: no walk takes a lot or a debt below
\* zero, allocations name lots of the wallet, lots and debts name ledger rows.
THEOREM TypeCorrect == Spec => []TypeOK
<1>1. IInv => TypeOK
  BY DEF IInv
<1> QED BY <1>1, Invariance, PTL

\* Wallet.balance is the balance of the live lots as of the reading it was last
\* computed with: every service that moves a lot calls _sync_balance after it.
THEOREM BalanceCorrect == Spec => []BalanceIsLiveLots
<1>1. Init => BalanceIsLiveLots
  BY InitialState
<1>2. BalanceIsLiveLots /\ IInv /\ [Next]_vars => BalanceIsLiveLots'
  <2> SUFFICES ASSUME BalanceIsLiveLots, IInv, [Next]_vars
               PROVE  balance' = LiveBalance(lots', asOf')
    BY Zenon DEF BalanceIsLiveLots
  <2>1. BalanceStep
    BY NextIsStep, Zenon DEF Step
  <2>2. CASE UNCHANGED <<lots, balance, asOf>>
    BY <2>2, Zenon DEF BalanceIsLiveLots
  <2> QED BY <2>1, <2>2, Zenon DEF BalanceStep
<1> QED BY <1>1, <1>2, Invariance, PTL DEF Spec

\* A lot never goes up and keeps its grant and its deadline.
THEOREM LotsShrink == Spec => LotsOnlyShrink
<1>1. IInv /\ [Next]_vars =>
        [\A i \in DOMAIN lots :
           /\ lots'[i].rem <= lots[i].rem /\ lots'[i].expired >= lots[i].expired
           /\ lots'[i].exp = lots[i].exp /\ lots'[i].grant = lots[i].grant]_vars
  <2>1. IInv => DOMAIN lots = 1..Len(lots)
    BY Indexes DEF IInv
  <2> QED BY <2>1, NextIsStep, LotsKept, Zenon
<1> QED BY <1>1, Invariance, PTL DEF Spec, LotsOnlyShrink

\* Credits die when the grant they came from does, whatever reserves, hands
\* back or restores them in between.
THEOREM DeadlineKept == Spec => []GrantDeadlineKept
<1>1. Init => GrantDeadlineKept
  BY InitialState
<1>2. GrantDeadlineKept /\ IInv /\ [Next]_vars => GrantDeadlineKept'
  <2> SUFFICES ASSUME GrantDeadlineKept, IInv, Step,
                      NEW i \in DOMAIN lots', NEW j \in DOMAIN lots',
                      lots'[i].grant = lots'[j].grant
               PROVE  lots'[i].exp = lots'[j].exp
    BY NextIsStep, Zenon DEF GrantDeadlineKept
  <2>1. DOMAIN lots = 1..Len(lots)
    BY Indexes DEF IInv
  <2>2. \/ lots'[i].exp = lots'[j].exp
        \/ \E m, n \in 1..Len(lots) :
             /\ lots[m].grant = lots[n].grant
             /\ lots[m].exp = lots'[i].exp /\ lots[n].exp = lots'[j].exp
    BY LotsKept, Zenon
  <2> QED BY <2>1, <2>2, Zenon DEF GrantDeadlineKept
<1> QED BY <1>1, <1>2, Invariance, PTL DEF Spec

\* A retried credit() or debit() is not applied twice, however the calls of the
\* wallet are ordered: one ledger row per idempotency key.
THEOREM KeysCorrect == Spec => []KeysUsedOnce
<1>1. Init => KeysUsedOnce
  BY InitialState
<1>2. KeysUsedOnce /\ IInv /\ [Next]_vars => KeysUsedOnce'
  <2> SUFFICES ASSUME KeysUsedOnce, IInv, Step,
                      NEW r \in DOMAIN ledger', NEW s \in DOMAIN ledger',
                      ledger'[r].key = ledger'[s].key, r # s
               PROVE  ledger'[r].key = NoKey
    BY NextIsStep, Zenon DEF KeysUsedOnce
  <2>1. LedgerStep /\ DOMAIN ledger = 1..Len(ledger)
    BY Indexes DEF IInv, Step
  <2>2. /\ r \in 1..Len(ledger) \/ (r = NextRow /\ Len(ledger') = NextRow)
        /\ s \in 1..Len(ledger) \/ (s = NextRow /\ Len(ledger') = NextRow)
    BY LedgerKept, Zenon
  <2>3. CASE r \in 1..Len(ledger) /\ s \in 1..Len(ledger)
    BY <2>1, <2>3, Zenon DEF LedgerStep, KeysUsedOnce
  <2>4. CASE r = NextRow /\ Len(ledger') = NextRow /\ s \in 1..Len(ledger)
    <3>1. Unused(ledger'[r].key)
      BY <2>1, <2>4, Zenon DEF LedgerStep, Fresh
    <3> QED BY <2>1, <2>4, <3>1, Zenon DEF LedgerStep, Unused
  <2>5. CASE s = NextRow /\ Len(ledger') = NextRow /\ r \in 1..Len(ledger)
    <3>1. Unused(ledger'[s].key)
      BY <2>1, <2>5, Zenon DEF LedgerStep, Fresh
    <3> QED BY <2>1, <2>5, <3>1, Zenon DEF LedgerStep, Unused
  <2> QED BY <2>2, <2>3, <2>4, <2>5, Zenon
<1> QED BY <1>1, <1>2, Invariance, PTL DEF Spec

\* A captured hold is billed and final: no retry, sweep, release or re-arm
\* touches its record again.
THEOREM CapturedHoldsFinal == Spec => CapturedIsFinal
<1>1. IInv /\ [Next]_vars =>
        [\A h \in HoldKeys :
           holds[h].status = "captured" => holds'[h] = holds[h]]_vars
  BY NextIsStep, Zenon DEF Step, HoldsStep
<1> QED BY <1>1, Invariance, PTL DEF Spec, CapturedIsFinal

(***************************************************************************)
(* The books balance.  Every action is shown to keep the books (Kept) and  *)
(* to move at most one hold, along an edge of its life, with the charge    *)
(* that belongs to that edge (HoldsMove).  The two need each other: what a *)
(* partial capture hands back is right only if the hold was backed.        *)
(***************************************************************************)
ReservedBy(hd) == IF hd.status = "held" THEN Sum(hd.alloc) ELSE 0

Reservations(hs) == [h \in HoldKeys |-> ReservedBy(hs[h])]

InReserve(hs) == SumFunction(Reservations(hs))

Deltas(rows) == [r \in DOMAIN rows |-> rows[r].delta]

Posted(rows) == SumFunction(Deltas(rows))

\* Conservation, with a lot's two sums taken together.
Balanced == Worth(lots) + Billed(debts) + InReserve(holds) = Posted(ledger)

\* What the wallet is short of, or has too much, stays the same.
Kept ==
  Worth(lots') + Billed(debts') + InReserve(holds') - Posted(ledger')
    = Worth(lots) + Billed(debts) + InReserve(holds) - Posted(ledger)

-------------------------------------------------------------------------------
\* An open hold has the credits it names; one that was waived names none.
Backed(hd) ==
  hd.status = "held" =>
    Sum(hd.alloc) = hd.credits /\ (hd.waived => hd.credits = 0)

HoldsBacked == \A h \in HoldKeys : Backed(holds[h])

RowsKept ==
  /\ DOMAIN ledger \subseteq DOMAIN ledger'
  /\ \A r \in DOMAIN ledger : ledger'[r].hold = ledger[r].hold
                           /\ ledger'[r].delta = ledger[r].delta

\* No row of the ledger that a hold is charged with comes or goes ...
NoCharge ==
  RowsKept /\ \A r \in DOMAIN ledger' \ DOMAIN ledger : ledger'[r].hold = NoHold

\* ... or one does, for what the allocations of h now add up to.
Charged(h) ==
  /\ RowsKept /\ DOMAIN ledger' = DOMAIN ledger \cup {NextRow} /\ NextRow \notin DOMAIN ledger
  /\ ledger'[NextRow].hold = h
  /\ ledger'[NextRow].delta = -Sum(holds'[h].alloc)

\* A hold is armed, given back or captured, and no other hold moves.
HoldMoves(h) ==
  /\ \A k \in HoldKeys \ {h} : holds'[k] = holds[k]
  /\ \/ Reservable(h) /\ holds'[h].status = "held" /\ Backed(holds'[h]) /\ NoCharge
     \/ Open(h) /\ holds'[h].status \in {"released", "expired"}
        /\ DOMAIN holds'[h].alloc = {} /\ NoCharge
     \/ Open(h) /\ holds'[h].status = "captured" /\ Charged(h)

HoldsMove ==
  \/ UNCHANGED holds /\ NoCharge
  \/ \E h \in HoldKeys : HoldMoves(h)

BookStep == Kept /\ HoldsMove

-------------------------------------------------------------------------------
\* The sums of a state that has its types.
LEMMA BooksTyped ==
  ASSUME TypeOK
  PROVE  /\ lots \in Seq(LotWith(0..Never)) /\ (0..Never) \in SUBSET Int
         /\ debts \in Seq(DebtRecords) /\ ledger \in Seq(Row)
         /\ Worth(lots) \in Nat /\ Billed(debts) \in Nat
         /\ InReserve(holds) \in Int /\ Posted(ledger) \in Int
         /\ \A h \in HoldKeys : Sum(holds[h].alloc) \in Nat /\ ReservedBy(holds[h]) \in Nat
<1>1. /\ lots \in Seq(LotWith(0..Never)) /\ (0..Never) \in SUBSET Int
      /\ debts \in Seq(DebtRecords) /\ ledger \in Seq(Row)
  BY Types, Zenon DEF TypeOK
<1>2. Worth(lots) \in Nat
  BY <1>1, WorthSplits, Zenon
<1>3. Billed(debts) \in Nat
  BY <1>1, SettlingBillsWhatItTakes, Zenon
<1>4. ASSUME NEW h \in HoldKeys
      PROVE  Sum(holds[h].alloc) \in Nat /\ ReservedBy(holds[h]) \in Nat
  <2>1. Allocates(lots, holds[h].alloc)
    BY <1>4, AllocTypes, Zenon
  <2>2. Sum(holds[h].alloc) \in Nat
    <3>1. SumFunction(holds[h].alloc) \in Nat
      BY <1>1, <2>1, RefundTakesAll
    <3> QED BY <3>1, Zenon DEF Sum
  <2> QED BY <2>2 DEF ReservedBy
<1>5. InReserve(holds) \in Int
  <2>1. DOMAIN Reservations(holds) = HoldKeys
    BY DEF Reservations
  <2>2. \A h \in HoldKeys : Reservations(holds)[h] \in Int
    BY <1>4 DEF Reservations
  <2>3. SumFunctionOnSet(Reservations(holds), HoldKeys) \in Int
    BY <2>2, HoldKeysAssumption, SumInt
  <2> QED BY <2>1, <2>3, SumOfFunction DEF InReserve
<1>6. Posted(ledger) \in Int
  <2>1. \A r \in DOMAIN ledger : Deltas(ledger)[r] \in Int /\ DOMAIN Deltas(ledger) = DOMAIN ledger
    BY RowFields, Zenon DEF Deltas
  <2>2. DOMAIN Deltas(ledger) = DOMAIN ledger
    BY DEF Deltas
  <2>3. IsFiniteSet(DOMAIN ledger)
    BY <1>1, LotsFinite
  <2>4. SumFunctionOnSet(Deltas(ledger), DOMAIN ledger) \in Int
    BY <2>1, <2>3, SumInt
  <2> QED BY <2>2, <2>4, SumOfFunction DEF Posted
<1> QED BY <1>1, <1>2, <1>3, <1>4, <1>5, <1>6

\* A row that is posted adds its delta.
LEMMA PostedRow ==
  ASSUME NEW rows \in Seq(Row), NEW row \in Row
  PROVE  Posted(Append(rows, row)) = Posted(rows) + row.delta
<1> DEFINE n == Len(rows)  N == 1..n  all == Append(rows, row)
<1>1. n \in Nat /\ DOMAIN rows = N /\ IsFiniteSet(N)
  BY LotsFinite
<1>2. /\ all \in Seq(Row) /\ Len(all) = n + 1 /\ all[n + 1] = row
      /\ \A r \in N : all[r] = rows[r]
  BY AppendProperties
<1>3. DOMAIN all = 1..(n + 1)
  BY <1>2
<1> HIDE DEF n, all
<1>4. 1..(n + 1) = N \cup {n + 1} /\ n + 1 \notin N /\ n + 1 \in 1..(n + 1)
  BY <1>1
<1>5. DOMAIN Deltas(all) = 1..(n + 1) /\ DOMAIN Deltas(rows) = N
  BY <1>1, <1>3 DEF Deltas
<1>6. Deltas(all)[n + 1] = row.delta /\ \A r \in N : Deltas(all)[r] = Deltas(rows)[r]
  BY <1>1, <1>2, <1>3, <1>4 DEF Deltas
<1>7. \A r \in N \cup {n + 1} : Deltas(all)[r] \in Int
  <2>1. \A r \in 1..(n + 1) : all[r] \in Row
    BY <1>2, <1>3
  <2>2. \A r \in 1..(n + 1) : all[r].delta \in Int
    BY <2>1, Zenon DEF Row
  <2> QED BY <1>3, <1>4, <2>2 DEF Deltas
<1> HIDE DEF N
<1>8. SumFunctionOnSet(Deltas(all), N \cup {n + 1})
        = SumFunctionOnSet(Deltas(all), N) + Deltas(all)[n + 1]
  BY <1>1, <1>4, <1>7, SumAdd
<1>9. SumFunctionOnSet(Deltas(all), N) = SumFunctionOnSet(Deltas(rows), N)
  BY <1>1, <1>6, SumEqual
<1> QED BY <1>4, <1>5, <1>6, <1>8, <1>9, SumOfFunction DEF Posted, all

\* A hold that gets another record moves the reserve by the difference.
LEMMA ReserveMoves ==
  ASSUME TypeOK, NEW h \in HoldKeys, NEW new, ReservedBy(new) \in Int,
         holds' = [holds EXCEPT ![h] = new]
  PROVE  /\ InReserve(holds') = InReserve(holds) - ReservedBy(holds[h]) + ReservedBy(new)
         /\ holds'[h] = new /\ \A k \in HoldKeys \ {h} : holds'[k] = holds[k]
<1> DEFINE K == HoldKeys \ {h}
           f == Reservations(holds)
           g == Reservations(holds')
<1>1. DOMAIN holds = HoldKeys
  BY Zenon DEF TypeOK
<1>2. holds'[h] = new /\ \A k \in K : holds'[k] = holds[k]
  BY <1>1
<1>3. /\ DOMAIN f = HoldKeys /\ DOMAIN g = HoldKeys
      /\ \A k \in HoldKeys : f[k] = ReservedBy(holds[k]) /\ g[k] = ReservedBy(holds'[k])
  BY DEF Reservations
<1> HIDE DEF f, g
<1>4. \A k \in HoldKeys : f[k] \in Int /\ g[k] \in Int
  <2>1. \A k \in HoldKeys : ReservedBy(holds[k]) \in Int
    BY BooksTyped
  <2> QED BY <1>2, <1>3, <2>1
<1>5. /\ SumFunctionOnSet(f, HoldKeys) = f[h] + SumFunctionOnSet(f, K)
      /\ SumFunctionOnSet(g, HoldKeys) = g[h] + SumFunctionOnSet(g, K)
  BY <1>4, HoldKeysAssumption, SumRemove
<1>6. IsFiniteSet(K)
  BY HoldKeysAssumption, FS_Subset
<1>7. SumFunctionOnSet(f, K) = SumFunctionOnSet(g, K)
  BY <1>2, <1>3, <1>6, SumEqual
<1>8. SumFunctionOnSet(f, K) \in Int
  BY <1>4, <1>6, SumInt
<1>9. /\ InReserve(holds) = SumFunctionOnSet(f, HoldKeys)
      /\ InReserve(holds') = SumFunctionOnSet(g, HoldKeys)
  BY <1>3, SumOfFunction DEF InReserve, f, g
<1>10. /\ f[h] = ReservedBy(holds[h]) /\ g[h] = ReservedBy(new)
       /\ f[h] \in Int /\ g[h] \in Int
  BY <1>2, <1>3, <1>4
<1>11. InReserve(holds') = InReserve(holds) - ReservedBy(holds[h]) + ReservedBy(new)
  <2> HIDE DEF K
  <2> QED BY <1>5, <1>7, <1>8, <1>9, <1>10
<1> QED BY <1>2, <1>11

\* A new debt has billed nothing yet ...
LEMMA OpeningBillsNothing ==
  ASSUME TypeOK, NEW credits \in Nat
  PROVE  Billed(OpenDebt(debts, credits, NextRow)) = Billed(debts)
<1> DEFINE new == [out |-> credits, init |-> credits, billed |-> 0, row |-> NextRow]
           n == Len(debts)  N == 1..n  all == Append(debts, new)
<1>1. n \in Nat /\ DOMAIN debts = N /\ IsFiniteSet(N) /\ debts \in Seq(DebtRecords)
  BY BooksTyped, LotsFinite, Zenon
<1>2. new \in DebtRecords /\ new.billed = 0
  <2>1. 0 \in Nat /\ NextRow \in Nat
    BY Indexes
  <2> QED BY <2>1, Zenon DEF DebtRecords
<1> HIDE DEF new
<1>3. /\ all \in Seq(DebtRecords) /\ Len(all) = n + 1 /\ all[n + 1] = new
      /\ \A d \in N : all[d] = debts[d]
  BY <1>1, <1>2, AppendProperties
<1>4. DOMAIN all = 1..(n + 1)
  BY <1>3
<1> HIDE DEF n, all
<1>5. 1..(n + 1) = N \cup {n + 1} /\ n + 1 \notin N /\ n + 1 \in 1..(n + 1)
  BY <1>1
<1>6. DOMAIN Billings(all) = 1..(n + 1) /\ DOMAIN Billings(debts) = N
  BY <1>1, <1>4 DEF Billings
<1>7. Billings(all)[n + 1] = 0 /\ \A d \in N : Billings(all)[d] = Billings(debts)[d]
  BY <1>1, <1>2, <1>3, <1>4, <1>5 DEF Billings
<1>8. \A d \in N \cup {n + 1} : Billings(all)[d] \in Int
  <2>1. \A d \in DOMAIN all : all[d].billed \in Nat
    BY <1>3, DebtFields, Zenon
  <2> QED BY <1>4, <1>5, <2>1 DEF Billings
<1> HIDE DEF N
<1>9. SumFunctionOnSet(Billings(all), N \cup {n + 1}) = SumFunctionOnSet(Billings(all), N) + 0
  BY <1>1, <1>5, <1>7, <1>8, SumAdd
<1>10. SumFunctionOnSet(Billings(all), N) = SumFunctionOnSet(Billings(debts), N)
  BY <1>1, <1>7, SumEqual
<1>11. SumFunctionOnSet(Billings(debts), N) \in Int
  BY <1>1, <1>7, <1>8, SumInt
<1>12. Billed(all) = Billed(debts)
  <2>1. \A ds : Billed(ds) = SumFunctionOnSet(Billings(ds), DOMAIN Billings(ds))
    BY SumOfFunction, Zenon DEF Billed
  <2>2. /\ Billed(all) = SumFunctionOnSet(Billings(all), N \cup {n + 1})
        /\ Billed(debts) = SumFunctionOnSet(Billings(debts), N)
    BY <1>5, <1>6, <2>1, Zenon
  <2> QED BY <1>9, <1>10, <1>11, <2>2
<1> QED BY <1>12, Zenon DEF OpenDebt, all, new

\* ... and one that is closed has billed what it had.
LEMMA ClosingBillsNothing ==
  ASSUME TypeOK, NEW r
  PROVE  Billed(CancelDebts(r)) = Billed(debts)
<1> DEFINE new == CancelDebts(r)
<1>1. DOMAIN new = DOMAIN debts
  BY DEF CancelDebts
<1>2. ASSUME NEW d \in DOMAIN debts PROVE new[d].billed = debts[d].billed
  <2>1. new[d] = debts[d] \/ new[d] = [debts[d] EXCEPT !.out = 0]
    BY Zenon DEF CancelDebts
  <2>2. debts[d] \in DebtRecords
    BY BooksTyped, DebtFields, Zenon
  <2> HIDE DEF new
  <2> QED BY <2>1, <2>2, Zenon DEF DebtRecords
<1> HIDE DEF new
<1>3. /\ DOMAIN Billings(new) = DOMAIN debts /\ DOMAIN Billings(debts) = DOMAIN debts
      /\ \A d \in DOMAIN debts : Billings(new)[d] = Billings(debts)[d]
  BY <1>1, <1>2 DEF Billings
<1>4. IsFiniteSet(DOMAIN debts)
  BY BooksTyped, LotsFinite, Zenon
<1>5. SumFunctionOnSet(Billings(new), DOMAIN debts) = SumFunctionOnSet(Billings(debts), DOMAIN debts)
  BY <1>3, <1>4, SumEqual
<1> QED BY <1>3, <1>5, SumOfFunction DEF Billed, new

\* A row that is marked keeps its delta.
LEMMA MarkingPostsNothing ==
  ASSUME TypeOK, NEW r \in DOMAIN ledger
  PROVE  /\ Posted(Reversed(r)) = Posted(ledger)
         /\ DOMAIN Reversed(r) = DOMAIN ledger
         /\ \A s \in DOMAIN ledger : /\ Reversed(r)[s].delta = ledger[s].delta
                                     /\ Reversed(r)[s].hold = ledger[s].hold
<1> DEFINE new == Reversed(r)
<1>1. DOMAIN new = DOMAIN ledger
  BY DEF Reversed
<1>2. ASSUME NEW s \in DOMAIN ledger
      PROVE  new[s].delta = ledger[s].delta /\ new[s].hold = ledger[s].hold
  <2>1. new[s] = ledger[s] \/ new[s] = [ledger[s] EXCEPT !.reversed = TRUE]
    BY Zenon DEF Reversed
  <2>2. ledger[s] \in Row
    BY RowFields, Zenon
  <2> HIDE DEF new
  <2> QED BY <2>1, <2>2, Zenon DEF Row
<1> HIDE DEF new
<1>3. /\ DOMAIN Deltas(new) = DOMAIN ledger /\ DOMAIN Deltas(ledger) = DOMAIN ledger
      /\ \A s \in DOMAIN ledger : Deltas(new)[s] = Deltas(ledger)[s]
  BY <1>1, <1>2 DEF Deltas
<1>4. IsFiniteSet(DOMAIN ledger)
  BY BooksTyped, LotsFinite, Zenon
<1>5. SumFunctionOnSet(Deltas(new), DOMAIN ledger) = SumFunctionOnSet(Deltas(ledger), DOMAIN ledger)
  BY <1>3, <1>4, SumEqual
<1> QED BY <1>1, <1>2, <1>3, <1>5, SumOfFunction DEF Posted, new

-------------------------------------------------------------------------------
(* What the pieces the actions are made of do to the books.                *)

\* A call that posts nothing.
LEMMA NothingPosted ==
  ASSUME TypeOK, UNCHANGED ledger
  PROVE  NoCharge /\ Posted(ledger') = Posted(ledger)
<1>1. ledger' = ledger
  OBVIOUS
<1>2. RowsKept /\ DOMAIN ledger' \ DOMAIN ledger = {}
  BY <1>1, Zenon DEF RowsKept
<1> QED BY <1>1, <1>2, Zenon DEF NoCharge

\* A call that posts one row.
LEMMA RowPosted ==
  ASSUME TypeOK, NEW row \in Row, ledger' = Append(ledger, row)
  PROVE  /\ Posted(ledger') = Posted(ledger) + row.delta
         /\ RowsKept /\ DOMAIN ledger' = DOMAIN ledger \cup {NextRow}
         /\ NextRow \notin DOMAIN ledger /\ ledger'[NextRow] = row
         /\ row.hold = NoHold => NoCharge
<1>1. ledger \in Seq(Row)
  BY Zenon DEF TypeOK
<1>2. Posted(ledger') = Posted(ledger) + row.delta
  BY <1>1, PostedRow, Zenon
<1>3. /\ ledger' \in Seq(Row) /\ Len(ledger') = NextRow /\ ledger'[NextRow] = row
      /\ \A r \in 1..Len(ledger) : ledger'[r] = ledger[r]
  BY <1>1, AppendProperties DEF NextRow
<1>4. /\ DOMAIN ledger = 1..Len(ledger) /\ NextRow \notin DOMAIN ledger
      /\ DOMAIN ledger' = DOMAIN ledger \cup {NextRow}
  <2>1. Len(ledger) \in Nat /\ NextRow = Len(ledger) + 1 /\ DOMAIN ledger = 1..Len(ledger)
    BY Indexes, Zenon
  <2>2. DOMAIN ledger' = 1..NextRow
    BY <1>3
  <2> HIDE DEF NextRow
  <2> QED BY <2>1, <2>2
<1>5. RowsKept
  BY <1>3, <1>4, Zenon DEF RowsKept
<1>6. ASSUME row.hold = NoHold PROVE NoCharge
  BY <1>3, <1>4, <1>5, <1>6, Zenon DEF NoCharge
<1> QED BY <1>2, <1>3, <1>4, <1>5, <1>6, Zenon

\* What is swept keeps its worth; what is then spent leaves it.
LEMMA SpendMoves ==
  ASSUME TypeOK, NEW now, NEW n \in Nat,
         n <= LiveBalance(ExpireDueLots(lots, now), now)
  PROVE  LET ls == ExpireDueLots(lots, now)
             take == Consumption(ls, n, now)
         IN  /\ Worth(ls) = Worth(lots)
             /\ Worth(ConsumeLots(ls, n, now)) = Worth(lots) - n
             /\ Allocates(lots, take) /\ IsFiniteSet(DOMAIN take)
             /\ SumFunction(take) = n /\ Sum(Positive(take)) = n
<1> DEFINE E == 0..Never
           ls == ExpireDueLots(lots, now)
           take == Consumption(ls, n, now)
<1>1. lots \in Seq(LotWith(E)) /\ ls \in Seq(LotWith(E)) /\ E \in SUBSET Int
  BY Types, Swept, Zenon DEF TypeOK
<1>2. Worth(ls) = Worth(lots)
  BY <1>1, ExpiryKeepsWorth, Zenon
<1>3. Allocates(lots, take)
  BY ConsumptionAllocates, Zenon
<1>4. SumFunction(take) = n /\ Worth(ConsumeLots(ls, n, now)) = Worth(ls) - n
  <2>1. n <= LiveBalance(ls, now)
    OBVIOUS
  <2> HIDE DEF E, ls
  <2> QED BY <1>1, <2>1, SpendTakesAll
<1> HIDE DEF E, take
<1>5. IsFiniteSet(DOMAIN take) /\ \A i \in DOMAIN take : take[i] \in Nat
  BY <1>1, <1>3, LotsFinite DEF Allocates
<1>6. SumFunction(Positive(take)) = n
  BY <1>4, <1>5, PositiveSum
<1> QED BY <1>2, <1>3, <1>4, <1>5, <1>6, Zenon DEF Sum, take

\* What is swept and then handed back.
LEMMA HandBackMoves ==
  ASSUME TypeOK, NEW now, NEW back, Allocates(lots, back)
  PROVE  Worth(HandBack(ExpireDueLots(lots, now), back, now))
           = Worth(lots) + SumFunction(back)
<1> DEFINE E == 0..Never
           ls == ExpireDueLots(lots, now)
<1>1. /\ lots \in Seq(LotWith(E)) /\ ls \in Seq(LotWith(E)) /\ E \in SUBSET Int
      /\ DOMAIN ls = DOMAIN lots
  BY Types, Swept, Zenon DEF TypeOK
<1>2. Worth(ls) = Worth(lots)
  BY <1>1, ExpiryKeepsWorth, Zenon
<1> HIDE DEF E, ls
<1>3. Allocates(ls, back)
  BY <1>1, Zenon DEF Allocates
<1>4. Worth(ExpireDueLots(ls \o HoldReleaseLots(ls, back), now)) = Worth(ls) + SumFunction(back)
  BY <1>1, <1>3, HandingBackAddsWorth, Zenon
<1> QED BY <1>2, <1>4, Zenon DEF HandBack, ls

\* A hold that is resolved leaves the reserve with all its allocations.
LEMMA ResolvingMoves ==
  ASSUME TypeOK, NEW h \in HoldKeys, Open(h),
         NEW st \in {"captured", "released", "expired"}, NEW alloc,
         holds' = [holds EXCEPT ![h].status = st, ![h].alloc = alloc]
  PROVE  /\ InReserve(holds') = InReserve(holds) - Sum(holds[h].alloc)
         /\ holds'[h].status = st /\ holds'[h].alloc = alloc
         /\ \A k \in HoldKeys \ {h} : holds'[k] = holds[k]
<1>1. HoldRecord(holds[h]) /\ h \in DOMAIN holds
  BY AllocTypes, Zenon DEF TypeOK
<1>2. PICK new : /\ holds' = [holds EXCEPT ![h] = new]
                 /\ new.status = st /\ new.alloc = alloc
  <2> DEFINE hd == holds[h]
             rec == [[hd EXCEPT !.status = st] EXCEPT !.alloc = alloc]
  <2>1. DOMAIN hd = {"status", "credits", "alloc", "exp", "waived"}
    BY <1>1, Zenon DEF HoldRecord
  <2>2. holds' = [holds EXCEPT ![h] = rec]
    BY <1>1, Zenon
  <2> HIDE DEF hd
  <2>3. rec.status = st /\ rec.alloc = alloc
    BY <2>1, Zenon
  <2> HIDE DEF rec
  <2> QED BY <2>2, <2>3, Zenon
<1>3. ReservedBy(new) = 0
  BY <1>2 DEF ReservedBy
<1>4. ReservedBy(new) \in Int
  BY <1>3
<1>5. /\ InReserve(holds') = InReserve(holds) - ReservedBy(holds[h]) + 0
      /\ holds'[h] = new /\ \A k \in HoldKeys \ {h} : holds'[k] = holds[k]
  BY <1>2, <1>3, <1>4, ReserveMoves, Zenon
<1>6. ReservedBy(holds[h]) = Sum(holds[h].alloc)
  BY Zenon DEF ReservedBy, Open
<1>7. InReserve(holds) \in Int /\ Sum(holds[h].alloc) \in Nat
  BY BooksTyped
<1>8. InReserve(holds') = InReserve(holds) - Sum(holds[h].alloc)
  BY <1>5, <1>6, <1>7
<1> QED BY <1>2, <1>5, <1>8, Zenon

\* The charge of a hold: one row, for what its allocations now add up to.
LEMMA ChargeMoves ==
  ASSUME TypeOK, NEW h \in HoldKeys, Open(h), NEW actual \in Nat,
         NEW alloc, Sum(alloc) = actual, ChargeHold(h, actual, alloc)
  PROVE  /\ InReserve(holds') = InReserve(holds) - Sum(holds[h].alloc)
         /\ Posted(ledger') = Posted(ledger) - actual
         /\ HoldsMove
<1> DEFINE row == [Entry("capture", -actual) EXCEPT !.hold = h]
<1>1. /\ InReserve(holds') = InReserve(holds) - Sum(holds[h].alloc)
      /\ holds'[h].status = "captured" /\ holds'[h].alloc = alloc
      /\ \A k \in HoldKeys \ {h} : holds'[k] = holds[k]
  <2>1. "captured" \in {"captured", "released", "expired"}
    OBVIOUS
  <2>2. holds' = [holds EXCEPT ![h].status = "captured", ![h].alloc = alloc]
    BY Zenon DEF ChargeHold
  <2> QED BY <2>1, <2>2, ResolvingMoves
<1>2. row \in Row /\ row.delta = -actual /\ row.hold = h
  <2>1. "capture" \in RowType /\ -actual \in Int /\ 0 \in Nat
    BY DEF RowType
  <2>2. Entry("capture", -actual) \in Row
    BY <2>1, Zenon DEF Entry, Row
  <2> QED BY <2>2, Zenon DEF Row, Entry
<1>3. ledger' = Append(ledger, row)
  BY Zenon DEF Post, ChargeHold
<1> HIDE DEF row
<1>4. /\ Posted(ledger') = Posted(ledger) + row.delta
      /\ RowsKept /\ DOMAIN ledger' = DOMAIN ledger \cup {NextRow}
      /\ NextRow \notin DOMAIN ledger /\ ledger'[NextRow] = row
  BY <1>2, <1>3, RowPosted, Zenon
<1>5. Posted(ledger') = Posted(ledger) - actual
  <2>1. Posted(ledger) \in Int
    BY BooksTyped
  <2> QED BY <1>2, <1>4, <2>1
<1>6. Charged(h)
  BY <1>1, <1>2, <1>4, Zenon DEF Charged
<1>7. HoldMoves(h)
  BY <1>1, <1>6, Zenon DEF HoldMoves
<1> QED BY <1>1, <1>5, <1>7, Zenon DEF HoldsMove

\* What is added to a reservation adds to its sum.
LEMMA ExtraAdds ==
  ASSUME TypeOK, NEW alloc, Allocates(lots, alloc), NEW take, Allocates(lots, take)
  PROVE  Sum(PlusExtra(alloc, take)) = SumFunction(alloc) + SumFunction(take)
<1> DEFINE D == DOMAIN alloc \cup DOMAIN take
           a == [i \in D |-> IF i \in DOMAIN alloc THEN alloc[i] ELSE 0]
           t == [i \in D |-> IF i \in DOMAIN take THEN take[i] ELSE 0]
           both == [i \in D |-> (IF i \in DOMAIN alloc THEN alloc[i] ELSE 0)
                                + (IF i \in DOMAIN take THEN take[i] ELSE 0)]
<1>1. D \subseteq DOMAIN lots /\ DOMAIN alloc \in SUBSET D /\ DOMAIN take \in SUBSET D
  BY Zenon DEF Allocates
<1>2. IsFiniteSet(D)
  BY <1>1, BooksTyped, LotsFinite
<1>3. \A i \in D : a[i] \in Nat /\ t[i] \in Nat /\ both[i] = a[i] + t[i]
  BY DEF Allocates
<1>4. /\ \A i \in DOMAIN alloc : a[i] = alloc[i]
      /\ \A i \in D \ DOMAIN alloc : a[i] = 0
      /\ \A i \in DOMAIN take : t[i] = take[i]
      /\ \A i \in D \ DOMAIN take : t[i] = 0
      /\ DOMAIN both = D
  OBVIOUS
<1>5. PlusExtra(alloc, take) = Positive(both)
  BY Zenon DEF PlusExtra
<1> HIDE DEF D, a, t, both
<1>6. \A i \in D : a[i] \in Int /\ t[i] \in Int /\ both[i] \in Nat
  BY <1>3
<1>7. SumFunctionOnSet(both, D) = SumFunctionOnSet(a, D) + SumFunctionOnSet(t, D)
  BY <1>2, <1>3, <1>6, SumPlus
<1>8. /\ SumFunctionOnSet(a, D) = SumFunctionOnSet(a, DOMAIN alloc)
      /\ SumFunctionOnSet(t, D) = SumFunctionOnSet(t, DOMAIN take)
  BY <1>1, <1>2, <1>4, <1>6, SumSupport
<1>9. IsFiniteSet(DOMAIN alloc) /\ IsFiniteSet(DOMAIN take)
  BY <1>1, <1>2, FS_Subset
<1>10. /\ SumFunctionOnSet(a, DOMAIN alloc) = SumFunctionOnSet(alloc, DOMAIN alloc)
       /\ SumFunctionOnSet(t, DOMAIN take) = SumFunctionOnSet(take, DOMAIN take)
  BY <1>4, <1>9, SumEqual
<1>11. SumFunction(Positive(both)) = SumFunction(both)
  BY <1>2, <1>4, <1>6, PositiveSum
<1>12. /\ SumFunction(both) = SumFunctionOnSet(both, D)
       /\ SumFunction(alloc) = SumFunctionOnSet(alloc, DOMAIN alloc)
       /\ SumFunction(take) = SumFunctionOnSet(take, DOMAIN take)
  BY <1>4, SumOfFunction, Zenon
<1> QED BY <1>5, <1>7, <1>8, <1>10, <1>11, <1>12, Zenon DEF Sum

-------------------------------------------------------------------------------
(* One lemma per action: it keeps the books.                               *)

\* The clock, the list of the sweep and the cache are not in the books.
LEMMA NothingMoves ==
  ASSUME TypeOK, UNCHANGED <<lots, holds, debts, ledger>>
  PROVE  BookStep
<1>1. lots' = lots /\ holds' = holds /\ debts' = debts /\ ledger' = ledger
  OBVIOUS
<1>2. Kept
  BY <1>1, Zenon DEF Kept
<1>3. NoCharge
  BY <1>1, NothingPosted, Zenon
<1> QED BY <1>1, <1>2, <1>3, Zenon DEF BookStep, HoldsMove

\* expire_credit_lots(): what leaves the lots is in their EXPIRATION rows.
LEMMA ExpireCreditLotsBooks ==
  ASSUME TypeOK, ExpireCreditLots
  PROVE  BookStep
<1>1. /\ lots' = ExpireDueLots(lots, clock)
      /\ holds' = holds /\ debts' = debts /\ ledger' = ledger
  BY Zenon DEF ExpireCreditLots
<1>2. Worth(lots') = Worth(lots)
  BY <1>1, BooksTyped, ExpiryKeepsWorth, Zenon
<1>3. Kept
  BY <1>1, <1>2, Zenon DEF Kept
<1>4. NoCharge
  BY <1>1, NothingPosted, Zenon
<1> QED BY <1>1, <1>3, <1>4, Zenon DEF BookStep, HoldsMove

\* credit(): the lot brings what the grant row says, and what its debts take
\* of it is billed.
LEMMA CreditBooks ==
  ASSUME TypeOK, NEW key \in Keys \cup {NoKey}, NEW c \in Amounts,
         NEW exp \in Deadlines, NEW settle \in BOOLEAN,
         Credit(key, c, exp, settle)
  PROVE  BookStep
<1> DEFINE E == 0..Never
           l == [rem |-> c, exp |-> exp, grant |-> NextRow, expired |-> 0]
           granted(now) == Append(ExpireDueLots(lots, now), l)
           row == [Entry("grant", c) EXCEPT !.key = key]
<1>1. PICK now \in Readings :
        /\ Post(row)
        /\ lots' = IF settle THEN LotsAfterSettling(granted(now), debts, now)
                             ELSE granted(now)
        /\ debts' = IF settle THEN SettleDebts(granted(now), debts, now) ELSE debts
        /\ UNCHANGED holds
  BY Zenon DEF Credit
<1>2. l \in LotWith(E) /\ l.rem = c /\ l.expired = 0
  <2>1. c \in Nat /\ exp \in E /\ NextRow \in Nat /\ 0 \in Nat
    BY Types, Indexes
  <2> HIDE DEF E
  <2> QED BY <2>1, Zenon DEF LotWith
<1> HIDE DEF l
<1>3. PICK all : all = granted(now)
  OBVIOUS
<1>4. all \in Seq(LotWith(E)) /\ Worth(all) = Worth(lots) + c
  <2> DEFINE swept == ExpireDueLots(lots, now)
  <2>1. swept \in Seq(LotWith(E)) /\ Worth(swept) = Worth(lots)
    BY Swept, BooksTyped, ExpiryKeepsWorth, Zenon
  <2>2. all = Append(swept, l)
    BY <1>3, Zenon
  <2> HIDE DEF swept, E
  <2>3. Append(swept, l) \in Seq(LotWith(E))
    BY <1>2, <2>1, AppendProperties
  <2>4. Worth(Append(swept, l)) = Worth(swept) + l.rem
    BY <1>2, <2>1, AppendAddsWorth, Zenon
  <2> QED BY <1>2, <2>1, <2>2, <2>3, <2>4, Zenon
<1>5. /\ lots' = IF settle THEN LotsAfterSettling(all, debts, now) ELSE all
      /\ debts' = IF settle THEN SettleDebts(all, debts, now) ELSE debts
  BY <1>1, <1>3, Zenon
<1> HIDE DEF granted
<1>6. c \in Nat /\ Worth(lots) \in Nat /\ Billed(debts) \in Nat
      /\ InReserve(holds) \in Int /\ Posted(ledger) \in Int
      /\ debts \in Seq(DebtRecords) /\ E \in SUBSET Int
  BY Types, BooksTyped
<1> HIDE DEF E
<1>7. /\ Worth(lots') \in Int /\ Billed(debts') \in Int
      /\ Worth(lots') + Billed(debts') = Worth(lots) + c + Billed(debts)
  <2>1. CASE settle
    <3>1. lots' = LotsAfterSettling(all, debts, now) /\ debts' = SettleDebts(all, debts, now)
      BY <1>5, <2>1, Zenon
    <3>2. /\ Worth(LotsAfterSettling(all, debts, now)) \in Int
          /\ Billed(SettleDebts(all, debts, now)) \in Int
          /\ Worth(LotsAfterSettling(all, debts, now)) + Billed(SettleDebts(all, debts, now))
               = Worth(all) + Billed(debts)
      BY <1>4, <1>6, SettlingBillsWhatItTakes, Zenon
    <3> QED BY <1>4, <3>1, <3>2, Zenon
  <2>2. CASE ~settle
    <3>1. lots' = all /\ debts' = debts
      BY <1>5, <2>2, Zenon
    <3> QED BY <1>4, <1>6, <3>1
  <2> QED BY <2>1, <2>2, Zenon
<1>8. row \in Row /\ row.delta = c /\ row.hold = NoHold
  <2>1. "grant" \in RowType /\ c \in Int /\ 0 \in Nat
    BY <1>6 DEF RowType
  <2>2. Entry("grant", c) \in Row
    BY <2>1, Zenon DEF Entry, Row
  <2> QED BY <2>2, Zenon DEF Row, Entry
<1>9. ledger' = Append(ledger, row)
  BY <1>1, Zenon DEF Post
<1> HIDE DEF row
<1>10. Posted(ledger') = Posted(ledger) + c /\ NoCharge
  BY <1>8, <1>9, RowPosted, Zenon
<1>11. InReserve(holds') = InReserve(holds)
  BY <1>1, Zenon
<1>12. Kept
  BY <1>6, <1>7, <1>10, <1>11 DEF Kept
<1> QED BY <1>1, <1>10, <1>12, Zenon DEF BookStep, HoldsMove

\* debit(): the row says what left the lots; the rest is a debt that has
\* collected nothing yet.
LEMMA DebitBooks ==
  ASSUME TypeOK, NEW key \in Keys \cup {NoKey}, NEW c \in Amounts,
         NEW partial \in BOOLEAN, Debit(key, c, partial)
  PROVE  BookStep
<1> DEFINE there(now) == LiveBalance(ExpireDueLots(lots, now), now)
           charged(now) == IF partial THEN Clip(c, there(now)) ELSE c
           row(n) == [Entry("charge", -n) EXCEPT !.key = key, !.requested = c]
<1>1. PICK now \in Readings :
        /\ charged(now) <= there(now)
        /\ Post(row(charged(now)))
        /\ lots' = ConsumeLots(ExpireDueLots(lots, now), charged(now), now)
        /\ debts' = IF charged(now) < c THEN OpenDebt(debts, c - charged(now), NextRow)
                                        ELSE debts
        /\ UNCHANGED holds
  BY Zenon DEF Debit
<1>2. PICK n : n = charged(now)
  OBVIOUS
<1>3. n \in Nat /\ n <= c /\ c \in Nat
  <2>1. c \in Nat /\ there(now) \in Nat
    BY Types, Swept
  <2> HIDE DEF there
  <2>2. Clip(c, there(now)) \in 0..there(now) /\ Clip(c, there(now)) <= c
    BY <2>1, ClipBounds
  <2> QED BY <1>2, <2>1, <2>2
<1>4. /\ n <= LiveBalance(ExpireDueLots(lots, now), now)
      /\ ledger' = Append(ledger, row(n))
      /\ lots' = ConsumeLots(ExpireDueLots(lots, now), n, now)
      /\ debts' = IF n < c THEN OpenDebt(debts, c - n, NextRow) ELSE debts
  BY <1>1, <1>2, Zenon DEF Post
<1> HIDE DEF charged, there
<1>5. Worth(lots') = Worth(lots) - n
  BY <1>3, <1>4, SpendMoves, Zenon
<1>6. Billed(debts') = Billed(debts)
  <2>1. CASE n < c
    <3>1. c - n \in Nat
      BY <1>3, <2>1
    <3> QED BY <1>4, <2>1, <3>1, OpeningBillsNothing, Zenon
  <2>2. CASE ~(n < c)
    BY <1>4, <2>2, Zenon
  <2> QED BY <2>1, <2>2, Zenon
<1>7. row(n) \in Row /\ row(n).delta = -n /\ row(n).hold = NoHold
  <2>1. "charge" \in RowType /\ -n \in Int /\ 0 \in Nat
    BY <1>3 DEF RowType
  <2>2. Entry("charge", -n) \in Row
    BY <2>1, Zenon DEF Entry, Row
  <2> QED BY <1>3, <2>2, Zenon DEF Row, Entry
<1> HIDE DEF row
<1>8. Posted(ledger') = Posted(ledger) + (-n) /\ NoCharge
  BY <1>4, <1>7, RowPosted, Zenon
<1>9. InReserve(holds') = InReserve(holds)
  BY <1>1, Zenon
<1>10. Worth(lots) \in Nat /\ Billed(debts) \in Nat
       /\ InReserve(holds) \in Int /\ Posted(ledger) \in Int
  BY BooksTyped
<1>11. Kept
  BY <1>3, <1>5, <1>6, <1>8, <1>9, <1>10 DEF Kept
<1> QED BY <1>1, <1>8, <1>11, Zenon DEF BookStep, HoldsMove

\* _meter_only_debit(): a row of nothing.
LEMMA MeterOnlyDebitBooks ==
  ASSUME TypeOK, NEW key \in Keys \cup {NoKey}, MeterOnlyDebit(key)
  PROVE  BookStep
<1> DEFINE row == [Entry("charge", 0) EXCEPT !.key = key]
<1>1. PICK now \in Readings :
        /\ ledger' = Append(ledger, row)
        /\ lots' = ExpireDueLots(lots, now)
        /\ UNCHANGED <<holds, debts>>
  BY Zenon DEF MeterOnlyDebit, Post
<1>2. Worth(lots') = Worth(lots)
  BY <1>1, BooksTyped, ExpiryKeepsWorth, Zenon
<1>3. row \in Row /\ row.delta = 0 /\ row.hold = NoHold
  <2>1. "charge" \in RowType /\ 0 \in Int /\ 0 \in Nat
    BY DEF RowType
  <2>2. Entry("charge", 0) \in Row
    BY <2>1, Zenon DEF Entry, Row
  <2> QED BY <2>2, Zenon DEF Row, Entry
<1> HIDE DEF row
<1>4. Posted(ledger') = Posted(ledger) + 0 /\ NoCharge
  BY <1>1, <1>3, RowPosted, Zenon
<1>5. InReserve(holds') = InReserve(holds) /\ Billed(debts') = Billed(debts)
  BY <1>1, Zenon
<1>6. Worth(lots) \in Nat /\ Billed(debts) \in Nat
      /\ InReserve(holds) \in Int /\ Posted(ledger) \in Int
  BY BooksTyped
<1>7. Kept
  BY <1>2, <1>4, <1>5, <1>6 DEF Kept
<1> QED BY <1>1, <1>4, <1>7, Zenon DEF BookStep, HoldsMove

\* hold(): what leaves the lots is in the reserve, and backs the hold.
LEMMA HoldBooks ==
  ASSUME TypeOK, NEW h \in HoldKeys, NEW c \in Amounts, NEW exp \in Deadlines,
         NEW waived \in Waivers, Hold(h, c, exp, waived)
  PROVE  BookStep
<1> DEFINE take(n, now) == Consumption(ExpireDueLots(lots, now), n, now)
           rec(n, now) == [status |-> "held", credits |-> n, exp |-> exp,
                           alloc |-> Positive(take(n, now)), waived |-> waived]
<1>1. PICK n : n = IF waived THEN 0 ELSE c
  OBVIOUS
<1>2. PICK now \in Readings :
        /\ Reservable(h)
        /\ n <= LiveBalance(ExpireDueLots(lots, now), now)
        /\ lots' = ConsumeLots(ExpireDueLots(lots, now), n, now)
        /\ holds' = [holds EXCEPT ![h] = rec(n, now)]
        /\ UNCHANGED <<debts, ledger>>
  BY <1>1, Zenon DEF Hold
<1>3. n \in Nat /\ (waived => n = 0) /\ waived \in BOOLEAN
  BY <1>1, Types
<1>4. Worth(lots') = Worth(lots) - n /\ Sum(Positive(take(n, now))) = n
  BY <1>2, <1>3, SpendMoves, Zenon
<1> HIDE DEF take
<1>5. PICK new : /\ holds' = [holds EXCEPT ![h] = new]
                 /\ new.status = "held" /\ new.credits = n /\ new.waived = waived
                 /\ new.alloc = Positive(take(n, now))
  <2>1. /\ rec(n, now).status = "held" /\ rec(n, now).credits = n
        /\ rec(n, now).waived = waived /\ rec(n, now).alloc = Positive(take(n, now))
    BY Zenon
  <2> HIDE DEF rec
  <2> QED BY <1>2, <2>1, Zenon
<1>6. ReservedBy(new) = n /\ Backed(new)
  BY <1>3, <1>4, <1>5 DEF ReservedBy, Backed
<1>7. /\ InReserve(holds') = InReserve(holds) - ReservedBy(holds[h]) + ReservedBy(new)
      /\ holds'[h] = new /\ \A k \in HoldKeys \ {h} : holds'[k] = holds[k]
  <2>1. ReservedBy(new) \in Int
    BY <1>3, <1>6
  <2> QED BY <1>5, <2>1, ReserveMoves, Zenon
<1>8. ReservedBy(holds[h]) = 0
  BY <1>2 DEF ReservedBy, Reservable
<1>9. NoCharge /\ Posted(ledger') = Posted(ledger) /\ Billed(debts') = Billed(debts)
  BY <1>2, NothingPosted, Zenon
<1>10. Worth(lots) \in Nat /\ Billed(debts) \in Nat
       /\ InReserve(holds) \in Int /\ Posted(ledger) \in Int
  BY BooksTyped
<1>11. Kept
  BY <1>3, <1>4, <1>6, <1>7, <1>8, <1>9, <1>10 DEF Kept
<1>12. HoldMoves(h)
  BY <1>2, <1>5, <1>6, <1>7, <1>9, Zenon DEF HoldMoves
<1> QED BY <1>11, <1>12, Zenon DEF BookStep, HoldsMove

\* capture() within the reservation: the rest is handed back, the charge is
\* what the remaining allocations add up to.
LEMMA CaptureWithinBooks ==
  ASSUME TypeOK, HoldsBacked, NEW h \in HoldKeys, NEW actual \in Amounts \cup {0},
         CaptureWithin(h, actual)
  PROVE  BookStep
<1> DEFINE refund(now) == Refund(ExpireDueLots(lots, now), holds[h].alloc,
                                 holds[h].credits - actual)
<1>1. PICK now \in Readings :
        /\ Open(h) /\ actual <= holds[h].credits
        /\ lots' = HandBack(ExpireDueLots(lots, now), refund(now), now)
        /\ ChargeHold(h, actual, LessBack(holds[h].alloc, refund(now)))
        /\ UNCHANGED debts
  BY Zenon DEF CaptureWithin
<1>2. PICK alloc, credits, back :
        alloc = holds[h].alloc /\ credits = holds[h].credits /\ back = refund(now)
  BY Zenon
<1>3. back = Refund(ExpireDueLots(lots, now), alloc, credits - actual)
  BY <1>2, Zenon
<1> HIDE DEF refund
<1>4. /\ actual <= credits
      /\ lots' = HandBack(ExpireDueLots(lots, now), back, now)
      /\ ChargeHold(h, actual, LessBack(alloc, back))
  BY <1>1, <1>2, Zenon
<1>5. /\ Allocates(lots, alloc) /\ credits \in Nat /\ actual \in Nat
      /\ SumFunction(alloc) = credits
  <2>1. Allocates(lots, alloc) /\ credits \in Nat
    BY <1>2, AllocTypes, Zenon
  <2>2. actual \in Nat
    BY Types
  <2>3. SumFunction(alloc) = credits
    BY <1>1, <1>2, Zenon DEF HoldsBacked, Backed, Open, Sum
  <2> QED BY <2>1, <2>2, <2>3
<1>6. credits - actual \in Nat /\ credits - actual <= credits
  BY <1>4, <1>5
<1>7. PICK rest : rest = credits - actual
  OBVIOUS
<1>8. /\ Allocates(ExpireDueLots(lots, now), alloc)
      /\ ExpireDueLots(lots, now) \in Seq(LotWith(0..Never)) /\ (0..Never) \in SUBSET Int
      /\ IsFiniteSet(DOMAIN alloc)
  <2>1. /\ ExpireDueLots(lots, now) \in Seq(LotWith(0..Never)) /\ (0..Never) \in SUBSET Int
        /\ DOMAIN ExpireDueLots(lots, now) = DOMAIN lots
    BY Swept, Types, Zenon
  <2>2. Allocates(ExpireDueLots(lots, now), alloc)
    BY <1>5, <2>1, Zenon DEF Allocates
  <2>3. IsFiniteSet(DOMAIN alloc)
    BY <1>5, BooksTyped, LotsFinite DEF Allocates
  <2> QED BY <2>1, <2>2, <2>3
<1>9. /\ back \in [DOMAIN alloc -> Nat]
      /\ \A i \in DOMAIN alloc : back[i] <= alloc[i]
  <2>1. rest \in Int
    BY <1>6, <1>7
  <2>2. back = Walk(rest, alloc, RefundOrder(ExpireDueLots(lots, now)))
    BY <1>3, <1>7, Zenon DEF Refund
  <2> QED BY <1>8, <2>1, <2>2, RefundBounds, Zenon
<1>10. SumFunction(back) = rest
  <2>1. rest \in Int
    BY <1>6, <1>7
  <2>2. SumFunction(back) = Clip(rest, credits)
    BY <1>3, <1>5, <1>7, <1>8, <2>1, RefundTakesAll, Zenon
  <2>3. Clip(rest, credits) = rest
    BY <1>5, <1>6, <1>7, ClipBounds
  <2> QED BY <2>2, <2>3
<1>11. Allocates(lots, back)
  BY <1>5, <1>9 DEF Allocates
<1>12. Worth(lots') = Worth(lots) + rest
  BY <1>4, <1>10, <1>11, HandBackMoves, Zenon
<1>13. Sum(LessBack(alloc, back)) = actual
  <2> DEFINE left == [i \in DOMAIN alloc |-> alloc[i] - back[i]]
  <2>1. DOMAIN left = DOMAIN alloc /\ DOMAIN back = DOMAIN alloc
    BY <1>9
  <2>2. ASSUME NEW i \in DOMAIN alloc
        PROVE  left[i] \in Nat /\ alloc[i] \in Int /\ back[i] \in Int
               /\ left[i] = alloc[i] - back[i]
    <3>1. alloc[i] \in Nat /\ back[i] \in Nat /\ back[i] <= alloc[i]
      BY <1>5, <1>9 DEF Allocates
    <3> QED BY <3>1
  <2>3. LessBack(alloc, back) = Positive(left)
    BY Zenon DEF LessBack
  <2> HIDE DEF left
  <2>4. SumFunction(Positive(left)) = SumFunction(left)
    BY <1>8, <2>1, <2>2, PositiveSum
  <2>5. SumFunctionOnSet(left, DOMAIN alloc)
          = SumFunctionOnSet(alloc, DOMAIN alloc) - SumFunctionOnSet(back, DOMAIN alloc)
    BY <1>8, <2>2, SumMinus
  <2>6. /\ SumFunctionOnSet(left, DOMAIN alloc) = SumFunction(left)
        /\ SumFunctionOnSet(alloc, DOMAIN alloc) = SumFunction(alloc)
        /\ SumFunctionOnSet(back, DOMAIN alloc) = SumFunction(back)
    BY <2>1, SumOfFunction, Zenon
  <2>7. SumFunction(left) = credits - rest
    BY <1>5, <1>10, <2>5, <2>6, Zenon
  <2>8. credits - rest = actual
    BY <1>5, <1>7
  <2> QED BY <2>3, <2>4, <2>7, <2>8, Zenon DEF Sum
<1>14. /\ InReserve(holds') = InReserve(holds) - credits
       /\ Posted(ledger') = Posted(ledger) - actual
       /\ HoldsMove
  <2>1. Sum(holds[h].alloc) = credits
    BY <1>2, <1>5, Zenon DEF Sum
  <2>2. /\ InReserve(holds') = InReserve(holds) - Sum(holds[h].alloc)
        /\ Posted(ledger') = Posted(ledger) - actual
        /\ HoldsMove
    BY <1>1, <1>4, <1>5, <1>13, ChargeMoves, Zenon
  <2> QED BY <2>1, <2>2, Zenon
<1>15. Billed(debts') = Billed(debts)
  BY <1>1, Zenon
<1>16. Worth(lots) \in Nat /\ Billed(debts) \in Nat
       /\ InReserve(holds) \in Int /\ Posted(ledger) \in Int
  BY BooksTyped
<1>17. Kept
  BY <1>5, <1>7, <1>12, <1>14, <1>15, <1>16 DEF Kept
<1> QED BY <1>14, <1>17, Zenon DEF BookStep

\* capture() beyond the reservation: the extra comes out of the lots.
LEMMA CaptureBeyondBooks ==
  ASSUME TypeOK, HoldsBacked, NEW h \in HoldKeys, NEW actual \in Amounts \cup {0},
         CaptureBeyond(h, actual)
  PROVE  BookStep
<1> DEFINE more == actual - holds[h].credits
           drawn(now) == Consumption(ExpireDueLots(lots, now), more, now)
<1>1. PICK now \in Readings :
        /\ Open(h) /\ more > 0
        /\ more <= LiveBalance(ExpireDueLots(lots, now), now)
        /\ lots' = ConsumeLots(ExpireDueLots(lots, now), more, now)
        /\ ChargeHold(h, actual, PlusExtra(holds[h].alloc, drawn(now)))
        /\ UNCHANGED debts
  BY Zenon DEF CaptureBeyond
<1>2. PICK alloc, credits, extra :
        alloc = holds[h].alloc /\ credits = holds[h].credits /\ extra = more
  BY Zenon
<1>3. extra = actual - credits
  BY <1>2, Zenon
<1>4. PICK take : take = Consumption(ExpireDueLots(lots, now), extra, now)
  OBVIOUS
<1>5. /\ extra > 0 /\ extra <= LiveBalance(ExpireDueLots(lots, now), now)
      /\ lots' = ConsumeLots(ExpireDueLots(lots, now), extra, now)
      /\ ChargeHold(h, actual, PlusExtra(alloc, take))
  BY <1>1, <1>2, <1>4, Zenon
<1> HIDE DEF more, drawn
<1>6. /\ Allocates(lots, alloc) /\ credits \in Nat /\ actual \in Nat
      /\ SumFunction(alloc) = credits
  <2>1. Allocates(lots, alloc) /\ credits \in Nat
    BY <1>2, AllocTypes, Zenon
  <2>2. actual \in Nat
    BY Types
  <2>3. SumFunction(alloc) = credits
    BY <1>1, <1>2, Zenon DEF HoldsBacked, Backed, Open, Sum
  <2> QED BY <2>1, <2>2, <2>3
<1>7. extra \in Nat
  BY <1>3, <1>5, <1>6
<1>8. /\ Worth(lots') = Worth(lots) - extra
      /\ Allocates(lots, take) /\ SumFunction(take) = extra
  BY <1>4, <1>5, <1>7, SpendMoves, Zenon
<1>9. Sum(PlusExtra(alloc, take)) = SumFunction(alloc) + SumFunction(take)
  BY <1>6, <1>8, ExtraAdds, Zenon
<1>10. Sum(PlusExtra(alloc, take)) = actual
  BY <1>3, <1>6, <1>8, <1>9
<1>11. /\ InReserve(holds') = InReserve(holds) - credits
       /\ Posted(ledger') = Posted(ledger) - actual
       /\ HoldsMove
  <2>1. Sum(holds[h].alloc) = credits
    BY <1>2, <1>6, Zenon DEF Sum
  <2>2. /\ InReserve(holds') = InReserve(holds) - Sum(holds[h].alloc)
        /\ Posted(ledger') = Posted(ledger) - actual
        /\ HoldsMove
    BY <1>1, <1>5, <1>6, <1>10, ChargeMoves, Zenon
  <2> QED BY <2>1, <2>2, Zenon
<1>12. Billed(debts') = Billed(debts)
  BY <1>1, Zenon
<1>13. Worth(lots) \in Nat /\ Billed(debts) \in Nat
       /\ InReserve(holds) \in Int /\ Posted(ledger) \in Int
  BY BooksTyped
<1>14. Kept
  BY <1>3, <1>6, <1>8, <1>11, <1>12, <1>13 DEF Kept
<1> QED BY <1>11, <1>14, Zenon DEF BookStep

\* _meter_only_capture(): a waived hold reserved nothing and is charged nothing.
LEMMA MeterOnlyCaptureBooks ==
  ASSUME TypeOK, HoldsBacked, NEW h \in HoldKeys, MeterOnlyCapture(h)
  PROVE  BookStep
<1>1. /\ Open(h) /\ holds[h].waived
      /\ ChargeHold(h, 0, holds[h].alloc)
      /\ lots' = lots /\ debts' = debts
  BY Zenon DEF MeterOnlyCapture
<1>2. PICK alloc : alloc = holds[h].alloc
  OBVIOUS
<1>3. Sum(alloc) = 0 /\ Sum(holds[h].alloc) = 0
  BY <1>1, <1>2, Zenon DEF HoldsBacked, Backed, Open
<1>4. /\ InReserve(holds') = InReserve(holds) - Sum(holds[h].alloc)
      /\ Posted(ledger') = Posted(ledger) - 0
      /\ HoldsMove
  <2>1. 0 \in Nat /\ ChargeHold(h, 0, alloc)
    BY <1>1, <1>2, Zenon
  <2> QED BY <1>1, <1>3, <2>1, ChargeMoves, Zenon
<1>5. Worth(lots') = Worth(lots) /\ Billed(debts') = Billed(debts)
  BY <1>1, Zenon
<1>6. Worth(lots) \in Nat /\ Billed(debts) \in Nat
      /\ InReserve(holds) \in Int /\ Posted(ledger) \in Int
  BY BooksTyped
<1>7. Kept
  BY <1>3, <1>4, <1>5, <1>6 DEF Kept
<1> QED BY <1>4, <1>7, Zenon DEF BookStep

\* release(), the caller's or the sweep's: every allocation is a lot again.
LEMMA GiveBackBooks ==
  ASSUME TypeOK, NEW h \in HoldKeys, Open(h), NEW st \in {"released", "expired"},
         GiveBack(h, st)
  PROVE  BookStep
<1>1. PICK now \in Readings :
        /\ lots' = HandBack(ExpireDueLots(lots, now), holds[h].alloc, now)
        /\ holds' = [holds EXCEPT ![h].status = st, ![h].alloc = NoAlloc]
        /\ UNCHANGED <<debts, ledger>>
  BY Zenon DEF GiveBack
<1>2. PICK alloc : alloc = holds[h].alloc
  OBVIOUS
<1>3. Allocates(lots, alloc) /\ Sum(alloc) \in Nat
  BY <1>2, AllocTypes, BooksTyped, Zenon
<1>4. Worth(lots') = Worth(lots) + Sum(alloc)
  BY <1>1, <1>2, <1>3, HandBackMoves, Zenon DEF Sum
<1>5. /\ InReserve(holds') = InReserve(holds) - Sum(alloc)
      /\ holds'[h].status = st /\ holds'[h].alloc = NoAlloc
      /\ \A k \in HoldKeys \ {h} : holds'[k] = holds[k]
  <2>1. st \in {"captured", "released", "expired"}
    OBVIOUS
  <2> QED BY <1>1, <1>2, <2>1, ResolvingMoves, Zenon
<1>6. DOMAIN NoAlloc = {}
  BY Zenon DEF NoAlloc
<1>7. NoCharge /\ Posted(ledger') = Posted(ledger) /\ Billed(debts') = Billed(debts)
  BY <1>1, NothingPosted, Zenon
<1>8. Worth(lots) \in Nat /\ Billed(debts) \in Nat
      /\ InReserve(holds) \in Int /\ Posted(ledger) \in Int
  BY BooksTyped
<1>9. Kept
  BY <1>3, <1>4, <1>5, <1>7, <1>8 DEF Kept
<1>10. HoldMoves(h)
  BY <1>5, <1>6, <1>7, Zenon DEF HoldMoves
<1> QED BY <1>9, <1>10, Zenon DEF BookStep, HoldsMove

\* The sweep gives back a hold that is still open and leaves any other alone.
LEMMA ExpireHoldBooks ==
  ASSUME TypeOK, NEW h \in HoldKeys, ExpireHold(h)
  PROVE  BookStep
<1>1. CASE Open(h)
  <2>1. GiveBack(h, "expired")
    BY <1>1, Zenon DEF ExpireHold
  <2> QED BY <1>1, <2>1, GiveBackBooks
<1>2. CASE ~Open(h)
  <2>1. UNCHANGED <<lots, holds, debts, ledger>>
    BY <1>2, Zenon DEF ExpireHold
  <2> QED BY <2>1, NothingMoves, Zenon
<1> QED BY <1>1, <1>2

\* What a clawback reclaims leaves the lots.
LEMMA ReclaimMoves ==
  ASSUME TypeOK, NEW now, NEW g, NEW credits \in Int
  PROVE  LET ls == ExpireDueLots(lots, now)
             take == Reclaim(ls, g, credits)
         IN  /\ SumFunction(take) \in Nat
             /\ Worth(TakeFrom(ls, take)) = Worth(lots) - SumFunction(take)
<1> DEFINE E == 0..Never
           ls == ExpireDueLots(lots, now)
           D == GrantedLots(ls, g)
           f == Restrict(Remaining(ls), D)
           take == Reclaim(ls, g, credits)
<1>1. ls \in Seq(LotWith(E)) /\ Worth(ls) = Worth(lots)
  BY Swept, BooksTyped, ExpiryKeepsWorth, Zenon
<1> HIDE DEF E, ls
<1>2. D \subseteq DOMAIN ls /\ IsFiniteSet(D)
  <2>1. D \subseteq DOMAIN ls
    BY Zenon DEF GrantedLots
  <2> HIDE DEF D
  <2> QED BY <1>1, <2>1, LotsFinite
<1> HIDE DEF D
<1>3. DOMAIN f = D /\ \A i \in D : f[i] = ls[i].rem /\ f[i] \in Nat
  <2>1. DOMAIN f = D /\ \A i \in D : f[i] = ls[i].rem
    BY <1>2 DEF Restrict, Remaining
  <2> HIDE DEF f
  <2> QED BY <1>1, <1>2, <2>1, LotFields, Zenon
<1>4. take = Walk(credits, f, CreationOrder(DOMAIN ls))
  BY Zenon DEF Reclaim, D
<1> HIDE DEF f, take
<1>5. take \in [D -> Nat] /\ \A i \in D : take[i] <= f[i]
  BY <1>2, <1>3, <1>4, WalkBounds
<1>6. /\ DOMAIN take \subseteq DOMAIN ls
      /\ \A i \in DOMAIN take : take[i] \in Nat /\ take[i] <= ls[i].rem
  BY <1>2, <1>3, <1>5
<1>7. /\ SumFunction(take) \in Nat
      /\ Worth(TakeFrom(ls, take)) = Worth(ls) - SumFunction(take)
  BY <1>1, <1>6, TakingLowersWorth, Zenon
<1> QED BY <1>1, <1>7, Zenon DEF take, ls

\* claw_back_grant(): the row says what was reclaimed; what was forgiven or is
\* owed moves no credits.
LEMMA ClawBackGrantBooks ==
  ASSUME TypeOK, NEW g \in DOMAIN ledger, NEW reason \in Reasons,
         NEW target \in 1..ledger[g].delta, ClawBackGrant(g, target, reason)
  PROVE  BookStep
<1> DEFINE ls == ExpireDueLots(lots, clock)
           wanted == target - AlreadyClawedBack(g)
           taken(n) == Reclaim(ls, g, n)
           short(n, m) == (n - m) - Clip(n - m, ExpiredOf(ls, g))
           row(n, m) == [Entry(reason, -m) EXCEPT !.of = g, !.requested = n]
<1>1. PICK n, m : n = wanted /\ m = SumFunction(taken(n))
  OBVIOUS
<1>2. /\ n > 0
      /\ ledger' = Append(ledger, row(n, m))
      /\ lots' = TakeFrom(ls, taken(n))
      /\ debts' = IF short(n, m) > 0 THEN OpenDebt(debts, short(n, m), NextRow)
                                     ELSE debts
      /\ holds' = holds
  BY <1>1, Zenon DEF ClawBackGrant, Post
<1>3. n \in Nat /\ n \in Int
  <2>1. target \in Int /\ AlreadyClawedBack(g) \in Nat
    BY AlreadyNat
  <2> QED BY <1>1, <1>2, <2>1
<1> HIDE DEF wanted
<1>4. m \in Nat /\ Worth(lots') = Worth(lots) - m /\ ExpiredOf(ls, g) \in Nat
  BY <1>1, <1>2, <1>3, ReclaimMoves, ReclaimStep, Zenon
<1> HIDE DEF ls, taken
<1>5. Billed(debts') = Billed(debts)
  <2>1. CASE short(n, m) > 0
    <3>1. n - m \in Int
      BY <1>3, <1>4
    <3>2. Clip(n - m, ExpiredOf(ls, g)) \in Int
      BY <1>4, <3>1, ClipBounds
    <3>3. short(n, m) \in Nat
      BY <2>1, <3>1, <3>2
    <3> HIDE DEF short
    <3> QED BY <1>2, <2>1, <3>3, OpeningBillsNothing, Zenon
  <2>2. CASE ~(short(n, m) > 0)
    BY <1>2, <2>2, Zenon
  <2> QED BY <2>1, <2>2, Zenon
<1>6. row(n, m) \in Row /\ row(n, m).delta = -m /\ row(n, m).hold = NoHold
  <2>1. reason \in RowType /\ -m \in Int /\ 0 \in Nat
    BY <1>4, Types DEF RowType
  <2>2. g \in Nat
    BY RowFields, Zenon
  <2>3. Entry(reason, -m) \in Row
    BY <2>1, Zenon DEF Entry, Row
  <2> QED BY <1>3, <2>2, <2>3, Zenon DEF Row, Entry
<1> HIDE DEF row, short
<1>7. Posted(ledger') = Posted(ledger) + (-m) /\ NoCharge
  BY <1>2, <1>6, RowPosted, Zenon
<1>8. InReserve(holds') = InReserve(holds)
  BY <1>2, Zenon
<1>9. Worth(lots) \in Nat /\ Billed(debts) \in Nat
      /\ InReserve(holds) \in Int /\ Posted(ledger) \in Int
  BY BooksTyped
<1>10. Kept
  BY <1>4, <1>5, <1>7, <1>8, <1>9 DEF Kept
<1> QED BY <1>2, <1>7, <1>10, Zenon DEF BookStep, HoldsMove

\* _reverse_clawback(): the lot that comes back holds what its row says, and
\* what the other debts take of it is billed.
LEMMA ReverseClawbackBooks ==
  ASSUME IInv, NEW r \in DOMAIN ledger, ReverseClawback(r)
  PROVE  BookStep
<1> DEFINE E == 0..Never
           g == ledger[r].of
           template == CHOOSE i \in GrantedLots(lots, g) :
                         \A j \in GrantedLots(lots, g) : i <= j
           back == Collected(r) - ledger[r].delta
           lot(n) == [rem |-> n, exp |-> lots[template].exp, grant |-> g, expired |-> 0]
           row(n) == [Entry("restored", n) EXCEPT !.of = r]
           restored(n, now) == ExpireDueLots(Append(lots, lot(n)), now)
<1>1. TypeOK
  BY DEF IInv
<1>2. PICK given : given = back
  OBVIOUS
<1>3. PICK now \in Readings :
        /\ ledger[r].type = "dispute"
        /\ IF given > 0
             THEN /\ ledger' = Append(Reversed(r), row(given))
                  /\ lots' = LotsAfterSettling(restored(given, now), CancelDebts(r), now)
                  /\ debts' = SettleDebts(restored(given, now), CancelDebts(r), now)
             ELSE /\ ledger' = Reversed(r)
                  /\ debts' = CancelDebts(r)
                  /\ lots' = lots
        /\ holds' = holds
  BY <1>2, Zenon DEF ReverseClawback
<1>4. /\ Reversed(r) \in Seq(Row) /\ Len(Reversed(r)) = Len(ledger)
      /\ Posted(Reversed(r)) = Posted(ledger) /\ DOMAIN Reversed(r) = DOMAIN ledger
      /\ \A s \in DOMAIN ledger : /\ Reversed(r)[s].delta = ledger[s].delta
                                  /\ Reversed(r)[s].hold = ledger[s].hold
  BY <1>1, ReversedRows, MarkingPostsNothing, Zenon
<1>5. /\ CancelDebts(r) \in Seq(DebtRecords)
      /\ Billed(CancelDebts(r)) = Billed(debts)
  BY <1>1, CancelledDebts, ClosingBillsNothing, Zenon
<1>6. /\ Worth(lots) \in Nat /\ Billed(debts) \in Nat
      /\ InReserve(holds) \in Int /\ Posted(ledger) \in Int
      /\ lots \in Seq(LotWith(E)) /\ E \in SUBSET Int
  BY <1>1, BooksTyped
<1>7. InReserve(holds') = InReserve(holds)
  BY <1>3, Zenon
<1>8. CASE given > 0
  <2>1. /\ ledger' = Append(Reversed(r), row(given))
        /\ lots' = LotsAfterSettling(restored(given, now), CancelDebts(r), now)
        /\ debts' = SettleDebts(restored(given, now), CancelDebts(r), now)
    BY <1>3, <1>8, Zenon
  <2>2. given \in Nat /\ given \in Int /\ g \in Nat /\ r \in Nat
    <3>1. Collected(r) \in Int /\ ledger[r].delta \in Int /\ g \in Nat /\ r \in Nat
      BY <1>1, CollectedInt, RowFields, Zenon
    <3> HIDE DEF g
    <3> QED BY <1>2, <1>8, <3>1
  <2>3. template \in DOMAIN lots
    BY <1>3, TemplateLot, Zenon
  <2> HIDE DEF template, g, back
  <2>4. lot(given) \in LotWith(E) /\ lot(given).rem = given /\ lot(given).expired = 0
    <3>1. lots[template].exp \in E /\ 0 \in Nat
      BY <1>6, <2>3, LotFields
    <3> HIDE DEF E
    <3> QED BY <2>2, <3>1, Zenon DEF LotWith
  <2> HIDE DEF lot, E
  <2>5. /\ restored(given, now) \in Seq(LotWith(E))
        /\ Worth(restored(given, now)) = Worth(lots) + given
    <3>1. Append(lots, lot(given)) \in Seq(LotWith(E))
      BY <1>6, <2>4, AppendProperties
    <3>2. Worth(Append(lots, lot(given))) = Worth(lots) + given
      BY <1>6, <2>4, AppendAddsWorth, Zenon
    <3> QED BY <3>1, <3>2, ExpireDescends, ExpiryKeepsWorth, Zenon
  <2>6. PICK all : all = restored(given, now)
    OBVIOUS
  <2> HIDE DEF restored
  <2>7. /\ Worth(lots') \in Int /\ Billed(debts') \in Int
        /\ Worth(lots') + Billed(debts') = Worth(lots) + given + Billed(debts)
    <3>1. /\ lots' = LotsAfterSettling(all, CancelDebts(r), now)
          /\ debts' = SettleDebts(all, CancelDebts(r), now)
          /\ all \in Seq(LotWith(E)) /\ Worth(all) = Worth(lots) + given
      BY <2>1, <2>5, <2>6, Zenon
    <3>2. PICK ds : ds = CancelDebts(r)
      OBVIOUS
    <3>3. ds \in Seq(DebtRecords) /\ Billed(ds) = Billed(debts)
      BY <1>5, <3>2, Zenon
    <3>4. /\ Worth(LotsAfterSettling(all, ds, now)) \in Int
          /\ Billed(SettleDebts(all, ds, now)) \in Int
          /\ Worth(LotsAfterSettling(all, ds, now)) + Billed(SettleDebts(all, ds, now))
               = Worth(all) + Billed(ds)
      BY <1>6, <3>1, <3>3, SettlingBillsWhatItTakes, Zenon
    <3> QED BY <3>1, <3>2, <3>3, <3>4, Zenon
  <2>8. row(given) \in Row /\ row(given).delta = given /\ row(given).hold = NoHold
    <3>1. "restored" \in RowType /\ 0 \in Nat
      BY DEF RowType
    <3>2. Entry("restored", given) \in Row
      BY <2>2, <3>1, Zenon DEF Entry, Row
    <3> QED BY <2>2, <3>2, Zenon DEF Row, Entry
  <2> HIDE DEF row
  <2>9. Posted(ledger') = Posted(ledger) + given
    BY <1>4, <2>1, <2>8, PostedRow, Zenon
  <2>10. NoCharge
    <3>1. /\ Len(ledger') = Len(ledger) + 1 /\ ledger' \in Seq(Row)
          /\ ledger'[Len(ledger) + 1] = row(given)
          /\ \A s \in 1..Len(ledger) : ledger'[s] = Reversed(r)[s]
      BY <1>4, <2>1, <2>8, AppendProperties
    <3>2. /\ DOMAIN ledger = 1..Len(ledger) /\ Len(ledger) \in Nat
          /\ DOMAIN ledger' = 1..(Len(ledger) + 1)
      BY <1>1, <3>1, Indexes
    <3>3. DOMAIN ledger' = DOMAIN ledger \cup {Len(ledger) + 1}
      BY <3>2
    <3>4. RowsKept
      BY <1>4, <3>1, <3>2, <3>3, Zenon DEF RowsKept
    <3> QED BY <2>8, <3>1, <3>3, <3>4, Zenon DEF NoCharge
  <2>11. Kept
    BY <1>6, <1>7, <2>2, <2>7, <2>9 DEF Kept
  <2> QED BY <1>3, <2>10, <2>11, Zenon DEF BookStep, HoldsMove
<1>9. CASE ~(given > 0)
  <2>1. ledger' = Reversed(r) /\ debts' = CancelDebts(r) /\ lots' = lots
    BY <1>3, <1>9, Zenon
  <2>2. /\ Posted(ledger') = Posted(ledger) /\ Billed(debts') = Billed(debts)
        /\ Worth(lots') = Worth(lots)
    BY <1>4, <1>5, <2>1, Zenon
  <2>3. RowsKept /\ NoCharge
    BY <1>4, <2>1, Zenon DEF RowsKept, NoCharge
  <2>4. Kept
    BY <1>7, <2>2, Zenon DEF Kept
  <2> QED BY <1>3, <2>3, <2>4, Zenon DEF BookStep, HoldsMove
<1> QED BY <1>8, <1>9, Zenon

-------------------------------------------------------------------------------
\* Every step keeps the books.
LEMMA NextKeepsBooks ==
  ASSUME IInv, HoldsBacked, [Next]_vars
  PROVE  BookStep
<1>1. TypeOK
  BY DEF IInv
<1>2. CASE Tick
  <2>1. UNCHANGED <<lots, holds, debts, ledger>>
    BY <1>2, Zenon DEF Tick
  <2> QED BY <1>1, <2>1, NothingMoves, Zenon
<1>3. CASE Spend
  BY <1>1, <1>3, CreditBooks, DebitBooks, MeterOnlyDebitBooks, Zenon DEF Spend
<1>4. CASE Reserve
  <2>1. ASSUME NEW h \in HoldKeys, Release(h) PROVE BookStep
    <3>1. Open(h) /\ GiveBack(h, "released") /\ "released" \in {"released", "expired"}
      BY <2>1 DEF Release
    <3> QED BY <1>1, <3>1, GiveBackBooks
  <2> QED BY <1>1, <1>4, <2>1, HoldBooks, CaptureWithinBooks, CaptureBeyondBooks,
             MeterOnlyCaptureBooks, Zenon DEF Reserve
<1>5. CASE Workers
  <2>1. ASSUME ListStaleHolds PROVE BookStep
    <3>1. UNCHANGED <<lots, holds, debts, ledger>>
      BY <2>1, Zenon DEF ListStaleHolds
    <3> QED BY <1>1, <3>1, NothingMoves, Zenon
  <2> QED BY <1>1, <1>5, <2>1, ExpireHoldBooks, ExpireCreditLotsBooks, Zenon DEF Workers
<1>6. CASE MoneyBack
  BY <1>1, <1>6, ClawBackGrantBooks, ReverseClawbackBooks, Zenon DEF MoneyBack
<1>7. CASE UNCHANGED vars
  <2>1. UNCHANGED <<lots, holds, debts, ledger>>
    BY <1>7, Zenon DEF vars
  <2> QED BY <1>1, <2>1, NothingMoves, Zenon
<1> QED BY <1>2, <1>3, <1>4, <1>5, <1>6, <1>7, Zenon DEF Next

\* A hold that is not charged in a step keeps its charges.
LEMMA ChargesKept ==
  ASSUME NEW h \in HoldKeys, RowsKept,
         \A r \in DOMAIN ledger' \ DOMAIN ledger : ledger'[r].hold # h
  PROVE  {r \in DOMAIN ledger' : ledger'[r].hold = h} = ChargesOf(h)
<1>1. /\ \A r \in DOMAIN ledger : r \in DOMAIN ledger'
      /\ \A r \in DOMAIN ledger : ledger'[r].hold = ledger[r].hold
  BY DEF RowsKept
<1>2. \A r : r \in {s \in DOMAIN ledger' : ledger'[s].hold = h}
              <=> r \in {s \in DOMAIN ledger : ledger[s].hold = h}
  BY <1>1, Zenon
<1> QED BY <1>2 DEF ChargesOf

\* What HoldsAccountedFor says of one hold.
AccountedFor(hd, h, rows) ==
  LET charges == {r \in DOMAIN rows : rows[r].hold = h}
  IN  /\ hd.status = "held" => Sum(hd.alloc) = hd.credits
      /\ hd.status = "captured" =>
           \E r \in DOMAIN rows : charges = {r} /\ rows[r].delta = -Sum(hd.alloc)
      /\ hd.status # "captured" => charges = {}
      /\ hd.status \in {"none", "released", "expired"} => DOMAIN hd.alloc = {}

AllAccountedFor == \A h \in HoldKeys : AccountedFor(holds[h], h, ledger)

\* A hold that does not move stays accounted for: no row is charged to it.
LEMMA OthersAccountedFor ==
  ASSUME NEW h \in HoldKeys, RowsKept, AccountedFor(holds[h], h, ledger),
         holds'[h] = holds[h],
         \A r \in DOMAIN ledger' \ DOMAIN ledger : ledger'[r].hold # h
  PROVE  AccountedFor(holds'[h], h, ledger')
<1>1. {r \in DOMAIN ledger' : ledger'[r].hold = h} = {r \in DOMAIN ledger : ledger[r].hold = h}
  BY ChargesKept DEF ChargesOf
<1>2. \A r \in DOMAIN ledger : r \in DOMAIN ledger' /\ ledger'[r].delta = ledger[r].delta
  BY DEF RowsKept
<1> QED BY <1>1, <1>2, Zenon DEF AccountedFor

\* The hold that moves is accounted for by the charge that goes with the move.
LEMMA MovedAccountedFor ==
  ASSUME TypeOK, NEW h \in HoldKeys, AccountedFor(holds[h], h, ledger), HoldMoves(h)
  PROVE  AccountedFor(holds'[h], h, ledger') /\ Backed(holds'[h])
<1> DEFINE before == {r \in DOMAIN ledger : ledger[r].hold = h}
           after == {r \in DOMAIN ledger' : ledger'[r].hold = h}
<1>1. holds[h].status # "captured" => before = {}
  BY Zenon DEF AccountedFor
<1>2. NoCharge => after = before
  <2> SUFFICES ASSUME NoCharge PROVE after = before
    OBVIOUS
  <2>1. \A r \in DOMAIN ledger' \ DOMAIN ledger : ledger'[r].hold # h
    BY KeysAssumption, Zenon DEF NoCharge
  <2> QED BY <2>1, ChargesKept, Zenon DEF NoCharge, ChargesOf
<1>3. CASE Reservable(h) /\ holds'[h].status = "held" /\ Backed(holds'[h]) /\ NoCharge
  <2>1. after = {}
    BY <1>1, <1>2, <1>3 DEF Reservable
  <2>2. Sum(holds'[h].alloc) = holds'[h].credits
    BY <1>3, Zenon DEF Backed
  <2> HIDE DEF after
  <2>3. "held" # "captured" /\ "held" \notin {"none", "released", "expired"}
    OBVIOUS
  <2> QED BY <1>3, <2>1, <2>2, <2>3, Zenon DEF AccountedFor, after
<1>4. CASE /\ Open(h) /\ holds'[h].status \in {"released", "expired"}
           /\ DOMAIN holds'[h].alloc = {} /\ NoCharge
  <2>1. after = {}
    BY <1>1, <1>2, <1>4 DEF Open
  <2>2. holds'[h].status # "held" /\ holds'[h].status # "captured"
    BY <1>4
  <2> HIDE DEF after
  <2> QED BY <1>4, <2>1, <2>2, Zenon DEF AccountedFor, Backed, after
<1>5. CASE Open(h) /\ holds'[h].status = "captured" /\ Charged(h)
  <2>1. before = {}
    BY <1>1, <1>5 DEF Open
  <2>2. /\ DOMAIN ledger' = DOMAIN ledger \cup {NextRow}
        /\ ledger'[NextRow].hold = h
        /\ ledger'[NextRow].delta = -Sum(holds'[h].alloc)
        /\ \A r \in DOMAIN ledger : ledger'[r].hold = ledger[r].hold
    BY <1>5, Zenon DEF Charged, RowsKept
  <2>3. after = {NextRow} /\ NextRow \in DOMAIN ledger'
    <3>1. \A r : r \in after <=> r = NextRow
      BY <2>1, <2>2
    <3> HIDE DEF after
    <3> QED BY <2>2, <3>1
  <2>4. holds'[h].status # "held" /\ holds'[h].status \notin {"none", "released", "expired"}
    BY <1>5
  <2> HIDE DEF after
  <2> QED BY <1>5, <2>2, <2>3, <2>4, Zenon DEF AccountedFor, Backed, after
<1> QED BY <1>3, <1>4, <1>5, Zenon DEF HoldMoves

\* The holds of a state that keeps the books are accounted for.
LEMMA HoldsStayAccountedFor ==
  ASSUME TypeOK, HoldsBacked, AllAccountedFor, HoldsMove, NEW k \in HoldKeys
  PROVE  AccountedFor(holds'[k], k, ledger') /\ Backed(holds'[k])
<1>1. AccountedFor(holds[k], k, ledger) /\ Backed(holds[k])
  BY Zenon DEF AllAccountedFor, HoldsBacked
<1>2. ASSUME NoCharge, holds'[k] = holds[k]
      PROVE  AccountedFor(holds'[k], k, ledger') /\ Backed(holds'[k])
  <2>1. RowsKept /\ \A r \in DOMAIN ledger' \ DOMAIN ledger : ledger'[r].hold # k
    BY <1>2, KeysAssumption, Zenon DEF NoCharge
  <2> QED BY <1>1, <1>2, <2>1, OthersAccountedFor, Zenon
<1>3. CASE UNCHANGED holds /\ NoCharge
  BY <1>2, <1>3, Zenon
<1>4. CASE \E h \in HoldKeys : HoldMoves(h)
  <2>1. PICK h \in HoldKeys : HoldMoves(h)
    BY <1>4, Zenon
  <2>2. CASE k = h
    BY <1>1, <2>1, <2>2, MovedAccountedFor, Zenon
  <2>3. CASE k # h
    <3>1. holds'[k] = holds[k] /\ (NoCharge \/ Charged(h))
      BY <2>1, <2>3 DEF HoldMoves
    <3>2. CASE Charged(h)
      <4>1. RowsKept /\ \A r \in DOMAIN ledger' \ DOMAIN ledger : ledger'[r].hold # k
        BY <2>3, <3>2 DEF Charged
      <4> QED BY <1>1, <3>1, <4>1, OthersAccountedFor, Zenon
    <3> QED BY <1>2, <3>1, <3>2, Zenon
  <2> QED BY <2>2, <2>3
<1> QED BY <1>3, <1>4, Zenon DEF HoldsMove

-------------------------------------------------------------------------------
(* The theorems.                                                           *)

\* The inductive invariant, next to IInv.
BInv == HoldsBacked /\ AllAccountedFor /\ Balanced

\* The sums are whole numbers.
BooksInt ==
  /\ Worth(lots) \in Int /\ Billed(debts) \in Int
  /\ InReserve(holds) \in Int /\ Posted(ledger) \in Int

\* What has its types has sums.
LEMMA TypesGiveSums == TypeOK => BooksInt
<1> SUFFICES ASSUME TypeOK PROVE BooksInt
  OBVIOUS
<1>1. /\ Worth(lots) \in Nat /\ Billed(debts) \in Nat
      /\ InReserve(holds) \in Int /\ Posted(ledger) \in Int
  BY BooksTyped
<1> QED BY <1>1 DEF BooksInt

\* The books of a new wallet are empty.
LEMMA BooksOpen ==
  ASSUME Init
  PROVE  BInv
<1>1. /\ lots = << >> /\ debts = << >> /\ ledger = << >>
      /\ holds = [h \in HoldKeys |-> NewHold]
  BY Zenon DEF Init
<1>2. DOMAIN lots = {} /\ DOMAIN debts = {} /\ DOMAIN ledger = {}
  BY <1>1
<1>3. ASSUME NEW h \in HoldKeys
      PROVE  holds[h].status = "none" /\ DOMAIN holds[h].alloc = {}
  <2>1. holds[h] = NewHold
    BY <1>1, Zenon
  <2>2. NewHold.status = "none" /\ NewHold.alloc = NoAlloc /\ DOMAIN NoAlloc = {}
    BY Zenon DEF NewHold, NoAlloc
  <2> QED BY <2>1, <2>2, Zenon
<1>4. HoldsBacked
  BY <1>3 DEF HoldsBacked, Backed
<1>5. AllAccountedFor
  <2>1. ASSUME NEW h \in HoldKeys PROVE AccountedFor(holds[h], h, ledger)
    <3>1. {r \in DOMAIN ledger : ledger[r].hold = h} = {}
      BY <1>2, Zenon
    <3>2. holds[h].status # "held" /\ holds[h].status # "captured"
      BY <1>3
    <3> QED BY <1>3, <3>1, <3>2, Zenon DEF AccountedFor
  <2> QED BY <2>1 DEF AllAccountedFor
<1>6. Balanced
  <2>1. Worth(lots) = 0
    BY <1>2, SumEmpty DEF Worth
  <2>2. Billed(debts) = 0
    <3>1. DOMAIN Billings(debts) = {}
      BY <1>2, Zenon DEF Billings
    <3> QED BY <3>1, SumOfFunction, SumEmpty DEF Billed
  <2>3. Posted(ledger) = 0
    <3>1. DOMAIN Deltas(ledger) = {}
      BY <1>2, Zenon DEF Deltas
    <3> QED BY <3>1, SumOfFunction, SumEmpty DEF Posted
  <2>4. InReserve(holds) = 0
    <3>1. DOMAIN Reservations(holds) = HoldKeys
      BY Zenon DEF Reservations
    <3>2. \A h \in HoldKeys : Reservations(holds)[h] = 0
      BY <1>3 DEF Reservations, ReservedBy
    <3>3. SumFunctionOnSet(Reservations(holds), HoldKeys) = 0
      BY <3>2, HoldKeysAssumption, SumZeros
    <3> QED BY <3>1, <3>3, SumOfFunction DEF InReserve
  <2> QED BY <2>1, <2>2, <2>3, <2>4 DEF Balanced
<1> QED BY <1>4, <1>5, <1>6 DEF BInv

\* Every step keeps them.
LEMMA BooksKept ==
  ASSUME IInv, BooksInt, BInv, [Next]_vars, BooksInt'
  PROVE  BInv'
<1>1. TypeOK /\ HoldsBacked /\ AllAccountedFor /\ Balanced /\ BookStep
  BY NextKeepsBooks, Zenon DEF IInv, BInv
<1>2. \A k \in HoldKeys : AccountedFor(holds'[k], k, ledger') /\ Backed(holds'[k])
  BY <1>1, HoldsStayAccountedFor, Zenon DEF BookStep
<1>3. Balanced'
  <2>1. /\ Worth(lots') \in Int /\ Billed(debts') \in Int
        /\ InReserve(holds') \in Int /\ Posted(ledger') \in Int
    BY DEF BooksInt
  <2>2. /\ Worth(lots) \in Int /\ Billed(debts) \in Int
        /\ InReserve(holds) \in Int /\ Posted(ledger) \in Int
    BY DEF BooksInt
  <2>3. Worth(lots') + Billed(debts') + InReserve(holds') = Posted(ledger')
    BY <1>1, <2>1, <2>2 DEF BookStep, Kept, Balanced
  <2> QED BY <2>3 DEF Balanced
<1>4. HoldsBacked' /\ AllAccountedFor'
  BY <1>2, Zenon DEF HoldsBacked, AllAccountedFor
<1> QED BY <1>3, <1>4, Zenon DEF BInv

\* The books of a wallet are kept for ever.
LEMMA BooksInvariant == Spec => []BInv
<1>1. Init => BInv
  BY BooksOpen
<1>2. IInv /\ BooksInt /\ BInv /\ [Next]_vars /\ BooksInt' => BInv'
  BY BooksKept
<1>3. Spec => []BooksInt
  BY TypeCorrect, TypesGiveSums, PTL
<1> QED BY <1>1, <1>2, <1>3, Invariance, PTL DEF Spec

\* Credits neither appear nor vanish, whatever grants, spends, reserves, hands
\* back, expires, claws back or restores them: what the lots and the open
\* reservations hold is what the Transaction rows of src/services.py add up to.
THEOREM CreditsConserved == Spec => []Conservation
<1>1. TypeOK /\ Balanced => Conservation
  <2> SUFFICES ASSUME TypeOK, Balanced PROVE Conservation
    OBVIOUS
  <2>1. /\ lots \in Seq(LotWith(0..Never)) /\ Billed(debts) \in Nat
        /\ InReserve(holds) \in Int /\ Posted(ledger) \in Int
    BY BooksTyped
  <2>2. /\ Sum(Remaining(lots)) \in Nat /\ Sum(Expirations(lots)) \in Nat
        /\ Worth(lots) = Sum(Remaining(lots)) + Sum(Expirations(lots))
    BY <2>1, WorthSplits, Zenon DEF Sum
  <2>3. /\ [h \in HoldKeys |-> Reserved(h)] = Reservations(holds)
        /\ [r \in DOMAIN ledger |-> ledger[r].delta] = Deltas(ledger)
        /\ [i \in DOMAIN lots |-> lots[i].expired] = Expirations(lots)
        /\ [d \in DOMAIN debts |-> debts[d].billed] = Billings(debts)
    BY Zenon DEF Reserved, Reservations, ReservedBy, Open, Deltas, Expirations, Billings
  <2>4. /\ Sum([h \in HoldKeys |-> Reserved(h)]) = InReserve(holds)
        /\ Sum([r \in DOMAIN ledger |-> ledger[r].delta]) = Posted(ledger)
        /\ Sum([i \in DOMAIN lots |-> lots[i].expired]) = Sum(Expirations(lots))
        /\ Sum([d \in DOMAIN debts |-> debts[d].billed]) = Billed(debts)
    BY <2>3, Zenon DEF Sum, InReserve, Posted, Billed
  <2>5. Sum(Remaining(lots)) + InReserve(holds)
          = Posted(ledger) - Sum(Expirations(lots)) - Billed(debts)
    BY <2>1, <2>2 DEF Balanced
  <2> QED BY <2>4, <2>5, Zenon DEF Conservation
<1>2. BInv => Balanced
  BY DEF BInv
<1> QED BY <1>1, <1>2, TypeCorrect, BooksInvariant, PTL

\* A hold is backed by what it names until it is charged once, for what it
\* took, or given back with no charge: hold(), capture(), release() and the
\* sweep leave no credit reserved twice and no pipeline billed twice.
THEOREM HoldsBooksRight == Spec => []HoldsAccountedFor
<1>1. AllAccountedFor => HoldsAccountedFor
  BY Zenon DEF AllAccountedFor, AccountedFor, HoldsAccountedFor, ChargesOf, Open
<1>2. BInv => AllAccountedFor
  BY DEF BInv
<1> QED BY <1>1, <1>2, BooksInvariant, PTL

-------------------------------------------------------------------------------
(***************************************************************************)
(* Money given back.  Of an action only the ledger and the debts count     *)
(* here.  Either it is quiet (at most a row, at most a debt that this row  *)
(* opens, debts collected) or it undoes a dispute.                         *)
(*                                                                         *)
(* Of what is handed back only the lots count: an action makes none, or it *)
(* leaves none that is past its deadline and holds credits (BornAlive).    *)
(***************************************************************************)
Clawbacks == {"refund", "dispute"}

RowsStay ==
  \A r \in 1..Len(ledger) :
    /\ ledger'[r].type = ledger[r].type /\ ledger'[r].of = ledger[r].of
    /\ ledger'[r].delta = ledger[r].delta
    /\ ledger'[r].requested = ledger[r].requested

\* What a posted row may say: a grant gives, a clawback asks for no more than
\* earlier ones left of its grant.
Allowed(row) ==
  /\ ~row.reversed
  /\ row.type = "grant" => row.delta \in Nat
  /\ row.type \in Clawbacks =>
       row.requested + AlreadyClawedBack(row.of) <= ledger[row.of].delta

\* A debt collects what it is owed, and nothing once it is closed.
Collects(old, new) ==
  /\ new.row = old.row /\ new.init = old.init
  /\ new.out + new.billed = old.out + old.billed
  /\ old.out = 0 => new.out = 0 /\ new.billed = old.billed

DebtsCollect ==
  /\ Len(debts') = Len(debts)
  /\ \A d \in 1..Len(debts) : Collects(debts[d], debts'[d])

DebtOpens ==
  /\ Len(ledger') = NextRow /\ Len(debts') = Len(debts) + 1
  /\ \A d \in 1..Len(debts) : debts'[d] = debts[d]
  /\ \E c \in Nat : debts'[Len(debts) + 1] =
                      [out |-> c, init |-> c, billed |-> 0, row |-> NextRow]

Quiet ==
  /\ RowsStay
  /\ \A r \in 1..Len(ledger) : ledger'[r].reversed = ledger[r].reversed
  /\ Len(ledger') = NextRow => Allowed(ledger'[NextRow])
  /\ DebtsCollect \/ DebtOpens

\* A won dispute: its debt is closed; what was reclaimed and what the debt had
\* collected comes back with a row of its own.
Undoes(r) ==
  /\ RowsStay /\ ledger[r].type = "dispute" /\ ~ledger[r].reversed
  /\ \A s \in 1..Len(ledger) :
       ledger'[s].reversed = (s = r \/ ledger[s].reversed)
  /\ Len(debts') = Len(debts)
  /\ \A d \in 1..Len(debts) :
       IF debts[d].row = r
         THEN debts'[d].row = r /\ debts'[d].out = 0 /\ debts'[d].billed = debts[d].billed
         ELSE Collects(debts[d], debts'[d])
  /\ IF Collected(r) - ledger[r].delta > 0
       THEN /\ Len(ledger') = NextRow /\ ledger'[NextRow].type = "restored"
            /\ ~ledger'[NextRow].reversed /\ ledger'[NextRow].of = r
            /\ ledger'[NextRow].delta = Collected(r) - ledger[r].delta
       ELSE Len(ledger') = Len(ledger)

MoneyStep == Quiet \/ \E r \in 1..Len(ledger) : Undoes(r)

-------------------------------------------------------------------------------
(* The pieces the actions are made of.                                     *)

\* The debts of a call that leaves them alone.
LEMMA DebtsAlone ==
  ASSUME TypeOK, UNCHANGED debts
  PROVE  DebtsCollect
BY Zenon DEF DebtsCollect, Collects

\* A call that posts nothing and leaves the debts alone.
LEMMA NothingHappens ==
  ASSUME TypeOK, UNCHANGED <<ledger, debts>>
  PROVE  MoneyStep
<1>1. Len(ledger') # NextRow
  <2>1. Len(ledger) \in Nat /\ NextRow = Len(ledger) + 1 /\ Len(ledger') = Len(ledger)
    BY Indexes, Zenon
  <2> HIDE DEF NextRow
  <2> QED BY <2>1
<1>2. ledger' = ledger /\ DebtsCollect
  BY DebtsAlone
<1> QED BY <1>1, <1>2, Zenon DEF MoneyStep, Quiet, RowsStay

\* A call that posts one row.
LEMMA RowAllowed ==
  ASSUME TypeOK, NEW row \in Row, ledger' = Append(ledger, row), Allowed(row)
  PROVE  /\ Len(ledger') = NextRow
         /\ DebtsCollect \/ DebtOpens => MoneyStep
<1>1. ledger \in Seq(Row)
  BY Zenon DEF TypeOK
<1>2. /\ Len(ledger') = NextRow /\ ledger'[NextRow] = row
      /\ \A r \in 1..Len(ledger) : ledger'[r] = ledger[r]
  BY <1>1, AppendProperties DEF NextRow
<1> QED BY <1>2, Zenon DEF MoneyStep, Quiet, RowsStay

\* A row that is neither a grant nor a clawback is allowed.
LEMMA OtherRows ==
  ASSUME NEW row, ~row.reversed, row.type \in {"charge", "capture"}
  PROVE  Allowed(row)
BY DEF Allowed, Clawbacks

\* A spend or a clawback that fell short opens a debt.
LEMMA DebtOpened ==
  ASSUME TypeOK, NEW c \in Nat, Len(ledger') = NextRow,
         debts' = OpenDebt(debts, c, NextRow)
  PROVE  DebtOpens
<1> DEFINE new == [out |-> c, init |-> c, billed |-> 0, row |-> NextRow]
<1>1. debts \in Seq(DebtRecords) /\ debts' = Append(debts, new)
  BY DebtsTyped, Zenon DEF OpenDebt
<1> HIDE DEF new
<1>2. /\ Len(debts') = Len(debts) + 1 /\ debts'[Len(debts) + 1] = new
      /\ \A d \in 1..Len(debts) : debts'[d] = debts[d]
  BY <1>1, AppendProperties
<1> QED BY <1>2, Zenon DEF DebtOpens, new

\* _settle_debts(): what a debt is owed less is what it collected.
LEMMA SettlingCollects ==
  ASSUME NEW E, NEW ls \in Seq(LotWith(E)), NEW ds \in Seq(DebtRecords), NEW now
  PROVE  /\ Len(SettleDebts(ls, ds, now)) = Len(ds)
         /\ \A d \in 1..Len(ds) : Collects(ds[d], SettleDebts(ls, ds, now)[d])
<1> DEFINE pay == Collection(ls, ds, now)
           new == SettleDebts(ls, ds, now)
<1>1. /\ DOMAIN pay = OpenDebts(ds)
      /\ \A d \in OpenDebts(ds) : pay[d] \in Nat
  <2> HIDE DEF pay
  <2> QED BY CollectionBounds DEF pay
<1>2. \A d \in DOMAIN ds :
         \/ new[d] = ds[d]
         \/ d \in DOMAIN pay /\ new[d] =
              [ds[d] EXCEPT !.out = @ - pay[d], !.billed = @ + pay[d]]
  BY Zenon DEF SettleDebts
<1>3. Len(new) = Len(ds) /\ DOMAIN ds = 1..Len(ds)
  BY SettlingDebts, LotsFinite, Zenon
<1> HIDE DEF new, pay
<1>4. ASSUME NEW d \in DOMAIN ds PROVE Collects(ds[d], new[d])
  <2>1. /\ ds[d] \in DebtRecords /\ ds[d].out \in Nat /\ ds[d].init \in Nat
        /\ ds[d].billed \in Nat /\ ds[d].row \in Nat
    BY DebtFields, Zenon
  <2>2. CASE new[d] = ds[d]
    BY <2>2, Zenon DEF Collects
  <2>3. CASE d \in DOMAIN pay /\ new[d] =
               [ds[d] EXCEPT !.out = @ - pay[d], !.billed = @ + pay[d]]
    <3>1. PICK p : p = pay[d]
      OBVIOUS
    <3>2. p \in Nat /\ ds[d].out > 0
      BY <1>1, <2>3, <3>1, Zenon DEF OpenDebts
    <3>3. /\ new[d].row = ds[d].row /\ new[d].init = ds[d].init
          /\ new[d].out = ds[d].out - p /\ new[d].billed = ds[d].billed + p
      BY <2>1, <2>3, <3>1, Zenon DEF DebtRecords
    <3> HIDE <2>3
    <3>4. PICK a, b : a = ds[d].out /\ b = ds[d].billed
      BY Zenon
    <3>5. a \in Nat /\ b \in Nat /\ a > 0 /\ new[d].out = a - p /\ new[d].billed = b + p
      BY <2>1, <3>2, <3>3, <3>4, Zenon
    <3>6. new[d].out + new[d].billed = a + b /\ a # 0
      BY <3>2, <3>5
    <3> QED BY <3>3, <3>4, <3>6, Zenon DEF Collects
  <2> QED BY <1>2, <2>2, <2>3, Zenon
<1> QED BY <1>3, <1>4, Zenon DEF new

-------------------------------------------------------------------------------
(* One lemma per action that posts a row.                                  *)

\* credit(): a grant, out of which debts may be collected.
LEMMA CreditMoney ==
  ASSUME TypeOK, NEW key \in Keys \cup {NoKey}, NEW c \in Amounts,
         NEW exp \in Deadlines, NEW settle \in BOOLEAN,
         Credit(key, c, exp, settle)
  PROVE  MoneyStep
<1> DEFINE E == 0..Never
           l == [rem |-> c, exp |-> exp, grant |-> NextRow, expired |-> 0]
           granted(now) == Append(ExpireDueLots(lots, now), l)
           row == [Entry("grant", c) EXCEPT !.key = key]
<1>1. PICK now \in Readings :
        /\ Post(row)
        /\ debts' = IF settle THEN SettleDebts(granted(now), debts, now) ELSE debts
  BY Zenon DEF Credit
<1>2. c \in Nat /\ l \in LotWith(E)
  <2>1. c \in Nat /\ exp \in E /\ NextRow \in Nat /\ 0 \in Nat
    BY Types, Indexes
  <2> HIDE DEF E
  <2> QED BY <2>1, Zenon DEF LotWith
<1> HIDE DEF l
<1>3. DebtsCollect
  <2>1. CASE settle
    <3>1. PICK all : all = granted(now)
      OBVIOUS
    <3>2. all \in Seq(LotWith(E))
      <4> DEFINE swept == ExpireDueLots(lots, now)
      <4>1. swept \in Seq(LotWith(E)) /\ all = Append(swept, l)
        BY <3>1, Swept, Zenon
      <4> HIDE DEF swept, E
      <4> QED BY <1>2, <4>1, AppendProperties
    <3>3. debts' = SettleDebts(all, debts, now) /\ debts \in Seq(DebtRecords)
      BY <1>1, <2>1, <3>1, DebtsTyped, Zenon
    <3> HIDE DEF granted, E
    <3> QED BY <3>2, <3>3, SettlingCollects, Zenon DEF DebtsCollect
  <2>2. CASE ~settle
    BY <1>1, <2>2, DebtsAlone, Zenon
  <2> QED BY <2>1, <2>2, Zenon
<1>4. row \in Row /\ row.type = "grant" /\ row.delta = c /\ row.reversed = FALSE
  <2>1. "grant" \in RowType /\ c \in Int /\ 0 \in Nat
    BY <1>2 DEF RowType
  <2>2. Entry("grant", c) \in Row
    BY <2>1, Zenon DEF Entry, Row
  <2> QED BY <2>2, Zenon DEF Row, Entry
<1>5. ledger' = Append(ledger, row)
  BY <1>1, Zenon DEF Post
<1> HIDE DEF row
<1>6. Allowed(row)
  BY <1>2, <1>4 DEF Allowed, Clawbacks
<1> QED BY <1>3, <1>4, <1>5, <1>6, RowAllowed, Zenon

\* debit(): a charge, and the debt it falls short by.
LEMMA DebitMoney ==
  ASSUME TypeOK, NEW key \in Keys \cup {NoKey}, NEW c \in Amounts,
         NEW partial \in BOOLEAN, Debit(key, c, partial)
  PROVE  MoneyStep
<1> DEFINE there(now) == LiveBalance(ExpireDueLots(lots, now), now)
           charged(now) == IF partial THEN Clip(c, there(now)) ELSE c
           row(n) == [Entry("charge", -n) EXCEPT !.key = key, !.requested = c]
<1>1. PICK now \in Readings :
        /\ Post(row(charged(now)))
        /\ debts' = IF charged(now) < c THEN OpenDebt(debts, c - charged(now), NextRow)
                                        ELSE debts
  BY Zenon DEF Debit
<1>2. PICK n : n = charged(now)
  OBVIOUS
<1>3. n \in Nat /\ c \in Nat
  <2>1. c \in Nat /\ there(now) \in Nat
    BY Types, Swept
  <2> HIDE DEF there
  <2>2. Clip(c, there(now)) \in 0..there(now)
    BY <2>1, ClipBounds
  <2> QED BY <1>2, <2>1, <2>2
<1>4. /\ ledger' = Append(ledger, row(n))
      /\ debts' = IF n < c THEN OpenDebt(debts, c - n, NextRow) ELSE debts
  BY <1>1, <1>2, Zenon DEF Post
<1> HIDE DEF charged, there
<1>5. row(n) \in Row /\ row(n).type = "charge" /\ row(n).reversed = FALSE
  <2>1. "charge" \in RowType /\ -n \in Int /\ 0 \in Nat
    BY <1>3 DEF RowType
  <2>2. Entry("charge", -n) \in Row
    BY <2>1, Zenon DEF Entry, Row
  <2> QED BY <1>3, <2>2, Zenon DEF Row, Entry
<1> HIDE DEF row
<1>6. /\ Len(ledger') = NextRow
      /\ DebtsCollect \/ DebtOpens => MoneyStep
  BY <1>4, <1>5, OtherRows, RowAllowed
<1>7. DebtsCollect \/ DebtOpens
  <2>1. CASE n < c
    <3>1. c - n \in Nat
      BY <1>3, <2>1
    <3> QED BY <1>4, <1>6, <2>1, <3>1, DebtOpened, Zenon
  <2>2. CASE ~(n < c)
    BY <1>4, <2>2, DebtsAlone, Zenon
  <2> QED BY <2>1, <2>2, Zenon
<1> QED BY <1>6, <1>7

\* _meter_only_debit(): a charge of nothing.
LEMMA MeterOnlyDebitMoney ==
  ASSUME TypeOK, NEW key \in Keys \cup {NoKey}, MeterOnlyDebit(key)
  PROVE  MoneyStep
<1> DEFINE row == [Entry("charge", 0) EXCEPT !.key = key]
<1>1. ledger' = Append(ledger, row) /\ UNCHANGED debts
  BY Zenon DEF MeterOnlyDebit, Post
<1>2. row \in Row /\ row.type = "charge" /\ row.reversed = FALSE
  <2>1. "charge" \in RowType /\ 0 \in Int /\ 0 \in Nat
    BY DEF RowType
  <2>2. Entry("charge", 0) \in Row
    BY <2>1, Zenon DEF Entry, Row
  <2> QED BY <2>2, Zenon DEF Row, Entry
<1> HIDE DEF row
<1> QED BY <1>1, <1>2, OtherRows, RowAllowed, DebtsAlone

\* capture(), in each of its forms: the charge of a hold.
LEMMA ChargeMoney ==
  ASSUME TypeOK, NEW h \in HoldKeys, NEW actual \in Nat, NEW alloc,
         ChargeHold(h, actual, alloc), UNCHANGED debts
  PROVE  MoneyStep
<1> DEFINE row == [Entry("capture", -actual) EXCEPT !.hold = h]
<1>1. ledger' = Append(ledger, row)
  BY Zenon DEF ChargeHold, Post
<1>2. row \in Row /\ row.type = "capture" /\ row.reversed = FALSE
  <2>1. "capture" \in RowType /\ -actual \in Int /\ 0 \in Nat
    BY DEF RowType
  <2>2. Entry("capture", -actual) \in Row
    BY <2>1, Zenon DEF Entry, Row
  <2> QED BY <2>2, Zenon DEF Row, Entry
<1> HIDE DEF row
<1> QED BY <1>1, <1>2, OtherRows, RowAllowed, DebtsAlone

\* A capture posts one charge and opens no debt.
LEMMA CaptureMoney ==
  ASSUME TypeOK, NEW h \in HoldKeys, NEW actual \in Amounts \cup {0},
         CaptureWithin(h, actual) \/ CaptureBeyond(h, actual) \/ MeterOnlyCapture(h)
  PROVE  MoneyStep
<1>1. actual \in Nat /\ 0 \in Nat
  BY Types
<1>2. CASE CaptureWithin(h, actual)
  BY <1>1, <1>2, ChargeMoney, Zenon DEF CaptureWithin
<1>3. CASE CaptureBeyond(h, actual)
  BY <1>1, <1>3, ChargeMoney, Zenon DEF CaptureBeyond
<1>4. CASE MeterOnlyCapture(h)
  BY <1>1, <1>4, ChargeMoney, Zenon DEF MeterOnlyCapture
<1> QED BY <1>2, <1>3, <1>4

\* claw_back_grant(): asks for what its target leaves after earlier clawbacks.
LEMMA ClawBackGrantMoney ==
  ASSUME TypeOK, NEW g \in DOMAIN ledger, NEW reason \in Reasons,
         NEW target \in 1..ledger[g].delta, ClawBackGrant(g, target, reason)
  PROVE  MoneyStep
<1> DEFINE ls == ExpireDueLots(lots, clock)
           wanted == target - AlreadyClawedBack(g)
           taken(n) == Reclaim(ls, g, n)
           short(n, m) == (n - m) - Clip(n - m, ExpiredOf(ls, g))
           row(n, m) == [Entry(reason, -m) EXCEPT !.of = g, !.requested = n]
<1>1. PICK n, m : n = wanted /\ m = SumFunction(taken(n))
  OBVIOUS
<1>2. /\ n > 0
      /\ ledger' = Append(ledger, row(n, m))
      /\ debts' = IF short(n, m) > 0 THEN OpenDebt(debts, short(n, m), NextRow)
                                     ELSE debts
  BY <1>1, Zenon DEF ClawBackGrant, Post
<1>3. n \in Nat /\ n \in Int /\ n + AlreadyClawedBack(g) <= ledger[g].delta
  <2>1. target \in Int /\ AlreadyClawedBack(g) \in Nat
        /\ ledger[g].delta \in Int /\ target <= ledger[g].delta
    BY AlreadyNat, RowFields
  <2> QED BY <1>1, <1>2, <2>1
<1> HIDE DEF wanted
<1>4. m \in Nat /\ ExpiredOf(ls, g) \in Nat
  BY <1>1, <1>3, ReclaimStep, Zenon
<1> HIDE DEF ls, taken
<1>5. /\ row(n, m) \in Row /\ row(n, m).type = reason /\ row(n, m).of = g
      /\ row(n, m).requested = n /\ row(n, m).reversed = FALSE
  <2>1. reason \in RowType /\ -m \in Int /\ 0 \in Nat
    BY <1>4, Types DEF RowType
  <2>2. g \in Nat
    BY RowFields, Zenon
  <2>3. Entry(reason, -m) \in Row
    BY <2>1, Zenon DEF Entry, Row
  <2> QED BY <1>3, <2>2, <2>3, Zenon DEF Row, Entry
<1> HIDE DEF row
<1>6. Allowed(row(n, m))
  <2>1. reason # "grant"
    BY Types
  <2> QED BY <1>3, <1>5, <2>1, Zenon DEF Allowed
<1>7. /\ Len(ledger') = NextRow
      /\ DebtsCollect \/ DebtOpens => MoneyStep
  BY <1>2, <1>5, <1>6, RowAllowed
<1>8. DebtsCollect \/ DebtOpens
  <2>1. CASE short(n, m) > 0
    <3>1. n - m \in Int
      BY <1>3, <1>4
    <3>2. Clip(n - m, ExpiredOf(ls, g)) \in Int
      BY <1>4, <3>1, ClipBounds
    <3>3. short(n, m) \in Nat
      BY <2>1, <3>1, <3>2
    <3> HIDE DEF short
    <3> QED BY <1>2, <1>7, <2>1, <3>3, DebtOpened, Zenon
  <2>2. CASE ~(short(n, m) > 0)
    BY <1>2, <2>2, DebtsAlone, Zenon
  <2> QED BY <2>1, <2>2, Zenon
<1> QED BY <1>7, <1>8

\* The mark on a clawback that was undone is all that changes in the ledger ...
LEMMA MarkOnly ==
  ASSUME TypeOK, NEW r \in DOMAIN ledger
  PROVE  \A s \in 1..Len(ledger) :
           /\ Reversed(r)[s].type = ledger[s].type /\ Reversed(r)[s].of = ledger[s].of
           /\ Reversed(r)[s].delta = ledger[s].delta
           /\ Reversed(r)[s].requested = ledger[s].requested
           /\ Reversed(r)[s].reversed = (s = r \/ ledger[s].reversed)
<1> DEFINE new == Reversed(r)
<1>1. DOMAIN ledger = 1..Len(ledger)
  BY Indexes
<1>2. \A s \in DOMAIN ledger :
        new[s] = IF s = r THEN [ledger[s] EXCEPT !.reversed = TRUE] ELSE ledger[s]
  BY Zenon DEF Reversed
<1> HIDE DEF new
<1>3. ASSUME NEW s \in DOMAIN ledger
      PROVE  /\ new[s].type = ledger[s].type /\ new[s].of = ledger[s].of
             /\ new[s].delta = ledger[s].delta /\ new[s].requested = ledger[s].requested
             /\ new[s].reversed = (s = r \/ ledger[s].reversed)
  <2>1. ledger[s] \in Row /\ ledger[s].reversed \in BOOLEAN
    BY RowFields, Zenon DEF Row
  <2>2. CASE s # r
    <3>1. new[s] = ledger[s]
      BY <1>2, <2>2, Zenon
    <3> QED BY <2>1, <2>2, <3>1
  <2>3. CASE s = r
    <3>1. new[s] = [ledger[s] EXCEPT !.reversed = TRUE]
      BY <1>2, <2>3, Zenon
    <3>2. /\ new[s].type = ledger[s].type /\ new[s].of = ledger[s].of
          /\ new[s].delta = ledger[s].delta /\ new[s].requested = ledger[s].requested
          /\ new[s].reversed = TRUE
      BY <2>1, <3>1, Zenon DEF Row
    <3> QED BY <2>3, <3>2
  <2> QED BY <2>2, <2>3
<1> QED BY <1>1, <1>3, Zenon DEF new

\* ... and its debt, closed, keeps what it had collected.
LEMMA ClosedOnly ==
  ASSUME TypeOK, NEW r
  PROVE  \A d \in 1..Len(debts) :
           IF debts[d].row = r
             THEN /\ CancelDebts(r)[d].row = r /\ CancelDebts(r)[d].out = 0
                  /\ CancelDebts(r)[d].billed = debts[d].billed
             ELSE CancelDebts(r)[d] = debts[d]
<1> DEFINE new == CancelDebts(r)
<1>1. DOMAIN debts = 1..Len(debts)
  BY Indexes
<1>2. \A d \in DOMAIN debts :
        new[d] = IF debts[d].row = r THEN [debts[d] EXCEPT !.out = 0] ELSE debts[d]
  BY Zenon DEF CancelDebts, DebtsOf
<1> HIDE DEF new
<1>3. ASSUME NEW d \in DOMAIN debts, debts[d].row = r
      PROVE  new[d].row = r /\ new[d].out = 0 /\ new[d].billed = debts[d].billed
  <2>1. debts[d] \in DebtRecords
    BY DebtsTyped, DebtFields, Zenon
  <2>2. new[d] = [debts[d] EXCEPT !.out = 0]
    BY <1>2, <1>3, Zenon
  <2> QED BY <1>3, <2>1, <2>2, Zenon DEF DebtRecords
<1> QED BY <1>1, <1>2, <1>3, Zenon DEF new

\* _reverse_clawback() undoes its dispute; the other debts take their share.
LEMMA ReverseClawbackMoney ==
  ASSUME IInv, NEW r \in DOMAIN ledger, ReverseClawback(r)
  PROVE  MoneyStep
<1> DEFINE E == 0..Never
           g == ledger[r].of
           template == CHOOSE i \in GrantedLots(lots, g) :
                         \A j \in GrantedLots(lots, g) : i <= j
           back == Collected(r) - ledger[r].delta
           lot(n) == [rem |-> n, exp |-> lots[template].exp, grant |-> g, expired |-> 0]
           row(n) == [Entry("restored", n) EXCEPT !.of = r]
           restored(n, now) == ExpireDueLots(Append(lots, lot(n)), now)
<1>1. TypeOK
  BY DEF IInv
<1>2. PICK given : given = back
  OBVIOUS
<1>3. PICK now \in Readings :
        /\ ledger[r].type = "dispute" /\ ~ledger[r].reversed
        /\ IF given > 0
             THEN /\ ledger' = Append(Reversed(r), row(given))
                  /\ debts' = SettleDebts(restored(given, now), CancelDebts(r), now)
             ELSE /\ ledger' = Reversed(r)
                  /\ debts' = CancelDebts(r)
  BY <1>2, Zenon DEF ReverseClawback
<1>4. /\ Reversed(r) \in Seq(Row) /\ Len(Reversed(r)) = Len(ledger)
      /\ r \in 1..Len(ledger)
  BY <1>1, ReversedRows, RowFields, Zenon
<1>5. PICK marked : marked = Reversed(r)
  OBVIOUS
<1>6. \A s \in 1..Len(ledger) :
        /\ marked[s].type = ledger[s].type /\ marked[s].of = ledger[s].of
        /\ marked[s].delta = ledger[s].delta
        /\ marked[s].requested = ledger[s].requested
        /\ marked[s].reversed = (s = r \/ ledger[s].reversed)
  BY <1>1, <1>5, MarkOnly, Zenon
<1>7. PICK closed : closed = CancelDebts(r)
  OBVIOUS
<1>8. /\ closed \in Seq(DebtRecords) /\ Len(closed) = Len(debts)
      /\ \A d \in 1..Len(debts) :
           IF debts[d].row = r
             THEN /\ closed[d].row = r /\ closed[d].out = 0
                  /\ closed[d].billed = debts[d].billed
             ELSE closed[d] = debts[d]
  BY <1>1, <1>7, CancelledDebts, ClosedOnly, Zenon
<1>9. CASE given > 0
  <2>1. /\ ledger' = Append(marked, row(given))
        /\ debts' = SettleDebts(restored(given, now), closed, now)
    BY <1>3, <1>5, <1>7, <1>9, Zenon
  <2>2. given \in Nat /\ given \in Int /\ g \in Nat /\ r \in Nat
    <3>1. Collected(r) \in Int /\ ledger[r].delta \in Int /\ g \in Nat /\ r \in Nat
      BY <1>1, CollectedInt, RowFields, Zenon
    <3> HIDE DEF g
    <3> QED BY <1>2, <1>9, <3>1
  <2>3. template \in DOMAIN lots
    BY <1>3, TemplateLot, Zenon
  <2> HIDE DEF template, g, back
  <2>4. lots \in Seq(LotWith(E))
    BY <1>1, Types, Zenon DEF TypeOK
  <2>5. lot(given) \in LotWith(E)
    <3>1. lots[template].exp \in E /\ 0 \in Nat
      BY <2>3, <2>4, LotFields
    <3> HIDE DEF E
    <3> QED BY <2>2, <3>1, Zenon DEF LotWith
  <2> HIDE DEF lot, E
  <2>6. restored(given, now) \in Seq(LotWith(E))
    <3>1. Append(lots, lot(given)) \in Seq(LotWith(E))
      BY <2>4, <2>5, AppendProperties
    <3> QED BY <3>1, ExpireDescends, Zenon
  <2> HIDE DEF restored
  <2>7. /\ Len(debts') = Len(closed)
        /\ \A d \in 1..Len(closed) : Collects(closed[d], debts'[d])
    BY <1>8, <2>1, <2>6, SettlingCollects, Zenon
  <2>8. /\ Len(debts') = Len(debts)
        /\ \A d \in 1..Len(debts) :
             IF debts[d].row = r
               THEN debts'[d].row = r /\ debts'[d].out = 0 /\ debts'[d].billed = debts[d].billed
               ELSE Collects(debts[d], debts'[d])
    BY <1>8, <2>7, Zenon DEF Collects
  <2>9. /\ row(given) \in Row /\ row(given).type = "restored" /\ row(given).of = r
        /\ row(given).delta = given /\ row(given).reversed = FALSE
    <3>1. "restored" \in RowType /\ 0 \in Nat
      BY DEF RowType
    <3>2. Entry("restored", given) \in Row
      BY <2>2, <3>1, Zenon DEF Entry, Row
    <3> QED BY <2>2, <3>2, Zenon DEF Row, Entry
  <2> HIDE DEF row
  <2>10. /\ Len(ledger') = NextRow /\ ledger'[NextRow] = row(given)
         /\ \A s \in 1..Len(ledger) : ledger'[s] = marked[s]
    <3>1. marked \in Seq(Row) /\ Len(marked) = Len(ledger)
      BY <1>4, <1>5, Zenon
    <3> QED BY <2>1, <2>9, <3>1, AppendProperties DEF NextRow
  <2>11. Collected(r) - ledger[r].delta > 0 /\ Collected(r) - ledger[r].delta = given
    BY <1>2, <1>9 DEF back
  <2>12. RowsStay /\ \A s \in 1..Len(ledger) :
                        ledger'[s].reversed = (s = r \/ ledger[s].reversed)
    BY <1>6, <2>10, Zenon DEF RowsStay
  <2>13. ledger[r].type = "dispute" /\ ~ledger[r].reversed
    BY <1>3
  <2>14. /\ Len(ledger') = NextRow /\ ledger'[NextRow].type = "restored"
         /\ ~ledger'[NextRow].reversed /\ ledger'[NextRow].of = r
         /\ ledger'[NextRow].delta = Collected(r) - ledger[r].delta
    <3>1. ~row(given).reversed
      BY <2>9
    <3> QED BY <2>9, <2>10, <2>11, <3>1, Zenon
  <2>15. Undoes(r)
    BY <2>8, <2>11, <2>12, <2>13, <2>14, Zenon DEF Undoes
  <2> QED BY <1>4, <2>15, Zenon DEF MoneyStep
<1>10. CASE ~(given > 0)
  <2>1. ledger' = marked /\ debts' = closed
    BY <1>3, <1>5, <1>7, <1>10, Zenon
  <2>2. ~(Collected(r) - ledger[r].delta > 0)
    BY <1>2, <1>10
  <2>3. /\ Len(ledger') = Len(ledger) /\ Len(debts') = Len(debts)
        /\ \A d \in 1..Len(debts) :
             IF debts[d].row = r
               THEN debts'[d].row = r /\ debts'[d].out = 0 /\ debts'[d].billed = debts[d].billed
               ELSE Collects(debts[d], debts'[d])
    BY <1>4, <1>5, <1>8, <2>1, Zenon DEF Collects
  <2> QED BY <1>3, <1>4, <1>6, <2>1, <2>2, <2>3, Zenon DEF MoneyStep, Undoes, RowsStay
<1> QED BY <1>9, <1>10, Zenon

\* Every step of the wallet is quiet or undoes a dispute.
LEMMA NextIsMoneyStep ==
  ASSUME IInv, [Next]_vars
  PROVE  MoneyStep
<1>1. TypeOK
  BY DEF IInv
<1>2. ASSUME UNCHANGED <<debts, ledger>> PROVE MoneyStep
  BY <1>1, <1>2, NothingHappens
<1>3. CASE Tick
  BY <1>2, <1>3, Zenon DEF Tick
<1>4. CASE Spend
  BY <1>1, <1>4, CreditMoney, DebitMoney, MeterOnlyDebitMoney, Zenon DEF Spend
<1>5. CASE Reserve
  <2>1. PICK h \in HoldKeys :
          \/ \E c \in Amounts, exp \in Deadlines, waived \in Waivers :
               Hold(h, c, exp, waived)
          \/ \E actual \in Amounts \cup {0} :
               CaptureWithin(h, actual) \/ CaptureBeyond(h, actual)
          \/ MeterOnlyCapture(h)
          \/ Release(h)
    BY <1>5, Zenon DEF Reserve
  <2>2. ASSUME NEW c \in Amounts, NEW exp \in Deadlines, NEW waived \in Waivers,
               Hold(h, c, exp, waived)
        PROVE  MoneyStep
    BY <1>2, <2>2, Zenon DEF Hold
  <2>3. CASE Release(h)
    BY <1>2, <2>3, Zenon DEF Release, GiveBack
  <2>4. 0 \in Amounts \cup {0}
    OBVIOUS
  <2> QED BY <1>1, <2>1, <2>2, <2>3, <2>4, CaptureMoney, Zenon
<1>6. CASE Workers
  BY <1>2, <1>6, Zenon DEF Workers, ListStaleHolds, ExpireHold, GiveBack, ExpireCreditLots
<1>7. CASE MoneyBack
  BY <1>1, <1>7, ClawBackGrantMoney, ReverseClawbackMoney, Zenon DEF MoneyBack
<1>8. CASE UNCHANGED vars
  BY <1>2, <1>8, Zenon DEF vars
<1> QED BY <1>3, <1>4, <1>5, <1>6, <1>7, <1>8, Zenon DEF Next

-------------------------------------------------------------------------------
\* Fewer amounts add up to no more.
LEMMA SumOfFewer ==
  ASSUME NEW f, NEW S, IsFiniteSet(S), NEW T \in SUBSET S, \A x \in S : f[x] \in Nat
  PROVE  /\ SumFunctionOnSet(f, T) \in Nat /\ SumFunctionOnSet(f, S) \in Nat
         /\ SumFunctionOnSet(f, T) <= SumFunctionOnSet(f, S)
<1>1. IsFiniteSet(T) /\ IsFiniteSet(S \ T) /\ T \cap (S \ T) = {} /\ T \cup (S \ T) = S
  BY FS_Subset
<1>2. PICK a, b, c : /\ a = SumFunctionOnSet(f, T) /\ b = SumFunctionOnSet(f, S \ T)
                     /\ c = SumFunctionOnSet(f, S)
  OBVIOUS
<1>3. a \in Nat /\ b \in Nat /\ c \in Nat
  BY <1>1, <1>2, SumNat
<1>4. \A x \in T \cup (S \ T) : f[x] \in Int
  BY <1>1
<1>5. c = a + b
  BY <1>1, <1>2, <1>4, SumUnion, Zenon
<1>6. a <= c
  BY <1>3, <1>5
<1> QED BY <1>2, <1>3, <1>6, Zenon

WithinGrant(g) == AlreadyClawedBack(g) <= ledger[g].delta

\* A step takes no grant beyond what it granted.
LEMMA ClawbacksStayWithin ==
  ASSUME IInv, ClawbacksWithinGrant, Step, MoneyStep
  PROVE  ClawbacksWithinGrant'
<1> DEFINE f == [r \in DOMAIN ledger |-> ledger[r].requested]
           fn == [r \in DOMAIN ledger' |-> ledger'[r].requested]
           S(g) == ClawbacksOf(g)
           Sn(g) == {r \in DOMAIN ledger' : /\ ledger'[r].of = g
                                            /\ ledger'[r].type \in Clawbacks
                                            /\ ~ledger'[r].reversed}
<1>1. TypeOK /\ GrantsHaveLots /\ LedgerStep /\ Len(ledger) \in Nat
      /\ NextRow = Len(ledger) + 1 /\ DOMAIN ledger = 1..Len(ledger)
      /\ ledger \in Seq(Row) /\ ledger' \in Seq(Row)
  BY Indexes, Zenon DEF IInv, Step, LedgerStep, TypeOK
<1>2. /\ Len(ledger') \in Nat /\ DOMAIN ledger' = 1..Len(ledger')
      /\ 1..Len(ledger) \subseteq 1..Len(ledger')
      /\ \A r \in 1..Len(ledger') :
           r \in 1..Len(ledger) \/ (r = NextRow /\ Len(ledger') = NextRow)
  BY LedgerKept
<1>3. /\ RowsStay
      /\ \A r \in 1..Len(ledger) : ledger[r].reversed => ledger'[r].reversed
      /\ Len(ledger') = NextRow =>
           Allowed(ledger'[NextRow]) \/ ledger'[NextRow].type = "restored"
  <2>1. CASE Quiet
    BY <2>1, Zenon DEF Quiet
  <2>2. CASE \E r \in 1..Len(ledger) : Undoes(r)
    <3>1. PICK r \in 1..Len(ledger) : Undoes(r)
      BY <2>2
    <3>2. Len(ledger) # NextRow
      <4>1. Len(ledger) \in Nat /\ NextRow = Len(ledger) + 1
        BY <1>1
      <4> HIDE DEF NextRow
      <4> QED BY <4>1
    <3>3. \A s \in 1..Len(ledger) : ledger[s].reversed => ledger'[s].reversed
      BY <3>1, Zenon DEF Undoes
    <3> QED BY <3>1, <3>2, <3>3, Zenon DEF Undoes
  <2> QED BY <2>1, <2>2, Zenon DEF MoneyStep
<1>4. NextRow \notin 1..Len(ledger)
  <2> HIDE DEF NextRow
  <2> QED BY <1>1
<1> HIDE DEF NextRow
<1>5. \A g : IsFiniteSet(S(g)) /\ S(g) \subseteq 1..Len(ledger) /\ IsFiniteSet(Sn(g))
  <2>1. \A g : S(g) \subseteq DOMAIN ledger /\ Sn(g) \subseteq DOMAIN ledger'
    BY Zenon DEF ClawbacksOf
  <2> QED BY <1>1, <2>1, LotsFinite, Zenon
<1>6. /\ \A r \in 1..Len(ledger) : f[r] \in Nat /\ f[r] = ledger[r].requested
      /\ \A r \in 1..Len(ledger') : fn[r] \in Nat /\ fn[r] = ledger'[r].requested
      /\ \A r \in 1..Len(ledger) : fn[r] = f[r]
  <2>1. \A r \in 1..Len(ledger) : f[r] \in Nat /\ f[r] = ledger[r].requested
    BY <1>1, RowFields, Zenon
  <2>2. \A r \in 1..Len(ledger') : fn[r] \in Nat /\ fn[r] = ledger'[r].requested
    <3>1. ASSUME NEW r \in 1..Len(ledger') PROVE ledger'[r].requested \in Nat
      <4>1. ledger'[r] \in Row
        <5>1. ledger' \in Seq(Row)
          BY <1>1
        <5> QED BY <5>1
      <4> QED BY <4>1, Zenon DEF Row
    <3> QED BY <1>2, <3>1, Zenon
  <2>3. \A r \in 1..Len(ledger) : fn[r] = f[r]
    BY <1>2, <1>3, <2>1, <2>2, Zenon DEF RowsStay
  <2> QED BY <2>1, <2>2, <2>3, Zenon
<1>7. \A g : /\ AlreadyClawedBack(g) = SumFunctionOnSet(f, S(g))
             /\ \A r \in S(g) : f[r] \in Nat
  BY <1>5, <1>6, Zenon DEF AlreadyClawedBack
<1>8. ASSUME NEW g, NEW r \in Sn(g), r # NextRow
      PROVE  r \in S(g)
  <2>1. r \in 1..Len(ledger)
    BY <1>2, <1>8, Zenon
  <2>2. ledger[r].of = g /\ ledger[r].type \in Clawbacks /\ ~ledger[r].reversed
    BY <1>3, <1>8, <2>1, Zenon DEF RowsStay
  <2> QED BY <1>1, <2>1, <2>2, Zenon DEF ClawbacksOf, IsClawback, Clawbacks
<1> HIDE DEF f, fn, S
<1>9. ASSUME NEW g \in 1..Len(ledger'), ledger'[g].type = "grant"
      PROVE  SumFunctionOnSet(fn, Sn(g)) <= ledger'[g].delta
  <2>1. CASE g \in 1..Len(ledger)
    <3>1. /\ ledger[g].type = "grant" /\ ledger'[g].delta = ledger[g].delta
          /\ ledger[g].delta \in Int
      BY <1>1, <1>3, <1>9, <2>1, RowFields, Zenon DEF RowsStay
    <3>2. PICK delta, already : delta = ledger[g].delta /\ already = SumFunctionOnSet(f, S(g))
      BY Zenon
    <3>3. delta \in Int /\ already \in Nat /\ already <= delta
      <4>1. already \in Nat
        BY <1>5, <1>7, <3>2, SumNat, Zenon
      <4>2. AlreadyClawedBack(g) <= ledger[g].delta
        BY <1>1, <2>1, <3>1, Zenon
           DEF ClawbacksWithinGrant, AlreadyClawedBack, ClawbacksOf, IsClawback
      <4> QED BY <1>7, <3>1, <3>2, <4>1, <4>2, Zenon
    <3> DEFINE T == Sn(g) \ {NextRow}
    <3>4. /\ T \subseteq S(g) /\ IsFiniteSet(T)
          /\ \A r \in T : r \in 1..Len(ledger) /\ r \in 1..Len(ledger')
      <4>1. T \subseteq S(g)
        BY <1>8, Zenon
      <4> QED BY <1>2, <1>5, <4>1, FS_Subset
    <3>5. /\ SumFunctionOnSet(fn, T) = SumFunctionOnSet(f, T)
          /\ SumFunctionOnSet(f, T) \in Nat /\ SumFunctionOnSet(f, T) <= already
      <4>1. \A r \in T : fn[r] = f[r]
        BY <1>6, <3>4, Zenon
      <4> HIDE DEF T
      <4>2. SumFunctionOnSet(fn, T) = SumFunctionOnSet(f, T)
        BY <3>4, <4>1, SumEqual, Zenon
      <4>3. T \in SUBSET S(g)
        BY <3>4
      <4> QED BY <1>5, <1>7, <3>2, <4>2, <4>3, SumOfFewer, Zenon
    <3>6. CASE NextRow \in Sn(g)
      <4>1. /\ NextRow \in 1..Len(ledger') /\ Len(ledger') = NextRow
            /\ ledger'[NextRow].of = g /\ ledger'[NextRow].type \in Clawbacks
        BY <1>2, <1>4, <3>6, Zenon
      <4>2. Allowed(ledger'[NextRow])
        <5>1. ledger'[NextRow].type # "restored"
          BY <4>1 DEF Clawbacks
        <5> QED BY <1>3, <4>1, <5>1, Zenon
      <4>3. fn[NextRow] \in Nat /\ fn[NextRow] + already <= delta
        BY <1>6, <1>7, <3>2, <4>1, <4>2, Zenon DEF Allowed
      <4>4. Sn(g) = T \cup {NextRow} /\ NextRow \notin T
        BY <3>6
      <4>5. \A r \in T \cup {NextRow} : fn[r] \in Int
        <5>1. \A r \in T \cup {NextRow} : r \in 1..Len(ledger')
          BY <3>4, <4>1
        <5>2. \A r \in T \cup {NextRow} : fn[r] \in Nat
          BY <1>6, <5>1, Zenon
        <5> HIDE DEF T
        <5> QED BY <5>2
      <4> HIDE DEF T, Sn
      <4>6. SumFunctionOnSet(fn, Sn(g)) = SumFunctionOnSet(fn, T) + fn[NextRow]
        BY <3>4, <4>4, <4>5, SumAdd, Zenon
      <4>7. PICK part, last : part = SumFunctionOnSet(fn, T) /\ last = fn[NextRow]
        BY Zenon
      <4>8. part \in Nat /\ part <= already /\ last \in Nat /\ last + already <= delta
        BY <3>5, <4>3, <4>7, Zenon
      <4>9. part + last <= delta
        BY <3>3, <4>8
      <4> QED BY <3>1, <3>2, <4>6, <4>7, <4>9, Zenon
    <3>7. CASE NextRow \notin Sn(g)
      <4>1. T = Sn(g)
        BY <3>7
      <4> HIDE DEF T, Sn
      <4>2. PICK part : part = SumFunctionOnSet(fn, T)
        OBVIOUS
      <4>3. part \in Nat /\ part <= already
        BY <3>5, <4>2, Zenon
      <4>4. part <= delta
        BY <3>3, <4>3
      <4> QED BY <3>1, <3>2, <4>1, <4>2, <4>4, Zenon
    <3> QED BY <3>6, <3>7
  <2>2. CASE g = NextRow /\ Len(ledger') = NextRow
    <3>1. Sn(g) = {}
      <4> SUFFICES ASSUME NEW r \in Sn(g) PROVE FALSE
        OBVIOUS
      <4>1. /\ ledger'[r].of = NextRow /\ ledger'[r].type \in Clawbacks
            /\ r \in DOMAIN ledger'
        BY <2>2, Zenon
      <4>2. r # NextRow
        BY <1>9, <2>2, <4>1 DEF Clawbacks
      <4>3. r \in 1..Len(ledger) /\ r \in 1..Len(ledger')
        BY <1>2, <4>1, <4>2, Zenon
      <4>4. ledger[r].of = NextRow /\ ledger[r].type \in Clawbacks
        BY <1>3, <4>1, <4>3, Zenon DEF RowsStay
      <4> QED BY <1>1, <1>4, <4>3, <4>4, Zenon DEF GrantsHaveLots, Clawbacks
    <3>2. Allowed(ledger'[NextRow])
      BY <1>3, <1>9, <2>2
    <3>3. ledger'[g].delta \in Nat
      BY <1>9, <2>2, <3>2, Zenon DEF Allowed
    <3>4. SumFunctionOnSet(fn, Sn(g)) = 0
      BY <3>1, SumEmpty, Zenon
    <3> HIDE DEF Sn
    <3> QED BY <3>3, <3>4
  <2> QED BY <1>2, <2>1, <2>2, Zenon
<1> QED BY <1>2, <1>9, Zenon DEF ClawbacksWithinGrant, IsClawback, Clawbacks, fn

\* However refunds and disputes of one grant are mixed, repeated and undone
\* (claw_back_grant, _already_clawed_back, _reverse_clawback), they never ask
\* for more than the grant gave.
THEOREM ClawbacksCorrect == Spec => []ClawbacksWithinGrant
<1>1. Init => ClawbacksWithinGrant
  <2>1. Init => ledger = << >> /\ DOMAIN << >> = {}
    BY DEF Init
  <2> QED BY <2>1, Zenon DEF ClawbacksWithinGrant
<1>2. ClawbacksWithinGrant /\ IInv /\ [Next]_vars => ClawbacksWithinGrant'
  BY NextIsStep, NextIsMoneyStep, ClawbacksStayWithin
<1> QED BY <1>1, <1>2, Invariance, PTL DEF Spec

-------------------------------------------------------------------------------
\* A row opens at most one debt.
OneDebtARow ==
  \A d, e \in 1..Len(debts) : debts[d].row = debts[e].row => d = e

\* What DebtsAccountedFor says of one debt of ds, given the ledger rows.
Right(d, ds, rows) ==
  LET r == ds[d].row
  IN  IF rows[r].reversed
        THEN /\ ds[d].out = 0
             /\ ds[d].billed - rows[r].delta > 0 =>
                  \E s \in DOMAIN rows :
                    /\ rows[s].type = "restored" /\ rows[s].of = r
                    /\ rows[s].delta = ds[d].billed - rows[r].delta
        ELSE ds[d].out + ds[d].billed = ds[d].init

DInv == OneDebtARow /\ DebtsAccountedFor

\* The fields of a debt.
LEMMA DebtNumbers ==
  ASSUME TypeOK, NEW d \in 1..Len(debts)
  PROVE  /\ debts[d].out \in Nat /\ debts[d].init \in Nat /\ debts[d].billed \in Nat
         /\ debts[d].row \in 1..Len(ledger)
<1>1. d \in DOMAIN debts /\ debts \in Seq(DebtRecords) /\ debts[d].row \in 1..Len(ledger)
  BY DebtsTyped, Indexes
<1> QED BY <1>1, DebtFields, Zenon

\* A debt stays right while its row is not undone.
LEMMA DebtStaysRight ==
  ASSUME RowsStay, DOMAIN ledger \subseteq DOMAIN ledger', DOMAIN ledger = 1..Len(ledger),
         NEW d, debts[d].row \in 1..Len(ledger), Right(d, debts, ledger),
         Collects(debts[d], debts'[d]),
         ledger'[debts[d].row].reversed = ledger[debts[d].row].reversed
  PROVE  Right(d, debts', ledger')
<1>1. PICK r : r = debts[d].row
  OBVIOUS
<1>2. /\ r \in 1..Len(ledger) /\ debts'[d].row = r /\ debts'[d].init = debts[d].init
      /\ ledger'[r].reversed = ledger[r].reversed /\ ledger'[r].delta = ledger[r].delta
      /\ debts'[d].out + debts'[d].billed = debts[d].out + debts[d].billed
      /\ debts[d].out = 0 => debts'[d].out = 0 /\ debts'[d].billed = debts[d].billed
  BY <1>1, Zenon DEF Collects, RowsStay
<1>3. CASE ledger[r].reversed
  <2>1. /\ debts'[d].out = 0 /\ debts'[d].billed = debts[d].billed
        /\ debts[d].billed - ledger[r].delta > 0 =>
             \E s \in DOMAIN ledger :
               /\ ledger[s].type = "restored" /\ ledger[s].of = r
               /\ ledger[s].delta = debts[d].billed - ledger[r].delta
    BY <1>1, <1>2, <1>3, Zenon DEF Right
  <2>2. debts[d].billed - ledger[r].delta > 0 =>
          \E s \in DOMAIN ledger' :
            /\ ledger'[s].type = "restored" /\ ledger'[s].of = r
            /\ ledger'[s].delta = debts[d].billed - ledger[r].delta
    BY <2>1, Zenon DEF RowsStay
  <2> QED BY <1>2, <1>3, <2>1, <2>2, Zenon DEF Right
<1>4. CASE ~ledger[r].reversed
  <2>1. debts[d].out + debts[d].billed = debts[d].init
    BY <1>1, <1>4, Zenon DEF Right
  <2> QED BY <1>2, <1>4, <2>1, Zenon DEF Right
<1> QED BY <1>3, <1>4

\* What a row's one debt collected is what was billed for it.
LEMMA CollectedIsBilled ==
  ASSUME TypeOK, OneDebtARow, NEW d \in 1..Len(debts),
         debts[d].out + debts[d].billed = debts[d].init
  PROVE  Collected(debts[d].row) = debts[d].billed
<1> DEFINE f == [e \in DOMAIN debts |-> debts[e].init - debts[e].out]
<1>1. DOMAIN debts = 1..Len(debts)
  BY Indexes
<1>2. DebtsOf(debts[d].row) = {} \cup {d}
  BY <1>1 DEF DebtsOf, OneDebtARow
<1>3. f[d] = debts[d].billed /\ f[d] \in Int
  <2>1. f[d] = debts[d].init - debts[d].out
    BY <1>1
  <2> HIDE DEF f
  <2>2. debts[d].out \in Nat /\ debts[d].init \in Nat /\ debts[d].billed \in Nat
    BY DebtNumbers
  <2> QED BY <2>1, <2>2
<1> HIDE DEF f
<1>4. IsFiniteSet({}) /\ d \notin {} /\ \A x \in {} \cup {d} : f[x] \in Int
  BY <1>3, FS_EmptySet
<1>5. SumFunctionOnSet(f, {} \cup {d}) = SumFunctionOnSet(f, {}) + f[d]
  BY <1>4, SumAdd, Zenon
<1>6. SumFunctionOnSet(f, {}) = 0
  BY SumEmpty, Zenon
<1>7. SumFunctionOnSet(f, {} \cup {d}) = f[d]
  <2>1. PICK x, y : x = SumFunctionOnSet(f, {} \cup {d}) /\ y = f[d]
    BY Zenon
  <2>2. x = 0 + y /\ y \in Int
    BY <1>3, <1>5, <1>6, <2>1, Zenon
  <2>3. x = y
    BY <2>2
  <2> QED BY <2>1, <2>3, Zenon
<1>8. Collected(debts[d].row) = SumFunctionOnSet(f, {} \cup {d})
  BY <1>2, Zenon DEF Collected, f
<1> QED BY <1>3, <1>7, <1>8, Zenon

\* A quiet step: debts collect, or one opens for the row that is posted.
LEMMA QuietKeepsDebts ==
  ASSUME IInv, DInv, Step, Quiet
  PROVE  DInv'
<1>1. /\ TypeOK /\ Len(debts) \in Nat /\ DOMAIN debts = 1..Len(debts)
      /\ Len(ledger) \in Nat /\ NextRow = Len(ledger) + 1
      /\ DOMAIN ledger = 1..Len(ledger)
  BY Indexes, Zenon DEF IInv
<1>2. DOMAIN ledger \subseteq DOMAIN ledger' /\ NextRow \notin 1..Len(ledger)
  <2>1. DOMAIN ledger \subseteq DOMAIN ledger'
    BY <1>1, LedgerKept, Zenon
  <2> HIDE DEF NextRow
  <2> QED BY <1>1, <2>1
<1> HIDE DEF NextRow
<1>3. DOMAIN debts' = 1..Len(debts')
  BY DEF Step, DebtsStep
<1>4. /\ RowsStay /\ \A r \in 1..Len(ledger) : ledger'[r].reversed = ledger[r].reversed
      /\ Len(ledger') = NextRow => ~ledger'[NextRow].reversed
      /\ OneDebtARow /\ \A d \in 1..Len(debts) : Right(d, debts, ledger)
  BY <1>1, Zenon DEF Quiet, Allowed, DInv, DebtsAccountedFor, Right
<1>5. ASSUME NEW d \in 1..Len(debts), Collects(debts[d], debts'[d])
      PROVE  Right(d, debts', ledger') /\ debts'[d].row = debts[d].row
  <2>1. debts[d].row \in 1..Len(ledger)
    BY <1>1, DebtNumbers, Zenon
  <2> QED BY <1>1, <1>2, <1>4, <1>5, <2>1, DebtStaysRight, Zenon DEF Collects
<1>6. CASE DebtsCollect
  <2>1. /\ Len(debts') = Len(debts)
        /\ \A d \in 1..Len(debts) : Right(d, debts', ledger') /\ debts'[d].row = debts[d].row
    BY <1>5, <1>6, Zenon DEF DebtsCollect
  <2>2. OneDebtARow'
    BY <1>4, <2>1, Zenon DEF OneDebtARow
  <2> QED BY <1>3, <2>1, <2>2, Zenon DEF DInv, DebtsAccountedFor, Right
<1>7. CASE DebtOpens
  <2>1. PICK c \in Nat : debts'[Len(debts) + 1] =
                           [out |-> c, init |-> c, billed |-> 0, row |-> NextRow]
    BY <1>7, Zenon DEF DebtOpens
  <2>2. PICK n : n = Len(debts) + 1
    OBVIOUS
  <2>3. /\ Len(ledger') = NextRow /\ Len(debts') = n
        /\ \A d \in 1..Len(debts) : debts'[d] = debts[d]
        /\ debts'[n].out = c /\ debts'[n].init = c /\ debts'[n].billed = 0
        /\ debts'[n].row = NextRow
    <3>1. PICK m : m = NextRow
      OBVIOUS
    <3>2. debts'[n] = [out |-> c, init |-> c, billed |-> 0, row |-> m]
      BY <2>1, <2>2, <3>1
    <3>3. /\ debts'[n].out = c /\ debts'[n].init = c /\ debts'[n].billed = 0
          /\ debts'[n].row = m
      BY <3>2
    <3>4. /\ Len(ledger') = NextRow /\ Len(debts') = n
          /\ \A d \in 1..Len(debts) : debts'[d] = debts[d]
      BY <1>7, <2>2 DEF DebtOpens
    <3> QED BY <3>1, <3>3, <3>4, Zenon
  <2>4. \A d \in 1..n : d \in 1..Len(debts) \/ d = n
    BY <1>1, <2>2
  <2>5. \A d \in 1..Len(debts) : Right(d, debts', ledger') /\ debts'[d].row = debts[d].row
    <3>1. \A d \in 1..Len(debts) : Collects(debts[d], debts'[d])
      BY <2>3, Zenon DEF Collects
    <3> QED BY <1>5, <3>1, Zenon
  <2>6. Right(n, debts', ledger')
    <3>1. c + 0 = c
      BY <2>1
    <3> QED BY <1>4, <2>3, <3>1, Zenon DEF Right
  <2>7. \A d \in 1..Len(debts) : debts'[d].row # debts'[n].row
    <3>1. \A d \in 1..Len(debts) : debts[d].row \in 1..Len(ledger)
      BY <1>1, DebtNumbers, Zenon
    <3> QED BY <1>2, <2>3, <2>5, <3>1, Zenon
  <2>8. OneDebtARow'
    <3>1. ASSUME NEW d \in 1..n, NEW e \in 1..n, debts'[d].row = debts'[e].row
          PROVE  d = e
      <4>1. CASE d = n \/ e = n
        BY <2>4, <2>7, <3>1, <4>1, Zenon
      <4>2. CASE d \in 1..Len(debts) /\ e \in 1..Len(debts)
        <5>1. debts[d].row = debts[e].row
          BY <2>5, <3>1, <4>2, Zenon
        <5> QED BY <1>4, <4>2, <5>1, Zenon DEF OneDebtARow
      <4> QED BY <2>4, <4>1, <4>2, Zenon
    <3> QED BY <2>3, <3>1, Zenon DEF OneDebtARow
  <2>9. \A d \in DOMAIN debts' : Right(d, debts', ledger')
    BY <1>3, <2>3, <2>4, <2>5, <2>6, Zenon
  <2> QED BY <2>8, <2>9, Zenon DEF DInv, DebtsAccountedFor, Right
<1> QED BY <1>6, <1>7, Zenon DEF Quiet

\* A won dispute: its debt is closed, and what it collected came back.
LEMMA UndoingKeepsDebts ==
  ASSUME IInv, DInv, Step, NEW r \in 1..Len(ledger), Undoes(r)
  PROVE  DInv'
<1>1. /\ TypeOK /\ DOMAIN debts = 1..Len(debts) /\ DOMAIN ledger = 1..Len(ledger)
  BY Indexes, Zenon DEF IInv
<1>2. /\ DOMAIN ledger \subseteq DOMAIN ledger' /\ DOMAIN ledger' = 1..Len(ledger')
      /\ Len(ledger') = NextRow => NextRow \in 1..Len(ledger')
  <2>1. DOMAIN ledger \subseteq DOMAIN ledger' /\ DOMAIN ledger' = 1..Len(ledger')
    BY <1>1, LedgerKept, Zenon
  <2>2. Len(ledger) \in Nat /\ NextRow = Len(ledger) + 1
    BY <1>1, Indexes, Zenon
  <2> HIDE DEF NextRow
  <2>3. NextRow \in 1..NextRow
    BY <2>2
  <2> QED BY <2>1, <2>3, Zenon
<1> HIDE DEF NextRow
<1>3. DOMAIN debts' = 1..Len(debts')
  BY DEF Step, DebtsStep
<1>4. /\ RowsStay /\ ~ledger[r].reversed
      /\ \A s \in 1..Len(ledger) :
           ledger'[s].reversed = (s = r \/ ledger[s].reversed)
      /\ Len(debts') = Len(debts)
      /\ \A d \in 1..Len(debts) :
           IF debts[d].row = r
             THEN debts'[d].row = r /\ debts'[d].out = 0 /\ debts'[d].billed = debts[d].billed
             ELSE Collects(debts[d], debts'[d])
      /\ Collected(r) - ledger[r].delta > 0 =>
           /\ Len(ledger') = NextRow /\ ledger'[NextRow].type = "restored"
           /\ ledger'[NextRow].of = r
           /\ ledger'[NextRow].delta = Collected(r) - ledger[r].delta
  BY Zenon DEF Undoes
<1>5. OneDebtARow /\ \A d \in 1..Len(debts) : Right(d, debts, ledger)
  BY <1>1, Zenon DEF DInv, DebtsAccountedFor, Right
<1>6. ASSUME NEW d \in 1..Len(debts), debts[d].row # r
      PROVE  Right(d, debts', ledger')
  <2>1. debts[d].row \in 1..Len(ledger)
    BY <1>1, DebtNumbers, Zenon
  <2>2. ledger'[debts[d].row].reversed = ledger[debts[d].row].reversed
    <3>1. ledger[debts[d].row].reversed \in BOOLEAN
      BY <1>1, <2>1, RowFields, Zenon DEF Row
    <3> QED BY <1>4, <1>6, <2>1, <3>1
  <2> QED BY <1>1, <1>2, <1>4, <1>5, <1>6, <2>1, <2>2, DebtStaysRight, Zenon
<1>7. ASSUME NEW d \in 1..Len(debts), debts[d].row = r
      PROVE  Right(d, debts', ledger')
  <2>1. debts'[d].row = r /\ debts'[d].out = 0 /\ debts'[d].billed = debts[d].billed
    BY <1>4, <1>7, Zenon
  <2>2. ledger'[r].reversed /\ ledger'[r].delta = ledger[r].delta
    <3>1. ledger'[r].reversed = (r = r \/ ledger[r].reversed)
      BY <1>4, Zenon
    <3> QED BY <1>4, <3>1, Zenon DEF RowsStay
  <2>3. Collected(r) = debts[d].billed
    <3>1. debts[d].out + debts[d].billed = debts[d].init
      BY <1>4, <1>5, <1>7, Zenon DEF Right
    <3> QED BY <1>1, <1>5, <1>7, <3>1, CollectedIsBilled, Zenon
  <2>4. debts'[d].billed - ledger'[r].delta > 0 =>
          /\ NextRow \in DOMAIN ledger' /\ ledger'[NextRow].type = "restored"
          /\ ledger'[NextRow].of = r
          /\ ledger'[NextRow].delta = debts'[d].billed - ledger'[r].delta
    BY <1>2, <1>4, <2>1, <2>2, <2>3, Zenon
  <2> QED BY <2>1, <2>2, <2>4, Zenon DEF Right
<1>8. OneDebtARow'
  <2>1. \A d \in 1..Len(debts) : debts'[d].row = debts[d].row
    BY <1>4, Zenon DEF Collects
  <2> QED BY <1>4, <1>5, <2>1, Zenon DEF OneDebtARow
<1> QED BY <1>3, <1>4, <1>6, <1>7, <1>8, Zenon DEF DInv, DebtsAccountedFor, Right

\* No row has two debts, and each is accounted for: for ever.
LEMMA DebtsInvariant == Spec => []DInv
<1>1. Init => DInv
  <2>1. Init => debts = << >> /\ DOMAIN << >> = {} /\ Len(<< >>) = 0 /\ 1..0 = {}
    BY DEF Init
  <2> QED BY <2>1, Zenon DEF DInv, OneDebtARow, DebtsAccountedFor
<1>2. DInv /\ IInv /\ [Next]_vars => DInv'
  BY NextIsStep, NextIsMoneyStep, QuietKeepsDebts, UndoingKeepsDebts, Zenon DEF MoneyStep
<1> QED BY <1>1, <1>2, Invariance, PTL DEF Spec

\* A debt a spend or a clawback opened (_open_debt) is owed or collected to the
\* last credit; a won dispute (_reverse_clawback) closes its debt and gives back
\* what was reclaimed and what that debt had collected, in one row.
THEOREM DebtsCorrect == Spec => []DebtsAccountedFor
<1>1. DInv => DebtsAccountedFor
  BY DEF DInv
<1> QED BY <1>1, DebtsInvariant, PTL

-------------------------------------------------------------------------------
\* Parts that add up to the whole are the whole, each of them.
LEMMA SumTight ==
  ASSUME NEW f, NEW g, NEW S, IsFiniteSet(S),
         \A x \in S : f[x] \in Nat /\ g[x] \in Nat /\ g[x] <= f[x],
         SumFunctionOnSet(g, S) = SumFunctionOnSet(f, S)
  PROVE  \A x \in S : g[x] = f[x]
<1> DEFINE h == [x \in S |-> f[x] - g[x]]
<1>1. \A x \in S : /\ h[x] = f[x] - g[x] /\ h[x] \in Nat /\ h[x] \in Int
                   /\ f[x] \in Int /\ g[x] \in Int
  OBVIOUS
<1> HIDE DEF h
<1>2. SumFunctionOnSet(h, S) = SumFunctionOnSet(f, S) - SumFunctionOnSet(g, S)
  BY <1>1, SumMinus
<1>3. SumFunctionOnSet(f, S) \in Nat
  BY SumNat
<1>4. SumFunctionOnSet(h, S) = 0
  <2>1. PICK a, b, c : /\ a = SumFunctionOnSet(f, S) /\ b = SumFunctionOnSet(g, S)
                       /\ c = SumFunctionOnSet(h, S)
    OBVIOUS
  <2>2. a = b /\ a \in Nat /\ c = a - b
    BY <1>2, <1>3, <2>1, Zenon
  <2>3. c = 0
    BY <2>2
  <2> QED BY <2>1, <2>3, Zenon
<1>5. ASSUME NEW z \in S PROVE g[z] = f[z]
  <2>1. IsFiniteSet(S \ {z}) /\ \A x \in S \ {z} : h[x] \in Nat
    BY <1>1, FS_Subset
  <2>2. PICK rest : rest = SumFunctionOnSet(h, S \ {z})
    OBVIOUS
  <2>3. rest \in Nat
    BY <2>1, <2>2, SumNat
  <2>4. 0 = h[z] + rest
    <3>1. \A x \in S : h[x] \in Int
      BY <1>1
    <3>2. SumFunctionOnSet(h, S) = h[z] + SumFunctionOnSet(h, S \ {z})
      BY <3>1, SumRemove
    <3> QED BY <1>4, <2>2, <3>2, Zenon
  <2>5. h[z] = 0
    BY <1>1, <2>3, <2>4
  <2> QED BY <1>1, <2>5
<1> QED BY <1>5

\* A walk that wants all there is takes all of every stop.
LEMMA WalkTakesAll ==
  ASSUME NEW D, IsFiniteSet(D), NEW f \in [D -> Nat], NEW n \in Int,
         NEW R, StrictTotalOrder(R, D), SumFunctionOnSet(f, D) <= n
  PROVE  \A i \in D : Walk(n, f, R)[i] = f[i]
<1>1. PICK w, total : w = Walk(n, f, R) /\ total = SumFunctionOnSet(f, D)
  OBVIOUS
<1>2. D = DOMAIN f /\ \A i \in D : f[i] \in Nat
  OBVIOUS
<1>3. total \in Nat /\ total <= n
  BY <1>1, <1>2, SumNat
<1>4. SumFunctionOnSet(w, D) = Clip(n, total)
  BY <1>1, WalkTotal
<1>5. Clip(n, total) = total
  BY <1>3 DEF Clip
<1>6. \A i \in D : w[i] \in Nat /\ w[i] <= f[i]
  BY <1>1, <1>2, WalkBounds
<1>7. SumFunctionOnSet(w, D) = SumFunctionOnSet(f, D)
  BY <1>1, <1>4, <1>5, Zenon
<1>8. \A i \in D : w[i] = f[i]
  BY <1>2, <1>6, <1>7, SumTight
<1> QED BY <1>1, <1>8, Zenon

\* Once debts are settled, either nothing is owed or nothing is left to spend.
LEMMA SettledFirst ==
  ASSUME NEW E \in SUBSET Int, NEW ls \in Seq(LotWith(E)),
         NEW ds \in Seq(DebtRecords), NEW now
  PROVE  \/ LiveBalance(LotsAfterSettling(ls, ds, now), now) = 0
         \/ OpenDebts(SettleDebts(ls, ds, now)) = {}
<1> DEFINE D == OpenDebts(ds)
           owed == Outstanding(ds)
           order == CreationOrder(DOMAIN ds)
           live == Live(ls, now)
           held == Restrict(Remaining(ls), live)
<1>1. PICK there, due : there = LiveBalance(ls, now) /\ due = SumFunctionOnSet(owed, D)
  OBVIOUS
<1>2. /\ IsFiniteSet(D) /\ D \subseteq DOMAIN ds /\ DOMAIN ds = 1..Len(ds)
      /\ Len(ds) \in Nat
  BY LotsFinite DEF OpenDebts
<1>3. owed \in [D -> Nat] /\ \A d \in D : owed[d] = ds[d].out
  <2>1. \A d \in D : ds[d].out \in Nat
    BY <1>2, DebtFields, Zenon
  <2>2. owed = [d \in D |-> ds[d].out]
    BY Zenon DEF Outstanding
  <2> HIDE DEF D, owed
  <2> QED BY <2>1, <2>2
<1>4. StrictTotalOrder(order, D)
  <2>1. DOMAIN ds \in SUBSET Int
    BY <1>2
  <2>2. StrictTotalOrder(order, DOMAIN ds)
    BY <2>1, OrdersAreTotal, Zenon
  <2> HIDE DEF order, D
  <2> QED BY <1>2, <2>2 DEF StrictTotalOrder
<1>5. there \in Nat /\ due \in Nat
  <2>1. there \in Nat
    BY <1>1, LiveBalanceNat, Zenon
  <2>2. \A d \in D : owed[d] \in Nat
    BY <1>3
  <2> QED BY <1>1, <1>2, <2>1, <2>2, SumNat, Zenon
<1>6. Collection(ls, ds, now) = Walk(there, owed, order)
  BY <1>1, Zenon DEF Collection
<1>7. CASE due <= there
  <2>1. there \in Int
    BY <1>5
  <2>2. \A d \in D : Collection(ls, ds, now)[d] = ds[d].out
    <3> HIDE DEF D, owed, order
    <3>1. \A d \in D : Walk(there, owed, order)[d] = owed[d]
      <4>1. SumFunctionOnSet(owed, D) <= there
        BY <1>1, <1>7, Zenon
      <4> QED BY <1>2, <1>3, <1>4, <2>1, <4>1, WalkTakesAll
    <3> QED BY <1>3, <1>6, <3>1, Zenon
  <2>3. PICK pay : pay = Collection(ls, ds, now)
    OBVIOUS
  <2>4. DOMAIN pay = D
    BY <2>3, CollectionBounds
  <2>5. SettleDebts(ls, ds, now) =
          [d \in DOMAIN ds |->
             IF d \in DOMAIN pay
               THEN [ds[d] EXCEPT !.out = @ - pay[d], !.billed = @ + pay[d]]
               ELSE ds[d]]
    BY <2>3, Zenon DEF SettleDebts
  <2>6. PICK new : new = SettleDebts(ls, ds, now)
    OBVIOUS
  <2>7. ASSUME NEW d \in DOMAIN new, new[d].out > 0 PROVE FALSE
    <3>1. d \in DOMAIN ds
      BY <2>5, <2>6, <2>7, Zenon
    <3>2. ds[d] \in DebtRecords /\ ds[d].out \in Nat
      BY <3>1, DebtFields, Zenon
    <3>3. CASE d \in D
      <4>1. PICK out, p : out = ds[d].out /\ p = pay[d]
        BY Zenon
      <4>2. new[d].out = out - p
        <5>1. new[d] = [ds[d] EXCEPT !.out = @ - pay[d], !.billed = @ + pay[d]]
          BY <2>4, <2>5, <2>6, <3>1, <3>3, Zenon
        <5> QED BY <3>2, <4>1, <5>1, Zenon DEF DebtRecords
      <4>3. p = out /\ out \in Nat
        BY <2>2, <2>3, <3>2, <3>3, <4>1, Zenon
      <4>4. new[d].out = 0
        BY <4>2, <4>3
      <4> QED BY <2>7, <4>4
    <3>4. CASE d \notin D
      <4>1. new[d] = ds[d]
        BY <2>4, <2>5, <2>6, <3>1, <3>4, Zenon
      <4> QED BY <2>7, <3>1, <3>4, <4>1, Zenon DEF OpenDebts
    <3> QED BY <3>3, <3>4
  <2> QED BY <2>6, <2>7, Zenon DEF OpenDebts
<1>8. CASE there < due
  <2>1. SumFunction(Collection(ls, ds, now)) = there
    <3>1. PICK pay : pay = Walk(there, owed, order)
      OBVIOUS
    <3>2. DOMAIN pay = D
      BY <1>6, <3>1, CollectionBounds, Zenon
    <3>3. there \in Int
      BY <1>5
    <3> HIDE DEF D, owed, order
    <3>4. SumFunctionOnSet(pay, D) = Clip(there, due)
      BY <1>1, <1>2, <1>3, <1>4, <3>1, <3>3, WalkTotal, Zenon
    <3>5. Clip(there, due) = there
      BY <1>5, <1>8 DEF Clip
    <3> QED BY <1>6, <3>1, <3>2, <3>4, <3>5, SumOfFunction, Zenon
  <2>2. LotsAfterSettling(ls, ds, now) = TakeFrom(ls, Consumption(ls, there, now))
    BY <2>1, Zenon DEF LotsAfterSettling, ConsumeLots
  <2>3. PICK take : take = Consumption(ls, there, now)
    OBVIOUS
  <2>4. IsFiniteSet(live) /\ live \subseteq DOMAIN ls
    BY LotsFinite DEF Live
  <2>5. held \in [live -> Nat] /\ \A i \in live : held[i] = ls[i].rem
    <3>1. \A i \in live : ls[i].rem \in Nat
      BY <2>4, LotFields, Zenon
    <3>2. DOMAIN Remaining(ls) = DOMAIN ls /\ \A i \in live : Remaining(ls)[i] = ls[i].rem
      BY <2>4, Zenon DEF Remaining
    <3>3. held = [i \in live |-> Remaining(ls)[i]]
      BY Zenon DEF Restrict
    <3> HIDE DEF held, live
    <3> QED BY <3>1, <3>2, <3>3
  <2>6. SumFunctionOnSet(held, live) = there
    <3>1. \A i \in live : held[i] = Remaining(ls)[i]
      BY Zenon DEF Restrict
    <3> HIDE DEF held, live
    <3>2. SumFunctionOnSet(held, live) = SumFunctionOnSet(Remaining(ls), live)
      BY <2>4, <3>1, SumEqual, Zenon
    <3> QED BY <1>1, <3>2, Zenon DEF LiveBalance, live
  <2>7. StrictTotalOrder(SpendOrder(ls), live)
    BY <2>4, OrdersAreTotal, Zenon
  <2>8. DOMAIN take = live /\ \A i \in live : take[i] = ls[i].rem
    <3>1. there \in Int /\ there <= there /\ there \in Nat
      BY <1>5
    <3>2. take = Walk(there, held, SpendOrder(ls))
      BY <2>3, Zenon DEF Consumption
    <3>3. DOMAIN take = live
      <4>1. Consumption(ls, there, now) \in [Live(ls, now) -> Nat]
        BY <3>1, ConsumeShrinks, Zenon
      <4> QED BY <2>3, <4>1
    <3> HIDE DEF held, live
    <3>4. \A i \in live : Walk(there, held, SpendOrder(ls))[i] = held[i]
      <4>1. SumFunctionOnSet(held, live) <= there
        BY <2>6, <3>1, Zenon
      <4> QED BY <2>4, <2>5, <2>7, <3>1, <4>1, WalkTakesAll
    <3> QED BY <2>5, <3>2, <3>3, <3>4, Zenon
  <2>9. PICK new : new = TakeFrom(ls, take)
    OBVIOUS
  <2>10. new = [i \in DOMAIN ls |->
                  IF i \in DOMAIN take THEN [ls[i] EXCEPT !.rem = @ - take[i]] ELSE ls[i]]
    BY <2>9, Zenon DEF TakeFrom
  <2>11. ASSUME NEW i \in DOMAIN new, new[i].rem > 0, new[i].exp > now PROVE FALSE
    <3>1. i \in DOMAIN ls
      BY <2>10, <2>11, Zenon
    <3>2. ls[i] \in LotWith(E) /\ ls[i].rem \in Nat
      BY <3>1, LotFields, Zenon
    <3>3. CASE i \in live
      <4>1. PICK rem, t : rem = ls[i].rem /\ t = take[i]
        BY Zenon
      <4>2. new[i].rem = rem - t
        <5>1. new[i] = [ls[i] EXCEPT !.rem = @ - take[i]]
          BY <2>8, <2>10, <3>1, <3>3, Zenon
        <5> QED BY <3>2, <4>1, <5>1, Zenon DEF LotWith
      <4>3. t = rem /\ rem \in Nat
        BY <2>8, <3>2, <3>3, <4>1, Zenon
      <4>4. new[i].rem = 0
        BY <4>2, <4>3
      <4> QED BY <2>11, <4>4
    <3>4. CASE i \notin live
      <4>1. new[i] = ls[i]
        BY <2>8, <2>10, <3>1, <3>4, Zenon
      <4> QED BY <2>11, <3>1, <3>4, <4>1, Zenon DEF Live
    <3> QED BY <3>3, <3>4
  <2>12. Live(new, now) = {}
    BY <2>11, Zenon DEF Live
  <2>13. LiveBalance(new, now) = 0
    BY <2>12, SumEmpty, Zenon DEF LiveBalance
  <2> QED BY <2>2, <2>3, <2>9, <2>13, Zenon
<1>9. due <= there \/ there < due
  BY <1>5
<1> QED BY <1>7, <1>8, <1>9

NothingOwedOrLeft == balance' = 0 \/ OpenDebts(debts') = {}

\* credit() with settlement: what is owed is collected out of the new lot too.
LEMMA CreditCollectsFirst ==
  ASSUME TypeOK, NEW key, NEW c \in Amounts, NEW exp \in Deadlines,
         Credit(key, c, exp, TRUE)
  PROVE  NothingOwedOrLeft
<1> DEFINE E == 0..Never
           l == [rem |-> c, exp |-> exp, grant |-> NextRow, expired |-> 0]
           granted(now) == Append(ExpireDueLots(lots, now), l)
<1>1. PICK now \in Readings :
        /\ lots' = LotsAfterSettling(granted(now), debts, now)
        /\ debts' = SettleDebts(granted(now), debts, now)
        /\ balance' = LiveBalance(lots', now)
  BY Zenon DEF Credit, SyncBalance
<1>2. l \in LotWith(E)
  <2>1. c \in Nat /\ exp \in E /\ NextRow \in Nat /\ 0 \in Nat
    BY Types, Indexes
  <2> HIDE DEF E
  <2> QED BY <2>1, Zenon DEF LotWith
<1> HIDE DEF l
<1>3. granted(now) \in Seq(LotWith(E))
  <2> DEFINE swept == ExpireDueLots(lots, now)
  <2>1. swept \in Seq(LotWith(E)) /\ granted(now) = Append(swept, l)
    BY Swept, Zenon
  <2> HIDE DEF swept, E, granted
  <2> QED BY <1>2, <2>1, AppendProperties
<1>4. E \in SUBSET Int /\ debts \in Seq(DebtRecords)
  BY Types, DebtsTyped
<1> HIDE DEF granted, E
<1> QED BY <1>1, <1>3, <1>4, SettledFirst, Zenon DEF NothingOwedOrLeft

\* _reverse_clawback(): so it is out of the lot that comes back.
LEMMA ReversalCollectsFirst ==
  ASSUME IInv, NEW r \in DOMAIN ledger, Restores(r)
  PROVE  NothingOwedOrLeft
<1> DEFINE E == 0..Never
           g == ledger[r].of
           template == CHOOSE i \in GrantedLots(lots, g) :
                         \A j \in GrantedLots(lots, g) : i <= j
           given == Collected(r) - ledger[r].delta
           l == [rem |-> given, exp |-> lots[template].exp, grant |-> g, expired |-> 0]
           restored(now) == ExpireDueLots(Append(lots, l), now)
<1>1. TypeOK
  BY DEF IInv
<1>2. PICK now \in Readings :
        /\ ledger[r].type = "dispute"
        /\ given > 0 \/ ledger' = Reversed(r)
        /\ given > 0 =>
             /\ lots' = LotsAfterSettling(restored(now), CancelDebts(r), now)
             /\ debts' = SettleDebts(restored(now), CancelDebts(r), now)
             /\ balance' = LiveBalance(lots', now)
  BY Zenon DEF Restores, ReverseClawback, SyncBalance
<1>3. given > 0
  <2>1. Len(Reversed(r)) = Len(ledger) /\ Len(ledger) \in Nat
    BY <1>1, ReversedRows, Indexes, Zenon
  <2>2. Len(ledger') > Len(ledger)
    BY Zenon DEF Restores
  <2> HIDE DEF given
  <2>3. ledger' # Reversed(r)
    BY <2>1, <2>2
  <2> QED BY <1>2, <2>3, Zenon
<1>4. given \in Nat /\ g \in Nat
  <2>1. Collected(r) \in Int /\ ledger[r].delta \in Int /\ g \in Nat
    BY <1>1, CollectedInt, RowFields, Zenon
  <2> HIDE DEF g
  <2> QED BY <1>3, <2>1
<1>5. template \in DOMAIN lots
  BY <1>2, TemplateLot, Zenon
<1>6. /\ lots \in Seq(LotWith(E)) /\ E \in SUBSET Int
      /\ CancelDebts(r) \in Seq(DebtRecords)
  BY <1>1, Types, CancelledDebts, Zenon DEF TypeOK
<1> HIDE DEF template, g, given
<1>7. l \in LotWith(E)
  <2>1. lots[template].exp \in E /\ 0 \in Nat
    BY <1>5, <1>6, LotFields
  <2> HIDE DEF E
  <2> QED BY <1>4, <2>1, Zenon DEF LotWith
<1> HIDE DEF l, E
<1>8. restored(now) \in Seq(LotWith(E))
  <2>1. Append(lots, l) \in Seq(LotWith(E))
    BY <1>6, <1>7, AppendProperties
  <2> QED BY <2>1, ExpireDescends, Zenon
<1> HIDE DEF restored
<1> QED BY <1>2, <1>3, <1>6, <1>8, SettledFirst, Zenon DEF NothingOwedOrLeft

\* A top-up (credit) or a won dispute (_reverse_clawback) pays what the wallet
\* owes before it leaves anything to spend (_settle_debts), for any debts and
\* lots there are.
THEOREM DebtsFirst == Spec => DebtsCollectedFirst
<1>1. IInv /\ [Next]_vars =>
        [ \/ \E key \in Keys \cup {NoKey}, c \in Amounts, exp \in Deadlines :
               Credit(key, c, exp, TRUE)
          \/ \E r \in DOMAIN ledger : Restores(r)
          => balance' = 0 \/ OpenDebts(debts') = {}]_vars
  <2> SUFFICES ASSUME IInv,
                      \/ \E key \in Keys \cup {NoKey}, c \in Amounts, exp \in Deadlines :
                           Credit(key, c, exp, TRUE)
                      \/ \E r \in DOMAIN ledger : Restores(r)
               PROVE  balance' = 0 \/ OpenDebts(debts') = {}
    OBVIOUS
  <2>1. CASE \E key \in Keys \cup {NoKey}, c \in Amounts, exp \in Deadlines :
               Credit(key, c, exp, TRUE)
    <3>1. TypeOK
      BY DEF IInv
    <3> QED BY <2>1, <3>1, CreditCollectsFirst, Zenon DEF NothingOwedOrLeft
  <2>2. CASE \E r \in DOMAIN ledger : Restores(r)
    BY <2>2, ReversalCollectsFirst, Zenon DEF NothingOwedOrLeft
  <2> QED BY <2>1, <2>2
<1> QED BY <1>1, Invariance, PTL DEF Spec, DebtsCollectedFirst

-------------------------------------------------------------------------------
(* What comes back is swept: no lot past its deadline comes with credits.  *)

\* Either no lot is new, or every lot that holds credits is alive.
BornAlive == Len(lots') = Len(lots) \/ Alive(lots', asOf')

\* A spend of swept lots makes no lot.
LEMMA SpendMakesNone ==
  ASSUME TypeOK, NEW now, NEW n \in Nat,
         lots' = ConsumeLots(ExpireDueLots(lots, now), n, now)
  PROVE  BornAlive
<1> DEFINE ls == ExpireDueLots(lots, now)
<1>1. ls \in Seq(LotWith(0..Never)) /\ Len(ls) = Len(lots)
  BY Swept, Zenon
<1> HIDE DEF ls
<1>2. Len(ConsumeLots(ls, n, now)) = Len(ls)
  BY <1>1, ConsumeDescends, Zenon
<1> QED BY <1>1, <1>2, Zenon DEF BornAlive, ls

\* What is handed back is swept with the rest.
LEMMA HandBackBorn ==
  ASSUME TypeOK, NEW now \in Nat, NEW back, Allocates(lots, back),
         lots' = HandBack(ExpireDueLots(lots, now), back, now), asOf' = now
  PROVE  BornAlive
<1> DEFINE E == 0..Never
           ls == ExpireDueLots(lots, now)
           all == ls \o HoldReleaseLots(ls, back)
<1>1. ls \in Seq(LotWith(E)) /\ DOMAIN ls = DOMAIN lots /\ E \in SUBSET Int
  BY Types, Swept, Zenon DEF TypeOK
<1>2. lots' = ExpireDueLots(all, now)
  BY Zenon DEF HandBack
<1> HIDE DEF E, ls
<1>3. HoldReleaseLots(ls, back) \in Seq(LotWith(E))
  <2>1. DOMAIN back \subseteq DOMAIN ls /\ \A i \in DOMAIN back : back[i] \in Nat
    BY <1>1, Zenon DEF Allocates
  <2> QED BY <1>1, <2>1, ReleaseLots
<1>4. all \in Seq(LotWith(E))
  BY <1>1, <1>3, ConcatProperties
<1> HIDE DEF all
<1>5. Alive(ExpireDueLots(all, now), now)
  BY <1>1, <1>4, SweptAlive, Zenon
<1> QED BY <1>2, <1>5, Zenon DEF BornAlive

\* credit(): the new lot is alive, the others are swept.
LEMMA CreditBorn ==
  ASSUME IInv, NEW key \in Keys \cup {NoKey}, NEW c \in Amounts,
         NEW exp \in Deadlines, NEW settle \in BOOLEAN,
         Credit(key, c, exp, settle)
  PROVE  BornAlive
<1> DEFINE E == 0..Never
           l == [rem |-> c, exp |-> exp, grant |-> NextRow, expired |-> 0]
           swept(now) == ExpireDueLots(lots, now)
           granted(now) == Append(swept(now), l)
<1>1. TypeOK
  BY DEF IInv
<1>2. PICK now \in Readings :
        /\ exp > now
        /\ lots' = IF settle THEN LotsAfterSettling(granted(now), debts, now)
                             ELSE granted(now)
        /\ SyncBalance(now)
  BY Zenon DEF Credit
<1>3. now \in Nat /\ asOf' = now /\ E \in SUBSET Int
  BY <1>1, <1>2, ReadingsPast, Types, Zenon DEF SyncBalance
<1>4. l \in LotWith(E) /\ l.exp = exp
  <2>1. c \in Nat /\ exp \in E /\ NextRow \in Nat /\ 0 \in Nat
    BY <1>1, Types, Indexes
  <2> HIDE DEF E
  <2> QED BY <2>1, Zenon DEF LotWith
<1>5. swept(now) \in Seq(LotWith(E)) /\ Alive(swept(now), now)
  <2>1. lots \in Seq(LotWith(E))
    BY <1>1, Types, Zenon DEF TypeOK
  <2> HIDE DEF E
  <2> QED BY <1>3, <2>1, ExpireShrinks, SweptAlive, Zenon
<1> HIDE DEF l, swept, E
<1>6. granted(now) \in Seq(LotWith(E)) /\ Alive(granted(now), now)
  <2>1. /\ granted(now) \in Seq(LotWith(E)) /\ Len(granted(now)) = Len(swept(now)) + 1
        /\ granted(now)[Len(swept(now)) + 1] = l
        /\ \A i \in 1..Len(swept(now)) : granted(now)[i] = swept(now)[i]
    BY <1>4, <1>5, AppendProperties
  <2>2. \A i \in 1..Len(granted(now)) :
          i \in 1..Len(swept(now)) \/ i = Len(swept(now)) + 1
    <3>1. Len(swept(now)) \in Nat
      BY <1>5, LotsFinite, Zenon
    <3> QED BY <2>1, <3>1
  <2> HIDE DEF granted
  <2> QED BY <1>2, <1>4, <1>5, <2>1, <2>2, Zenon DEF Alive
<1> HIDE DEF granted
<1>7. CASE settle
  <2> DEFINE new == LotsAfterSettling(granted(now), debts, now)
  <2>1. /\ new \in Seq(LotWith(E)) /\ Len(new) = Len(granted(now))
        /\ Descends(granted(now), new)
    BY <1>1, <1>6, DebtsTyped, SettlingDescends, Zenon
  <2>2. lots' = new
    BY <1>2, <1>7, Zenon
  <2> HIDE DEF new
  <2>3. Alive(new, now)
    BY <1>3, <1>6, <2>1, AliveDescends, Zenon
  <2> QED BY <1>3, <2>2, <2>3, Zenon DEF BornAlive
<1>8. CASE ~settle
  BY <1>2, <1>3, <1>6, <1>8, Zenon DEF BornAlive
<1> QED BY <1>7, <1>8, Zenon

\* _reverse_clawback(): what comes back is swept before the debts are settled.
LEMMA ReverseBorn ==
  ASSUME IInv, NEW r \in DOMAIN ledger, ReverseClawback(r)
  PROVE  BornAlive
<1> DEFINE E == 0..Never
           given == Collected(r) - ledger[r].delta
           g == ledger[r].of
           template == CHOOSE i \in GrantedLots(lots, g) :
                         \A j \in GrantedLots(lots, g) : i <= j
           l == [rem |-> given, exp |-> lots[template].exp, grant |-> g, expired |-> 0]
           restored(now) == ExpireDueLots(Append(lots, l), now)
<1>1. TypeOK
  BY DEF IInv
<1>2. PICK now \in Readings :
        /\ ledger[r].type = "dispute"
        /\ IF given > 0
             THEN /\ lots' = LotsAfterSettling(restored(now), CancelDebts(r), now)
                  /\ SyncBalance(now)
             ELSE UNCHANGED lots
  BY Zenon DEF ReverseClawback
<1>3. now \in Nat
  BY <1>1, <1>2, ReadingsPast, Zenon
<1>4. CASE ~(given > 0)
  <2>1. UNCHANGED lots
    BY <1>2, <1>4, Zenon
  <2> QED BY <2>1, Zenon DEF BornAlive
<1>5. CASE given > 0
  <2>1. /\ lots' = LotsAfterSettling(restored(now), CancelDebts(r), now)
        /\ asOf' = now
    BY <1>2, <1>5, Zenon DEF SyncBalance
  <2>2. lots \in Seq(LotWith(E)) /\ E \in SUBSET Int /\ CancelDebts(r) \in Seq(DebtRecords)
    BY <1>1, Types, CancelledDebts, Zenon DEF TypeOK
  <2>3. given \in Nat /\ g \in Nat
    <3>1. Collected(r) \in Int /\ ledger[r].delta \in Int /\ g \in Nat
      BY <1>1, CollectedInt, RowFields, Zenon
    <3> HIDE DEF g
    <3> QED BY <1>5, <3>1
  <2>4. template \in DOMAIN lots
    BY <1>2, TemplateLot, Zenon
  <2> HIDE DEF template, g, given
  <2>5. l \in LotWith(E)
    <3>1. lots[template].exp \in E /\ 0 \in Nat
      BY <2>2, <2>4, LotFields
    <3> HIDE DEF E
    <3> QED BY <2>3, <3>1, Zenon DEF LotWith
  <2> HIDE DEF l, E
  <2>6. Append(lots, l) \in Seq(LotWith(E))
    BY <2>2, <2>5, AppendProperties
  <2>7. restored(now) \in Seq(LotWith(E)) /\ Alive(restored(now), now)
    BY <1>3, <2>2, <2>6, ExpireShrinks, SweptAlive, Zenon
  <2> HIDE DEF restored
  <2> DEFINE new == LotsAfterSettling(restored(now), CancelDebts(r), now)
  <2>8. /\ new \in Seq(LotWith(E)) /\ Len(new) = Len(restored(now))
        /\ Descends(restored(now), new)
    BY <2>2, <2>7, SettlingDescends, Zenon
  <2> HIDE DEF new
  <2>9. Alive(new, now)
    BY <1>3, <2>2, <2>7, <2>8, AliveDescends, Zenon
  <2> QED BY <2>1, <2>9, Zenon DEF BornAlive, new
<1> QED BY <1>4, <1>5, Zenon

\* capture() within the reserved amount hands back part of the allocation.
LEMMA CaptureBorn ==
  ASSUME IInv, NEW h \in HoldKeys, NEW actual \in Amounts \cup {0},
         CaptureWithin(h, actual)
  PROVE  BornAlive
<1> DEFINE alloc == holds[h].alloc
           back(now) == Refund(ExpireDueLots(lots, now), alloc, holds[h].credits - actual)
<1>1. TypeOK
  BY DEF IInv
<1>2. PICK now \in Readings :
        /\ lots' = HandBack(ExpireDueLots(lots, now), back(now), now)
        /\ SyncBalance(now)
  BY Zenon DEF CaptureWithin
<1>3. now \in Nat /\ asOf' = now
  BY <1>1, <1>2, ReadingsPast, Zenon DEF SyncBalance
<1>4. Allocates(lots, alloc) /\ holds[h].credits - actual \in Int
  <2>1. Allocates(lots, alloc) /\ holds[h].credits \in Nat
    BY <1>1, AllocTypes, Zenon
  <2>2. actual \in Nat
    BY Types
  <2> HIDE DEF alloc
  <2> QED BY <2>1, <2>2
<1> HIDE DEF alloc
<1>5. back(now) \in [DOMAIN alloc -> Nat]
  <2>1. lots \in Seq(Lot)
    BY <1>1, Zenon DEF TypeOK
  <2> QED BY <1>4, <2>1, RefundBounds, Zenon DEF Refund
<1> HIDE DEF back
<1>6. Allocates(lots, back(now))
  <2>1. DOMAIN back(now) = DOMAIN alloc /\ \A i \in DOMAIN alloc : back(now)[i] \in Nat
    BY <1>5
  <2> QED BY <1>4, <2>1, Zenon DEF Allocates
<1> QED BY <1>1, <1>2, <1>3, <1>6, HandBackBorn, Zenon

\* release(), whoever calls it, hands back the whole allocation.
LEMMA GiveBackBorn ==
  ASSUME IInv, NEW h \in HoldKeys, NEW st, GiveBack(h, st)
  PROVE  BornAlive
<1>1. TypeOK
  BY DEF IInv
<1>2. PICK now \in Readings :
        /\ lots' = HandBack(ExpireDueLots(lots, now), holds[h].alloc, now)
        /\ SyncBalance(now)
  BY Zenon DEF GiveBack
<1>3. now \in Nat /\ asOf' = now
  BY <1>1, <1>2, ReadingsPast, Zenon DEF SyncBalance
<1> QED BY <1>1, <1>2, <1>3, AllocTypes, HandBackBorn, Zenon

\* debit() makes no lot ...
LEMMA DebitBorn ==
  ASSUME IInv, NEW key \in Keys \cup {NoKey}, NEW c \in Amounts,
         NEW partial \in BOOLEAN, Debit(key, c, partial)
  PROVE  BornAlive
<1> DEFINE there(now) == LiveBalance(ExpireDueLots(lots, now), now)
           charged(now) == IF partial THEN Clip(c, there(now)) ELSE c
<1>1. TypeOK
  BY DEF IInv
<1>2. PICK now \in Readings :
        lots' = ConsumeLots(ExpireDueLots(lots, now), charged(now), now)
  BY Zenon DEF Debit
<1>3. charged(now) \in Nat
  <2>1. c \in Nat /\ there(now) \in Nat
    BY <1>1, Types, Swept
  <2> HIDE DEF there
  <2>2. Clip(c, there(now)) \in 0..there(now)
    BY <2>1, ClipBounds
  <2> QED BY <2>1, <2>2
<1> HIDE DEF charged
<1> QED BY <1>1, <1>2, <1>3, SpendMakesNone, Zenon

\* ... nor does hold() ...
LEMMA HoldBorn ==
  ASSUME IInv, NEW h \in HoldKeys, NEW c \in Amounts, NEW exp \in Deadlines,
         NEW waived \in Waivers, Hold(h, c, exp, waived)
  PROVE  BornAlive
<1> DEFINE credits == IF waived THEN 0 ELSE c
<1>1. TypeOK
  BY DEF IInv
<1>2. PICK now \in Readings :
        lots' = ConsumeLots(ExpireDueLots(lots, now), credits, now)
  BY Zenon DEF Hold
<1>3. credits \in Nat
  BY Types
<1> HIDE DEF credits
<1> QED BY <1>1, <1>2, <1>3, SpendMakesNone, Zenon

\* ... nor capture() for more than was reserved.
LEMMA CaptureBeyondBorn ==
  ASSUME IInv, NEW h \in HoldKeys, NEW actual \in Amounts \cup {0},
         CaptureBeyond(h, actual)
  PROVE  BornAlive
<1> DEFINE extra == actual - holds[h].credits
<1>1. TypeOK
  BY DEF IInv
<1>2. PICK now \in Readings :
        /\ extra > 0
        /\ lots' = ConsumeLots(ExpireDueLots(lots, now), extra, now)
  BY Zenon DEF CaptureBeyond
<1>3. extra \in Nat
  <2>1. actual \in Nat /\ holds[h].credits \in Nat
    BY <1>1, Types, AllocTypes
  <2> QED BY <1>2, <2>1
<1> HIDE DEF extra
<1> QED BY <1>1, <1>2, <1>3, SpendMakesNone, Zenon

\* claw_back_grant() takes out of lots there are.
LEMMA ClawBackMakesNone ==
  ASSUME IInv, NEW g \in DOMAIN ledger, NEW reason \in Reasons,
         NEW target \in 1..ledger[g].delta, ClawBackGrant(g, target, reason)
  PROVE  BornAlive
<1> DEFINE ls == ExpireDueLots(lots, clock)
           take == Reclaim(ls, g, target - AlreadyClawedBack(g))
<1>1. lots' = TakeFrom(ls, take)
  BY Zenon DEF ClawBackGrant
<1>2. lots' \in Seq(LotWith(0..Never)) /\ lots \in Seq(LotWith(0..Never))
  BY ClawBackGrantStep, Types, Zenon DEF Step, LotsStep, IInv, TypeOK
<1>3. DOMAIN lots' = DOMAIN lots
  BY <1>1, Zenon DEF TakeFrom, ExpireDueLots
<1>4. Len(lots') = Len(lots)
  <2>1. DOMAIN lots = 1..Len(lots) /\ Len(lots) \in Nat
    BY <1>2, LotsFinite
  <2>2. DOMAIN lots' = 1..Len(lots') /\ Len(lots') \in Nat
    BY <1>2
  <2> QED BY <1>3, <2>1, <2>2
<1> QED BY <1>4, Zenon DEF BornAlive

\* Every step of the wallet.
LEMMA NextBornAlive ==
  ASSUME IInv, [Next]_vars
  PROVE  BornAlive
<1>1. TypeOK
  BY DEF IInv
<1>2. ASSUME UNCHANGED lots PROVE BornAlive
  BY <1>2, Zenon DEF BornAlive
<1>3. ASSUME NEW now, lots' = ExpireDueLots(lots, now) PROVE BornAlive
  BY <1>1, <1>3, Swept, Zenon DEF BornAlive
<1>4. CASE Tick
  BY <1>2, <1>4, Zenon DEF Tick
<1>5. CASE Spend
  <2>1. ASSUME NEW key \in Keys \cup {NoKey}, MeterOnlyDebit(key) PROVE BornAlive
    BY <1>3, <2>1, Zenon DEF MeterOnlyDebit
  <2> QED BY <1>5, <2>1, CreditBorn, DebitBorn, Zenon DEF Spend
<1>6. CASE Reserve
  <2>1. ASSUME NEW h \in HoldKeys, MeterOnlyCapture(h) PROVE BornAlive
    BY <1>2, <2>1, Zenon DEF MeterOnlyCapture
  <2>2. ASSUME NEW h \in HoldKeys, Release(h) PROVE BornAlive
    BY <2>2, GiveBackBorn, Zenon DEF Release
  <2> QED BY <1>6, <2>1, <2>2, CaptureBorn, HoldBorn, CaptureBeyondBorn, Zenon DEF Reserve
<1>7. CASE Workers
  <2>1. CASE ListStaleHolds
    BY <1>2, <2>1, Zenon DEF ListStaleHolds
  <2>2. ASSUME NEW h \in HoldKeys, ExpireHold(h) PROVE BornAlive
    BY <1>2, <2>2, GiveBackBorn, Zenon DEF ExpireHold
  <2>3. CASE ExpireCreditLots
    BY <1>3, <2>3, Zenon DEF ExpireCreditLots
  <2> QED BY <1>7, <2>1, <2>2, <2>3, Zenon DEF Workers
<1>8. CASE MoneyBack
  BY <1>8, ClawBackMakesNone, ReverseBorn, Zenon DEF MoneyBack
<1>9. CASE UNCHANGED vars
  BY <1>2, <1>9, Zenon DEF vars
<1> QED BY <1>4, <1>5, <1>6, <1>7, <1>8, <1>9, Zenon DEF Next

\* Credits that ran out the clock while they were reserved (capture, release) or
\* disputed (_reverse_clawback) come back dead: every new lot is swept before
\* the service ends, and a new grant is alive.
THEOREM HandedBackSwept == Spec => HandedBackDead
<1>1. IInv /\ [Next]_vars =>
        [\A i \in DOMAIN lots' \ DOMAIN lots :
           lots'[i].rem > 0 => lots'[i].exp > asOf']_vars
  <2> SUFFICES ASSUME IInv, [Next]_vars, NEW i \in DOMAIN lots' \ DOMAIN lots,
                      lots'[i].rem > 0
               PROVE  lots'[i].exp > asOf'
    OBVIOUS
  <2>1. DOMAIN lots' = 1..Len(lots') /\ DOMAIN lots = 1..Len(lots)
    BY NextIsStep, LotsKept, Indexes, Zenon DEF IInv
  <2>2. Len(lots') # Len(lots)
    BY <2>1, Zenon
  <2> QED BY <2>1, <2>2, NextBornAlive, Zenon DEF BornAlive, Alive
<1> QED BY <1>1, Invariance, PTL DEF Spec, HandedBackDead

-------------------------------------------------------------------------------
\* The deadlines there are.
Dates == 0..Never

\* What is typed and finite about deadlines.
LEMMA DatesFinite ==
  /\ Dates \in SUBSET Int /\ IsFiniteSet(Dates) /\ Lot = LotWith(Dates) /\ Account!Dates = Dates
  /\ Never \in Nat /\ Dates = 0..Never
<1>1. Never \in Nat /\ Lot = LotWith(Dates)
  BY Types DEF Dates
<1>2. IsFiniteSet(Dates)
  <2>1. 0 \in Int /\ Never \in Int
    BY <1>1
  <2> QED BY <2>1, FS_Interval DEF Dates
<1> QED BY <1>1, <1>2 DEF Dates, Account!Dates

\* An account adds up like a wallet.
LEMMA SameSums ==
  /\ \A f, S : Account!SumFunctionOnSet(f, S) = SumFunctionOnSet(f, S)
  /\ \A f : Account!SumFunction(f) = SumFunction(f)
BY DEF SumFunction, SumFunctionOnSet, FoldFunction, FoldFunctionOnSet, MapThenFoldSet,
       Account!SumFunction, Account!SumFunctionOnSet, Account!FoldFunction,
       Account!FoldFunctionOnSet, Account!MapThenFoldSet

\* The sweep is what an account calls Alive.
LEMMA AccountSweeps ==
  ASSUME NEW ls \in Seq(LotWith(Dates)), NEW now \in Nat
  PROVE  Funds(ExpireDueLots(ls, now), Dates) = Account!Alive(Funds(ls, Dates), now)
<1>1. ExpireDueLots(ls, now) \in Seq(LotWith(Dates))
  BY ExpireShrinks
<1>2. Funds(ExpireDueLots(ls, now), Dates) \in [Dates -> Nat]
  BY <1>1, DatesFinite, FundsNat
<1>3. \A d \in Dates : Funds(ExpireDueLots(ls, now), Dates)[d]
                         = IF d > now THEN Funds(ls, Dates)[d] ELSE 0
  BY DatesFinite, ExpiredByDate
<1> QED BY <1>2, <1>3, DatesFinite DEF Account!Alive

\* Where n is wanted and before has been taken already.
LEMMA LeftIsClip ==
  \A n, before \in Int : \A there : Account!Left(n, before, there) = Clip(n - before, there)
BY DEF Clip, Account!Left

\* Sums over some of the deadlines.
LEMMA DatedSums ==
  ASSUME NEW f \in [Dates -> Nat]
  PROVE  \A T \in SUBSET Dates : SumFunctionOnSet(f, T) \in Nat
<1> SUFFICES ASSUME NEW T \in SUBSET Dates PROVE SumFunctionOnSet(f, T) \in Nat
  OBVIOUS
<1>1. IsFiniteSet(T)
  BY DatesFinite, FS_Subset
<1> QED BY <1>1, SumNat

\* A spend is what an account calls Spent, and what it takes is the Soonest.
LEMMA AccountSpends ==
  ASSUME NEW ls \in Seq(LotWith(Dates)), NEW now, Alive(ls, now), NEW n \in Nat
  PROVE  /\ Funds(ConsumeLots(ls, n, now), Dates) = Account!Spent(Funds(ls, Dates), n)
         /\ DatedOf(ls, Consumption(ls, n, now), Dates) = Account!Soonest(n, Funds(ls, Dates))
<1> DEFINE f == Funds(ls, Dates)
           g == Funds(ConsumeLots(ls, n, now), Dates)
           t == DatedOf(ls, Consumption(ls, n, now), Dates)
           before(d) == SumFunctionOnSet(f, {e \in Dates : e < d})
<1>1. f \in [Dates -> Nat] /\ g \in [Dates -> Nat]
  BY DatesFinite, FundsNat, ConsumeShrinks
<1>2. t = [d \in Dates |-> t[d]]
  BY DEF DatedOf
<1>3. \A d \in Dates : /\ t[d] = Clip(n - before(d), f[d])
                       /\ g[d] = f[d] - Clip(n - before(d), f[d])
  <2> SUFFICES ASSUME NEW d \in Dates
               PROVE  /\ t[d] = Clip(n - before(d), f[d])
                      /\ g[d] = f[d] - Clip(n - before(d), f[d])
    OBVIOUS
  <2> QED BY DatesFinite, SpentByDate
<1> HIDE DEF f, g, t
<1>4. \A d \in Dates : before(d) \in Nat
  BY <1>1, DatedSums
<1>5. \A d \in Dates : Account!Left(n, before(d), f[d]) = Clip(n - before(d), f[d])
  <2>1. n \in Int /\ \A d \in Dates : before(d) \in Int
    BY <1>4
  <2> HIDE DEF before
  <2> QED BY <2>1, LeftIsClip
<1>6. Account!Soonest(n, f) = [d \in Dates |-> Account!Left(n, before(d), f[d])]
  <2> DEFINE there(d) == Account!SumFunctionOnSet(f, {e \in Dates : e < d})
  <2>1. \A d : there(d) = before(d)
    BY SameSums, Zenon
  <2>2. Account!Soonest(n, f) = [d \in Dates |-> Account!Left(n, there(d), f[d])]
    BY DatesFinite, Zenon DEF Account!Soonest
  <2> HIDE DEF there, before
  <2> QED BY <2>1, <2>2
<1> HIDE DEF before
<1>7. t = Account!Soonest(n, f)
  BY <1>2, <1>3, <1>5, <1>6
<1>8. g = Account!Spent(f, n)
  <2>1. \A d \in Dates : Account!Soonest(n, f)[d] = Clip(n - before(d), f[d])
    BY <1>5, <1>6
  <2>2. \A d \in Dates : g[d] = f[d] - Account!Soonest(n, f)[d]
    BY <1>3, <2>1
  <2> QED BY <1>1, <2>2, DatesFinite DEF Account!Spent, Account!Less
<1> QED BY <1>7, <1>8 DEF f, g, t

\* What is handed back is added to the funds.
LEMMA AccountGivesBack ==
  ASSUME NEW ls \in Seq(LotWith(Dates)), NEW back, Allocates(ls, back)
  PROVE  /\ ls \o HoldReleaseLots(ls, back) \in Seq(LotWith(Dates))
         /\ Funds(ls \o HoldReleaseLots(ls, back), Dates)
              = Account!Plus(Funds(ls, Dates), DatedOf(ls, back, Dates))
<1> DEFINE new == ls \o HoldReleaseLots(ls, back)
<1>1. new \in Seq(LotWith(Dates))
  <2>1. 0 \in Dates
    BY DatesFinite
  <2> QED BY <2>1, DatesFinite, HandedBackByDate
<1>2. \A d \in Dates : Funds(new, Dates)[d] = Funds(ls, Dates)[d] + DatedOf(ls, back, Dates)[d]
  BY DatesFinite, HandedBackByDate
<1> HIDE DEF new
<1>3. Funds(new, Dates) \in [Dates -> Nat]
  BY <1>1, DatesFinite, FundsNat
<1>4. Funds(new, Dates) = Account!Plus(Funds(ls, Dates), DatedOf(ls, back, Dates))
  BY <1>2, <1>3, DatesFinite DEF Account!Plus
<1> QED BY <1>1, <1>4 DEF new

\* A refund is what an account calls the Latest.
LEMMA AccountRefunds ==
  ASSUME NEW ls \in Seq(LotWith(Dates)), NEW alloc, Allocates(ls, alloc), NEW n \in Int
  PROVE  DatedOf(ls, Refund(ls, alloc, n), Dates) = Account!Latest(n, DatedOf(ls, alloc, Dates))
<1> DEFINE f == DatedOf(ls, alloc, Dates)
           t == DatedOf(ls, Refund(ls, alloc, n), Dates)
           before(d) == SumFunctionOnSet(f, {e \in Dates : e > d})
<1>1. f \in [Dates -> Nat]
  BY LotsFinite, DatedNat DEF Allocates
<1>2. t = [d \in Dates |-> t[d]]
  BY DEF DatedOf
<1>3. \A d \in Dates : t[d] = Clip(n - before(d), f[d])
  <2> SUFFICES ASSUME NEW d \in Dates
               PROVE  t[d] = Clip(n - before(d), f[d])
    OBVIOUS
  <2>1. Refund(ls, alloc, n) = Walk(n, alloc, RefundOrder(ls))
    BY DEF Refund
  <2>2. Dates \in SUBSET Int /\ IsFiniteSet(Dates)
    BY DatesFinite
  <2>3. DatedOf(ls, Walk(n, alloc, RefundOrder(ls)), Dates)[d] = Clip(n - before(d), f[d])
    BY <2>2, LatestFirst
  <2> QED BY <2>1, <2>3, Zenon
<1> HIDE DEF f, t
<1>4. \A d \in Dates : before(d) \in Nat
  BY <1>1, DatedSums
<1>5. \A d \in Dates : Account!Left(n, before(d), f[d]) = Clip(n - before(d), f[d])
  <2>1. n \in Int /\ \A d \in Dates : before(d) \in Int
    BY <1>4
  <2> HIDE DEF before
  <2> QED BY <2>1, LeftIsClip
<1>6. Account!Latest(n, f) = [d \in Dates |-> Account!Left(n, before(d), f[d])]
  <2> DEFINE there(d) == Account!SumFunctionOnSet(f, {e \in Dates : e > d})
  <2>1. \A d : there(d) = before(d)
    BY SameSums, Zenon
  <2>2. Account!Latest(n, f) = [d \in Dates |-> Account!Left(n, there(d), f[d])]
    BY DatesFinite, Zenon DEF Account!Latest
  <2> HIDE DEF there, before
  <2> QED BY <2>1, <2>2
<1> HIDE DEF before
<1>7. t = Account!Latest(n, f)
  BY <1>2, <1>3, <1>5, <1>6
<1> QED BY <1>7 DEF f, t

\* A lot that comes in is dated credits.
LEMMA AccountGrants ==
  ASSUME NEW ls \in Seq(LotWith(Dates)), NEW l \in LotWith(Dates)
  PROVE  Funds(Append(ls, l), Dates)
           = Account!Plus(Funds(ls, Dates), Account!Dated(l.rem, l.exp))
<1>1. Append(ls, l) \in Seq(LotWith(Dates)) /\ l.exp \in Dates /\ l.rem \in Nat
  BY DEF LotWith
<1>2. \A d \in Dates : Funds(Append(ls, l), Dates)[d]
                         = Funds(ls, Dates)[d] + (IF l.exp = d THEN l.rem ELSE 0)
  BY AppendedByDate
<1>3. Funds(Append(ls, l), Dates) \in [Dates -> Nat]
  BY <1>1, DatesFinite, FundsNat
<1>4. \A d \in Dates : Account!Dated(l.rem, l.exp)[d] = IF l.exp = d THEN l.rem ELSE 0
  BY <1>1, DatesFinite DEF Account!Dated, Account!Nothing
<1> QED BY <1>2, <1>3, <1>4, DatesFinite DEF Account!Plus

\* What is reclaimed of one grant goes from its deadline.
LEMMA AccountTakes ==
  ASSUME NEW ls \in Seq(LotWith(Dates)), NEW take, Allocates(ls, take),
         \A i \in DOMAIN take : take[i] <= ls[i].rem,
         NEW x \in Dates, \A i \in DOMAIN take : ls[i].exp = x
  PROVE  /\ Funds(TakeFrom(ls, take), Dates)
              = Account!Less(Funds(ls, Dates), Account!Dated(SumFunction(take), x))
         /\ SumFunction(take) <= Funds(ls, Dates)[x]
<1>1. TakeFrom(ls, take) \in Seq(LotWith(Dates))
  <2>1. \A i \in DOMAIN take : i \in DOMAIN ls => take[i] \in Nat /\ take[i] <= ls[i].rem
    BY DEF Allocates
  <2> QED BY <2>1, TakeShrinks
<1>2. \A d \in Dates : Funds(TakeFrom(ls, take), Dates)[d]
                         = Funds(ls, Dates)[d] - DatedOf(ls, take, Dates)[d]
  BY TakenByDate
<1>3. \A d \in Dates : DatedOf(ls, take, Dates)[d] = IF d = x THEN SumFunction(take) ELSE 0
  <2> SUFFICES ASSUME NEW d \in Dates
               PROVE  DatedOf(ls, take, Dates)[d] = IF d = x THEN SumFunction(take) ELSE 0
    OBVIOUS
  <2>1. CASE d = x
    BY <2>1, OneDate
  <2>2. CASE d # x
    BY <2>2, OneDate
  <2> QED BY <2>1, <2>2
<1>4. Funds(TakeFrom(ls, take), Dates) \in [Dates -> Nat] /\ Funds(ls, Dates) \in [Dates -> Nat]
  BY <1>1, DatesFinite, FundsNat
<1>5. \A d \in Dates : Account!Dated(SumFunction(take), x)[d] = DatedOf(ls, take, Dates)[d]
  BY <1>3, DatesFinite DEF Account!Dated, Account!Nothing
<1>6. Funds(TakeFrom(ls, take), Dates)
        = Account!Less(Funds(ls, Dates), Account!Dated(SumFunction(take), x))
  BY <1>2, <1>4, <1>5, DatesFinite DEF Account!Less
<1>7. SumFunction(take) <= Funds(ls, Dates)[x]
  <2>1. Funds(TakeFrom(ls, take), Dates)[x] = Funds(ls, Dates)[x] - SumFunction(take)
    BY <1>2, <1>3
  <2>2. Funds(TakeFrom(ls, take), Dates)[x] \in Nat /\ Funds(ls, Dates)[x] \in Nat
    BY <1>4
  <2>3. SumFunction(take) \in Nat
    <3>1. IsFiniteSet(DOMAIN take) /\ \A i \in DOMAIN take : take[i] \in Nat
      BY LotsFinite DEF Allocates
    <3> QED BY <3>1, SumNat, SumOfFunction
  <2> QED BY <2>1, <2>2, <2>3
<1> QED BY <1>6, <1>7

-------------------------------------------------------------------------------
\* What an account sees of a hold.
\* What a hold has set aside, by deadline, and what it is to an account.
Aside(ls, hd) ==
  IF hd.status = "held" THEN DatedOf(ls, hd.alloc, Dates) ELSE [d \in Dates |-> 0]

StateOf(hd) ==
  CASE hd.status = "held" -> "open"
    [] hd.status = "captured" -> "charged"
    [] OTHER -> "free"

\* The wallet as an account sees it, before a step and after it.
LEMMA Seen ==
  /\ ByDeadline(Remaining(lots)) = Funds(lots, Dates)
  /\ [h \in HoldKeys |-> IF Open(h) THEN ByDeadline(holds[h].alloc) ELSE [d \in 0..Never |-> 0]]
       = [h \in HoldKeys |-> Aside(lots, holds[h])]
  /\ [h \in HoldKeys |-> AccountState(h)] = [h \in HoldKeys |-> StateOf(holds[h])]
  /\ SumFunction([d \in DOMAIN debts |-> debts[d].out]) = Owing(debts)
<1>1. \A f : ByDeadline(f) = DatedOf(lots, f, Dates)
  BY DEF ByDeadline, DatedOf, Dates
<1> QED BY <1>1 DEF Funds, Aside, Open, AccountState, StateOf, Owing, Dates

\* The same after a step.
LEMMA SeenAfter ==
  /\ ByDeadline(Remaining(lots))' = Funds(lots', Dates)
  /\ [h \in HoldKeys |-> IF Open(h) THEN ByDeadline(holds[h].alloc) ELSE [d \in 0..Never |-> 0]]'
       = [h \in HoldKeys |-> Aside(lots', holds'[h])]
  /\ [h \in HoldKeys |-> AccountState(h)]' = [h \in HoldKeys |-> StateOf(holds'[h])]
  /\ SumFunction([d \in DOMAIN debts |-> debts[d].out])' = Owing(debts')
<1>1. \A f : ByDeadline(f)' = DatedOf(lots', f, Dates)
  BY DEF ByDeadline, DatedOf, Dates
<1> QED BY <1>1 DEF Funds, Aside, Open, AccountState, StateOf, Owing, Dates, ByDeadline, DatedOf

\* No hold moves, as an account sees it.
HoldsUnmoved ==
  \A h \in HoldKeys : /\ Aside(lots', holds'[h]) = Aside(lots, holds[h])
                      /\ StateOf(holds'[h]) = StateOf(holds[h])

\* A sweep is a lapse of the account.
LEMMA Lapses ==
  ASSUME NEW now \in Readings, HoldsUnmoved, UNCHANGED clock,
         Funds(lots', Dates) = Account!Alive(Funds(lots, Dates), now),
         Owing(debts') = Owing(debts)
  PROVE  Account!Lapse
BY Seen, SeenAfter DEF HoldsUnmoved, Account!Lapse, Readings, Account!Readings

\* What is settled of a debt out of the funds f.
Pays(f, debt, after, left) ==
  LET paid == Clip(debt, SumFunction(f))
  IN  after = Account!Spent(f, paid) /\ left = debt - paid

\* Settling debts out of funds is what an account calls Settled.
LEMMA PaysSettles ==
  ASSUME NEW f, NEW debt \in Nat, Pays(f, debt, Funds(lots', Dates), Owing(debts'))
  PROVE  Account!Settled(f, debt)
<1>1. Account!Left(debt, 0, Account!Total(f)) = Clip(debt, SumFunction(f))
  <2>1. Account!Left(debt, 0, Account!Total(f)) = Clip(debt - 0, Account!Total(f))
    BY LeftIsClip
  <2>2. Account!Total(f) = SumFunction(f) /\ debt - 0 = debt
    BY SameSums DEF Account!Total
  <2> QED BY <2>1, <2>2
<1> QED BY <1>1, Seen, SeenAfter DEF Pays, Account!Settled

\* What a step must do to funds and debts to be a grant.
LEMMA Grants ==
  ASSUME NEW now \in Readings, HoldsUnmoved, UNCHANGED clock, debts \in Seq(DebtRecords),
         NEW c, NEW exp, exp > now,
         LET f == Account!Plus(Account!Alive(Funds(lots, Dates), now), Account!Dated(c, exp))
         IN  \/ Funds(lots', Dates) = f /\ Owing(debts') = Owing(debts)
             \/ Pays(f, Owing(debts), Funds(lots', Dates), Owing(debts'))
  PROVE  Account!Grant(c, exp)
<1> DEFINE f == Account!Plus(Account!Alive(Funds(lots, Dates), now), Account!Dated(c, exp))
<1>1. \/ Funds(lots', Dates) = f /\ Owing(debts') = Owing(debts)
      \/ Account!Settled(f, Owing(debts))
  BY OwingNat, PaysSettles
<1> HIDE DEF f
<1>2. now \in Account!Readings
  BY DEF Readings, Account!Readings
<1> QED BY <1>1, <1>2, Seen, SeenAfter DEF HoldsUnmoved, Account!Grant, f

\* What it must do to be a spend, the unpaid part owed.
LEMMA Serves ==
  ASSUME NEW now \in Readings, HoldsUnmoved, UNCHANGED clock, NEW c \in Nat,
         LET f == Account!Alive(Funds(lots, Dates), now)
             paid == Clip(c, SumFunction(f))
         IN  /\ Funds(lots', Dates) = Account!Spent(f, paid)
             /\ Owing(debts') = Owing(debts) + (c - paid)
  PROVE  Account!Serve(c)
<1> DEFINE f == Account!Alive(Funds(lots, Dates), now)
<1>1. Account!Left(c, 0, Account!Total(f)) = Clip(c, SumFunction(f))
  <2>1. Account!Left(c, 0, Account!Total(f)) = Clip(c - 0, Account!Total(f))
    BY LeftIsClip
  <2>2. Account!Total(f) = SumFunction(f) /\ c - 0 = c
    BY SameSums DEF Account!Total
  <2> QED BY <2>1, <2>2
<1>2. now \in Account!Readings
  BY DEF Readings, Account!Readings
<1> QED BY <1>1, <1>2, Seen, SeenAfter DEF HoldsUnmoved, Account!Serve

\* One hold moves, as an account sees it, and the others do not.
HoldMoved(h, aside, state) ==
  /\ Aside(lots', holds'[h]) = aside /\ StateOf(holds'[h]) = state
  /\ \A k \in HoldKeys \ {h} : /\ Aside(lots', holds'[k]) = Aside(lots, holds[k])
                               /\ StateOf(holds'[k]) = StateOf(holds[k])

\* The reservations an account sees after one of them moved.
LEMMA SeenMoved ==
  ASSUME NEW h \in HoldKeys, NEW aside, NEW state, HoldMoved(h, aside, state)
  PROVE  /\ [k \in HoldKeys |-> Aside(lots', holds'[k])]
              = [[k \in HoldKeys |-> Aside(lots, holds[k])] EXCEPT ![h] = aside]
         /\ [k \in HoldKeys |-> StateOf(holds'[k])]
              = [[k \in HoldKeys |-> StateOf(holds[k])] EXCEPT ![h] = state]
BY DEF HoldMoved

\* What a step must do to be a reservation.
LEMMA Reserves ==
  ASSUME NEW now \in Readings, UNCHANGED clock, NEW h \in HoldKeys, NEW c,
         StateOf(holds[h]) = "free", Owing(debts') = Owing(debts),
         LET f == Account!Alive(Funds(lots, Dates), now)
         IN  /\ c <= SumFunction(f)
             /\ HoldMoved(h, Account!Soonest(c, f), "open")
             /\ Funds(lots', Dates) = Account!Spent(f, c)
  PROVE  Account!Reserve(h, c)
<1> DEFINE aside == [k \in HoldKeys |-> Aside(lots, holds[k])]
           asideAfter == [k \in HoldKeys |-> Aside(lots', holds'[k])]
           states == [k \in HoldKeys |-> StateOf(holds[k])]
           statesAfter == [k \in HoldKeys |-> StateOf(holds'[k])]
           f == Account!Alive(Funds(lots, Dates), now)
<1>1. now \in Account!Readings
  BY DEF Readings, Account!Readings
<1>2. asideAfter = [aside EXCEPT ![h] = Account!Soonest(c, f)]
  BY SeenMoved, Zenon
<1>3. statesAfter = [states EXCEPT ![h] = "open"]
  BY SeenMoved, Zenon
<1>4. states[h] = "free"
  BY DEF states
<1>5. c <= Account!Total(f) /\ Funds(lots', Dates) = Account!Spent(f, c)
  BY SameSums DEF Account!Total
<1> HIDE DEF aside, asideAfter, states, statesAfter, f
<1> QED BY <1>1, <1>2, <1>3, <1>4, <1>5, Seen, SeenAfter
        DEF Account!Reserve, aside, asideAfter, states, statesAfter, f

\* A hold that closes lets go of what it set aside.
LEMMA Closes ==
  ASSUME UNCHANGED clock, NEW h \in HoldKeys, NEW to, Open(h),
         Owing(debts') = Owing(debts), HoldMoved(h, [d \in Dates |-> 0], to)
  PROVE  Account!Close(h, to)
<1> DEFINE aside == [k \in HoldKeys |-> Aside(lots, holds[k])]
           asideAfter == [k \in HoldKeys |-> Aside(lots', holds'[k])]
           states == [k \in HoldKeys |-> StateOf(holds[k])]
           statesAfter == [k \in HoldKeys |-> StateOf(holds'[k])]
<1>1. states[h] = "open"
  BY DEF StateOf, Open
<1>2. asideAfter = [aside EXCEPT ![h] = Account!Nothing]
  <2>1. Account!Nothing = [d \in Dates |-> 0]
    BY DatesFinite DEF Account!Nothing
  <2> QED BY <2>1, SeenMoved, Zenon
<1>3. statesAfter = [states EXCEPT ![h] = to]
  BY SeenMoved, Zenon
<1> HIDE DEF aside, asideAfter, states, statesAfter
<1> QED BY <1>1, <1>2, <1>3, Seen, SeenAfter
        DEF Account!Close, aside, asideAfter, states, statesAfter

\* What a step must do to charge a hold no more than it set aside.
LEMMA ChargesWithin ==
  ASSUME NEW now \in Readings, UNCHANGED clock, NEW h \in HoldKeys, NEW actual, Open(h),
         Owing(debts') = Owing(debts), HoldMoved(h, [d \in Dates |-> 0], "charged"),
         LET r == Aside(lots, holds[h])
         IN  /\ actual <= SumFunction(r)
             /\ Funds(lots', Dates)
                  = Account!Alive(Account!Plus(Funds(lots, Dates),
                                               Account!Latest(SumFunction(r) - actual, r)), now)
  PROVE  Account!ChargeWithin(h, actual)
<1>1. now \in Account!Readings
  BY DEF Readings, Account!Readings
<1>2. Account!Close(h, "charged")
  BY Closes
<1> QED BY <1>1, <1>2, Seen, SeenAfter, SameSums DEF Account!ChargeWithin, Account!Total

\* What it must do to charge a hold more than that.
LEMMA ChargesBeyond ==
  ASSUME NEW now \in Readings, UNCHANGED clock, NEW h \in HoldKeys, NEW actual, Open(h),
         Owing(debts') = Owing(debts), HoldMoved(h, [d \in Dates |-> 0], "charged"),
         LET f == Account!Alive(Funds(lots, Dates), now)
             extra == actual - SumFunction(Aside(lots, holds[h]))
         IN  /\ extra > 0 /\ extra <= SumFunction(f)
             /\ Funds(lots', Dates) = Account!Spent(f, extra)
  PROVE  Account!ChargeBeyond(h, actual)
<1>1. now \in Account!Readings
  BY DEF Readings, Account!Readings
<1>2. Account!Close(h, "charged")
  BY Closes
<1> QED BY <1>1, <1>2, Seen, SeenAfter, SameSums DEF Account!ChargeBeyond, Account!Total

\* What it must do to close a hold that set nothing aside.
LEMMA ChargesNothing ==
  ASSUME UNCHANGED clock, NEW h \in HoldKeys, Open(h),
         Owing(debts') = Owing(debts), HoldMoved(h, [d \in Dates |-> 0], "charged"),
         Aside(lots, holds[h]) = [d \in Dates |-> 0],
         Funds(lots', Dates) = Funds(lots, Dates)
  PROVE  Account!ChargeNothing(h)
<1>1. Account!Close(h, "charged")
  BY Closes
<1> QED BY <1>1, Seen, SeenAfter, DatesFinite DEF Account!ChargeNothing, Account!Nothing

\* What it must do to give a hold back.
LEMMA GivesBack ==
  ASSUME NEW now \in Readings, UNCHANGED clock, NEW h \in HoldKeys, Open(h),
         Owing(debts') = Owing(debts), HoldMoved(h, [d \in Dates |-> 0], "free"),
         Funds(lots', Dates)
           = Account!Alive(Account!Plus(Funds(lots, Dates), Aside(lots, holds[h])), now)
  PROVE  Account!GiveBack(h)
<1>1. now \in Account!Readings
  BY DEF Readings, Account!Readings
<1>2. Account!Close(h, "free")
  BY Closes
<1> QED BY <1>1, <1>2, Seen, SeenAfter DEF Account!GiveBack

\* What it must do to take credits back, at one deadline, and bill the rest.
LEMMA TakesBack ==
  ASSUME NEW now \in Readings, HoldsUnmoved, UNCHANGED clock, NEW c \in Nat,
         NEW exp \in Dates, NEW taken \in 0..c, NEW debt \in 0..(c - taken),
         LET f == Account!Alive(Funds(lots, Dates), now)
         IN  /\ taken <= f[exp]
             /\ Funds(lots', Dates) = Account!Less(f, Account!Dated(taken, exp)),
         Owing(debts') = Owing(debts) + debt
  PROVE  Account!TakeBack(c)
<1>1. now \in Account!Readings
  BY DEF Readings, Account!Readings
<1> DEFINE f == Account!Alive(Funds(lots, Dates), now)
<1>2. taken <= f[exp] /\ Funds(lots', Dates) = Account!Less(f, Account!Dated(taken, exp))
  OBVIOUS
<1>3. exp \in Account!Dates
  BY DatesFinite
<1> HIDE DEF f
<1> QED BY <1>1, <1>2, <1>3, Seen, SeenAfter DEF HoldsUnmoved, Account!TakeBack, f

\* What it must do to pay credits back after a waiver.
LEMMA PaysBack ==
  ASSUME NEW now \in Readings, HoldsUnmoved, UNCHANGED clock, debts \in Seq(DebtRecords),
         NEW c, NEW exp \in Dates, NEW waived \in 0..Owing(debts),
         \/ Pays(Account!Alive(Account!Plus(Funds(lots, Dates), Account!Dated(c, exp)), now),
                 Owing(debts) - waived, Funds(lots', Dates), Owing(debts'))
         \/ c = 0 /\ Funds(lots', Dates) = Funds(lots, Dates)
              /\ Owing(debts') = Owing(debts) - waived
  PROVE  Account!PayBack(c)
<1> DEFINE f == Account!Alive(Account!Plus(Funds(lots, Dates), Account!Dated(c, exp)), now)
<1>1. \/ Account!Settled(f, Owing(debts) - waived)
      \/ c = 0 /\ Funds(lots', Dates) = Funds(lots, Dates)
           /\ Owing(debts') = Owing(debts) - waived
  <2>1. Owing(debts) - waived \in Nat
    <3>1. Owing(debts) \in Nat
      BY OwingNat
    <3> QED BY <3>1
  <2> HIDE DEF f
  <2> QED BY <2>1, PaysSettles DEF f
<1> HIDE DEF f
<1>2. now \in Account!Readings
  BY DEF Readings, Account!Readings
<1> QED BY <1>1, <1>2, Seen, SeenAfter, DatesFinite DEF HoldsUnmoved, Account!PayBack, f

-------------------------------------------------------------------------------
\* No lot's deadline moves.
DeadlinesStay == \A i \in 1..Len(lots) : lots'[i].exp = lots[i].exp

\* A hold nobody touches looks the same to an account.
LEMMA HoldLooksSame ==
  ASSUME TypeOK, DeadlinesStay, NEW k \in HoldKeys, holds'[k] = holds[k]
  PROVE  /\ Aside(lots', holds'[k]) = Aside(lots, holds[k])
         /\ StateOf(holds'[k]) = StateOf(holds[k])
<1> DEFINE alloc == holds[k].alloc
<1>1. DOMAIN alloc \subseteq 1..Len(lots) /\ IsFiniteSet(DOMAIN alloc)
  <2>1. DOMAIN alloc \subseteq DOMAIN lots /\ lots \in Seq(Lot)
    BY AllocTypes DEF AllocTyped, TypeOK
  <2> HIDE DEF alloc
  <2> QED BY <2>1, LotsFinite
<1>2. SameDeadlines(lots', lots, alloc)
  BY <1>1 DEF DeadlinesStay, SameDeadlines
<1> HIDE DEF alloc
<1>3. DatedOf(lots', alloc, Dates) = DatedOf(lots, alloc, Dates)
  BY <1>2, SameDates
<1> QED BY <1>3 DEF Aside, alloc

\* A step that leaves the holds alone moves none.
LEMMA NoHoldMoves ==
  ASSUME TypeOK, DeadlinesStay, UNCHANGED holds
  PROVE  HoldsUnmoved
BY HoldLooksSame, Zenon DEF HoldsUnmoved

\* A step that changes one hold moves no other.
LEMMA OneHoldMoves ==
  ASSUME TypeOK, DeadlinesStay, NEW h \in HoldKeys,
         \A k \in HoldKeys \ {h} : holds'[k] = holds[k],
         NEW aside, NEW state, Aside(lots', holds'[h]) = aside, StateOf(holds'[h]) = state
  PROVE  HoldMoved(h, aside, state)
<1>1. \A k \in HoldKeys \ {h} : /\ Aside(lots', holds'[k]) = Aside(lots, holds[k])
                               /\ StateOf(holds'[k]) = StateOf(holds[k])
  <2> SUFFICES ASSUME NEW k \in HoldKeys \ {h}
               PROVE  /\ Aside(lots', holds'[k]) = Aside(lots, holds[k])
                      /\ StateOf(holds'[k]) = StateOf(holds[k])
    OBVIOUS
  <2>1. k \in HoldKeys /\ holds'[k] = holds[k]
    OBVIOUS
  <2> QED BY <2>1, HoldLooksSame
<1> QED BY <1>1 DEF HoldMoved

\* What every service does first: the lots swept, and what is left of them.
LEMMA SweptFunds ==
  ASSUME TypeOK, NEW now \in Nat
  PROVE  LET ls == ExpireDueLots(lots, now)
         IN  /\ lots \in Seq(LotWith(Dates)) /\ debts \in Seq(DebtRecords)
             /\ ls \in Seq(LotWith(Dates)) /\ Alive(ls, now)
             /\ Len(ls) = Len(lots) /\ DOMAIN ls = DOMAIN lots
             /\ \A i \in DOMAIN lots : ls[i].exp = lots[i].exp /\ ls[i].grant = lots[i].grant
             /\ Funds(ls, Dates) = Account!Alive(Funds(lots, Dates), now)
             /\ LiveBalance(ls, now) = SumFunction(Funds(ls, Dates))
             /\ Owing(debts) \in Nat
<1> DEFINE ls == ExpireDueLots(lots, now)
<1>1. lots \in Seq(LotWith(Dates)) /\ debts \in Seq(DebtRecords)
  BY DatesFinite, DebtsTyped DEF TypeOK
<1>2. /\ ls \in Seq(LotWith(Dates)) /\ Len(ls) = Len(lots) /\ Shrunk(lots, ls)
  BY <1>1, ExpireShrinks
<1>3. Alive(ls, now)
  BY <1>1, DatesFinite, SweptAlive
<1>4. Funds(ls, Dates) = Account!Alive(Funds(lots, Dates), now)
  BY <1>1, AccountSweeps
<1> HIDE DEF ls
<1>5. LiveBalance(ls, now) = SumFunction(Funds(ls, Dates))
  BY <1>2, <1>3, DatesFinite, AliveBalance
<1>6. Owing(debts) \in Nat
  BY <1>1, OwingNat
<1> QED BY <1>1, <1>2, <1>3, <1>4, <1>5, <1>6 DEF ls, Shrunk

\* A lot that is not dead on arrival leaves none dead.
LEMMA AliveAppends ==
  ASSUME NEW E, NEW ls \in Seq(LotWith(E)), NEW l \in LotWith(E), NEW now,
         Alive(ls, now), l.exp > now
  PROVE  Append(ls, l) \in Seq(LotWith(E)) /\ Alive(Append(ls, l), now)
<1>1. /\ Append(ls, l) \in Seq(LotWith(E)) /\ Len(Append(ls, l)) = Len(ls) + 1
      /\ Append(ls, l)[Len(ls) + 1] = l
      /\ \A i \in 1..Len(ls) : Append(ls, l)[i] = ls[i]
  BY AppendProperties
<1>2. \A i \in 1..Len(Append(ls, l)) : i \in 1..Len(ls) \/ i = Len(ls) + 1
  BY <1>1, LotsFinite
<1> QED BY <1>1, <1>2, Zenon DEF Alive

\* Debts settled out of swept lots.
LEMMA SettlingPays ==
  ASSUME NEW ls \in Seq(LotWith(Dates)), NEW ds \in Seq(DebtRecords), NEW now, Alive(ls, now)
  PROVE  Pays(Funds(ls, Dates), Owing(ds), Funds(LotsAfterSettling(ls, ds, now), Dates),
              Owing(SettleDebts(ls, ds, now)))
<1> DEFINE paid == Clip(Owing(ds), SumFunction(Funds(ls, Dates)))
<1>1. /\ paid \in Nat
      /\ Owing(SettleDebts(ls, ds, now)) = Owing(ds) - paid
      /\ LotsAfterSettling(ls, ds, now) = ConsumeLots(ls, paid, now)
  BY DatesFinite, SettledTogether
<1>2. Funds(ConsumeLots(ls, paid, now), Dates) = Account!Spent(Funds(ls, Dates), paid)
  BY <1>1, AccountSpends
<1> QED BY <1>1, <1>2, Zenon DEF Pays

\* credit() is a Grant.
LEMMA CreditGrants ==
  ASSUME TypeOK, DeadlinesStay, NEW key, NEW c \in Amounts, NEW exp \in Deadlines,
         NEW settle \in BOOLEAN, Credit(key, c, exp, settle)
  PROVE  Account!Grant(c, exp)
<1> DEFINE l == [rem |-> c, exp |-> exp, grant |-> NextRow, expired |-> 0]
           swept(now) == ExpireDueLots(lots, now)
           granted(now) == Append(swept(now), l)
<1>1. PICK now \in Readings :
        /\ exp > now
        /\ lots' = IF settle THEN LotsAfterSettling(granted(now), debts, now)
                             ELSE granted(now)
        /\ debts' = IF settle THEN SettleDebts(granted(now), debts, now) ELSE debts
        /\ UNCHANGED <<clock, holds>>
  BY Zenon DEF Credit
<1>2. now \in Nat /\ HoldsUnmoved
  BY <1>1, ReadingsPast, NoHoldMoves, Zenon
<1>3. l \in LotWith(Dates) /\ l.exp = exp /\ l.rem = c
  <2>1. c \in Nat /\ exp \in Dates /\ NextRow \in Nat /\ 0 \in Nat
    BY Types, Indexes, DatesFinite
  <2> QED BY <2>1, Zenon DEF LotWith
<1>4. /\ swept(now) \in Seq(LotWith(Dates)) /\ Alive(swept(now), now)
      /\ Funds(swept(now), Dates) = Account!Alive(Funds(lots, Dates), now)
      /\ debts \in Seq(DebtRecords)
  BY <1>2, SweptFunds, Zenon
<1> HIDE DEF l, swept
<1>5. granted(now) \in Seq(LotWith(Dates)) /\ Alive(granted(now), now)
  BY <1>1, <1>3, <1>4, AliveAppends, Zenon
<1> DEFINE f == Account!Plus(Account!Alive(Funds(lots, Dates), now), Account!Dated(c, exp))
<1>6. Funds(granted(now), Dates) = f
  <2>1. Funds(granted(now), Dates)
          = Account!Plus(Funds(swept(now), Dates), Account!Dated(l.rem, l.exp))
    BY <1>3, <1>4, AccountGrants, Zenon
  <2> QED BY <1>3, <1>4, <2>1, Zenon
<1> HIDE DEF granted
<1>7. \/ Funds(lots', Dates) = f /\ Owing(debts') = Owing(debts)
      \/ Pays(f, Owing(debts), Funds(lots', Dates), Owing(debts'))
  <2>1. CASE settle
    <3>1. lots' = LotsAfterSettling(granted(now), debts, now)
          /\ debts' = SettleDebts(granted(now), debts, now)
      BY <1>1, <2>1, Zenon
    <3> QED BY <1>4, <1>5, <1>6, <3>1, SettlingPays, Zenon
  <2>2. CASE ~settle
    BY <1>1, <1>6, <2>2, Zenon
  <2> QED BY <2>1, <2>2, Zenon
<1> QED BY <1>1, <1>2, <1>4, <1>7, Grants, Zenon

\* debit(), all or nothing or partial, is a Serve.
LEMMA DebitServes ==
  ASSUME TypeOK, DeadlinesStay, NEW key, NEW c \in Amounts, NEW partial \in BOOLEAN,
         Debit(key, c, partial)
  PROVE  Account!Serve(c)
<1> DEFINE swept(now) == ExpireDueLots(lots, now)
           live(now) == LiveBalance(swept(now), now)
           charged(now) == IF partial THEN Clip(c, live(now)) ELSE c
<1>1. PICK now \in Readings :
        /\ charged(now) <= live(now)
        /\ lots' = ConsumeLots(swept(now), charged(now), now)
        /\ debts' = IF charged(now) < c THEN OpenDebt(debts, c - charged(now), NextRow)
                                        ELSE debts
        /\ UNCHANGED <<clock, holds>>
  BY Zenon DEF Debit
<1>2. now \in Nat /\ HoldsUnmoved
  BY <1>1, ReadingsPast, NoHoldMoves, Zenon
<1>3. /\ swept(now) \in Seq(LotWith(Dates)) /\ Alive(swept(now), now)
      /\ Funds(swept(now), Dates) = Account!Alive(Funds(lots, Dates), now)
      /\ live(now) = SumFunction(Funds(swept(now), Dates))
      /\ debts \in Seq(DebtRecords)
  BY <1>2, SweptFunds, Zenon
<1>4. live(now) \in Nat
  BY <1>3, DatesFinite, FundsNat
<1>5. c \in Nat /\ NextRow \in Nat
  BY Types, Indexes
<1> HIDE DEF swept, live
<1>6. charged(now) = Clip(c, live(now)) /\ charged(now) \in 0..c
  BY <1>1, <1>4, <1>5 DEF Clip
<1> HIDE DEF charged
<1>7. Funds(lots', Dates) = Account!Spent(Funds(swept(now), Dates), charged(now))
  <2>1. charged(now) \in Nat
    BY <1>5, <1>6
  <2> QED BY <1>1, <1>3, <2>1, AccountSpends, Zenon
<1>8. Owing(debts') = Owing(debts) + (c - charged(now))
  <2>1. CASE charged(now) < c
    <3> DEFINE d == [out |-> c - charged(now), init |-> c - charged(now), billed |-> 0,
                     row |-> NextRow]
    <3>1. d \in DebtRecords /\ d.out = c - charged(now)
      BY <1>5, <1>6 DEF DebtRecords
    <3>2. debts' = Append(debts, d)
      BY <1>1, <2>1, Zenon DEF OpenDebt
    <3> HIDE DEF d
    <3> QED BY <1>3, <3>1, <3>2, OwingRises, Zenon
  <2>2. CASE ~(charged(now) < c)
    <3>1. debts' = debts /\ c - charged(now) = 0
      BY <1>1, <1>5, <1>6, <2>2
    <3>2. Owing(debts) \in Nat
      BY <1>3, OwingNat
    <3> QED BY <3>1, <3>2
  <2> QED BY <2>1, <2>2, Zenon
<1> QED BY <1>1, <1>2, <1>3, <1>5, <1>6, <1>7, <1>8, Serves, Zenon

\* A sweep on its own is a Lapse.
LEMMA SweepLapses ==
  ASSUME TypeOK, DeadlinesStay, NEW now \in Readings, lots' = ExpireDueLots(lots, now),
         UNCHANGED <<clock, holds, debts>>
  PROVE  Account!Lapse
<1>1. now \in Nat /\ HoldsUnmoved
  BY ReadingsPast, NoHoldMoves, Zenon
<1>2. Funds(lots', Dates) = Account!Alive(Funds(lots, Dates), now)
  BY <1>1, SweptFunds, Zenon
<1> QED BY <1>1, <1>2, Lapses, Zenon

\* hold() is a Reserve, of nothing when the policy waives it.
LEMMA HoldReserves ==
  ASSUME TypeOK, DeadlinesStay, NEW h \in HoldKeys, NEW c \in Amounts, NEW exp, NEW waived,
         Hold(h, c, exp, waived)
  PROVE  Account!Reserve(h, IF waived THEN 0 ELSE c)
<1> DEFINE n == IF waived THEN 0 ELSE c
           swept(now) == ExpireDueLots(lots, now)
           taken(now) == Consumption(swept(now), n, now)
           new(now) == [status |-> "held", credits |-> n, exp |-> exp,
                        alloc |-> Positive(taken(now)), waived |-> waived]
<1>1. PICK now \in Readings :
        /\ Reservable(h)
        /\ n <= LiveBalance(swept(now), now)
        /\ lots' = ConsumeLots(swept(now), n, now)
        /\ holds' = [holds EXCEPT ![h] = new(now)]
        /\ UNCHANGED <<clock, debts>>
  BY Zenon DEF Hold
<1>2. now \in Nat /\ n \in Nat
  <2>1. now \in Nat
    BY ReadingsPast, Zenon
  <2>2. n \in Nat
    BY Types
  <2> QED BY <2>1, <2>2
<1>3. /\ swept(now) \in Seq(LotWith(Dates)) /\ Alive(swept(now), now)
      /\ Funds(swept(now), Dates) = Account!Alive(Funds(lots, Dates), now)
      /\ LiveBalance(swept(now), now) = SumFunction(Funds(swept(now), Dates))
      /\ DOMAIN swept(now) = DOMAIN lots
      /\ \A i \in DOMAIN lots : swept(now)[i].exp = lots[i].exp
  BY <1>2, SweptFunds, Zenon
<1>4. Allocates(lots, taken(now)) /\ lots \in Seq(Lot)
  BY <1>2, ConsumptionAllocates, Zenon DEF TypeOK
<1>5. holds'[h] = new(now) /\ \A k \in HoldKeys \ {h} : holds'[k] = holds[k]
  <2>1. DOMAIN holds = HoldKeys
    BY DEF TypeOK
  <2> HIDE DEF new
  <2> QED BY <1>1, <2>1
<1>6. holds'[h].status = "held" /\ holds'[h].alloc = Positive(taken(now))
  BY <1>5
<1> HIDE DEF n, swept, new
<1>7. /\ Funds(lots', Dates) = Account!Spent(Funds(swept(now), Dates), n)
      /\ DatedOf(swept(now), taken(now), Dates) = Account!Soonest(n, Funds(swept(now), Dates))
  BY <1>1, <1>2, <1>3, AccountSpends, Zenon
<1> HIDE DEF taken
<1>8. Aside(lots', holds'[h]) = DatedOf(swept(now), taken(now), Dates)
  <2>1. DOMAIN taken(now) \subseteq 1..Len(lots) /\ IsFiniteSet(DOMAIN taken(now))
        /\ (\A i \in DOMAIN taken(now) : taken(now)[i] \in Nat) /\ DOMAIN lots = 1..Len(lots)
    BY <1>4, LotsFinite DEF Allocates
  <2>2. SameDeadlines(lots', swept(now), taken(now))
    BY <1>3, <2>1 DEF DeadlinesStay, SameDeadlines
  <2>3. DatedOf(lots', taken(now), Dates) = DatedOf(swept(now), taken(now), Dates)
    BY <2>2, SameDates
  <2>4. DatedOf(lots', Positive(taken(now)), Dates) = DatedOf(lots', taken(now), Dates)
    BY <2>1, PositiveByDate
  <2> QED BY <1>6, <2>3, <2>4 DEF Aside
<1>9. StateOf(holds'[h]) = "open" /\ StateOf(holds[h]) = "free"
  BY <1>1, <1>6 DEF StateOf, Reservable
<1>10. HoldMoved(h, Account!Soonest(n, Funds(swept(now), Dates)), "open")
  BY <1>5, <1>7, <1>8, <1>9, OneHoldMoves, Zenon
<1>11. n <= SumFunction(Funds(swept(now), Dates))
  BY <1>1, <1>3, Zenon
<1>12. Account!Reserve(h, n)
  BY <1>1, <1>3, <1>7, <1>9, <1>10, <1>11, Reserves, Zenon
<1> QED BY <1>12 DEF n

\* A hold that is not open any more has nothing set aside.
LEMMA ClosedMoves ==
  ASSUME TypeOK, DeadlinesStay, NEW h \in HoldKeys, NEW status, status # "held", NEW alloc,
         holds' = [holds EXCEPT ![h].status = status, ![h].alloc = alloc]
  PROVE  HoldMoved(h, [d \in Dates |-> 0], IF status = "captured" THEN "charged" ELSE "free")
<1>1. /\ \A k \in HoldKeys \ {h} : holds'[k] = holds[k]
      /\ holds'[h].status = status
  <2>1. DOMAIN holds = HoldKeys /\ "status" \in DOMAIN holds[h]
    BY AllocTypes DEF TypeOK, HoldRecord
  <2> QED BY <2>1
<1>2. Aside(lots', holds'[h]) = [d \in Dates |-> 0]
  BY <1>1 DEF Aside
<1>3. StateOf(holds'[h]) = IF status = "captured" THEN "charged" ELSE "free"
  BY <1>1 DEF StateOf
<1> QED BY <1>1, <1>2, <1>3, OneHoldMoves

\* What an open hold has set aside, lots swept or not.
LEMMA SetAside ==
  ASSUME TypeOK, NEW h \in HoldKeys, Open(h), NEW now \in Nat
  PROVE  LET ls == ExpireDueLots(lots, now)
             alloc == holds[h].alloc
         IN  /\ Allocates(lots, alloc) /\ Allocates(ls, alloc)
             /\ DatedOf(ls, alloc, Dates) = Aside(lots, holds[h])
             /\ SumFunction(Aside(lots, holds[h])) = SumFunction(alloc)
             /\ Aside(lots, holds[h]) \in [Dates -> Nat]
<1> DEFINE ls == ExpireDueLots(lots, now)
           alloc == holds[h].alloc
<1>1. Allocates(lots, alloc) /\ lots \in Seq(LotWith(Dates))
  BY AllocTypes, SweptFunds, Zenon
<1>2. DOMAIN ls = DOMAIN lots /\ \A i \in DOMAIN lots : ls[i].exp = lots[i].exp
  BY SweptFunds, Zenon
<1>3. Aside(lots, holds[h]) = DatedOf(lots, alloc, Dates)
  BY DEF Aside, Open
<1> HIDE DEF ls, alloc
<1>4. DatedOf(ls, alloc, Dates) = DatedOf(lots, alloc, Dates)
  <2>1. SameDeadlines(ls, lots, alloc)
    BY <1>1, <1>2 DEF Allocates, SameDeadlines
  <2> QED BY <2>1, SameDates
<1>5. IsFiniteSet(DOMAIN alloc) /\ \A i \in DOMAIN alloc : alloc[i] \in Nat /\ lots[i].exp \in Dates
  <2>1. IsFiniteSet(DOMAIN alloc)
    BY <1>1, LotsFinite DEF Allocates
  <2>2. \A i \in DOMAIN lots : lots[i].exp \in Dates
    BY <1>1, LotFields
  <2> QED BY <1>1, <2>1, <2>2 DEF Allocates
<1>6. SumFunction(DatedOf(lots, alloc, Dates)) = SumFunction(alloc)
  BY <1>5, DatesFinite, DatedTotal
<1>7. DatedOf(lots, alloc, Dates) \in [Dates -> Nat]
  BY <1>5, DatedNat
<1> QED BY <1>1, <1>2, <1>3, <1>4, <1>6, <1>7 DEF ls, alloc, Allocates

\* What is handed back of swept lots, swept again.
LEMMA HandBackFunds ==
  ASSUME TypeOK, NEW now \in Nat, NEW back, Allocates(lots, back),
         lots' = HandBack(ExpireDueLots(lots, now), back, now)
  PROVE  Funds(lots', Dates)
           = Account!Alive(Account!Plus(Funds(lots, Dates), DatedOf(lots, back, Dates)), now)
<1> DEFINE ls == ExpireDueLots(lots, now)
           new == ls \o HoldReleaseLots(ls, back)
           f == Funds(lots, Dates)
           b == DatedOf(lots, back, Dates)
<1>1. /\ ls \in Seq(LotWith(Dates)) /\ lots \in Seq(LotWith(Dates))
      /\ DOMAIN ls = DOMAIN lots /\ \A i \in DOMAIN lots : ls[i].exp = lots[i].exp
      /\ Funds(ls, Dates) = Account!Alive(f, now)
  BY SweptFunds, Zenon
<1> HIDE DEF ls
<1>2. Allocates(ls, back)
  BY <1>1 DEF Allocates
<1>3. DatedOf(ls, back, Dates) = b
  <2>1. SameDeadlines(ls, lots, back)
    BY <1>1, <1>2 DEF Allocates, SameDeadlines
  <2> QED BY <2>1, SameDates
<1>4. new \in Seq(LotWith(Dates)) /\ Funds(new, Dates) = Account!Plus(Funds(ls, Dates), b)
  BY <1>1, <1>2, <1>3, AccountGivesBack
<1>5. lots' = ExpireDueLots(new, now)
  BY DEF HandBack, ls
<1> HIDE DEF new
<1>6. Funds(lots', Dates) = Account!Alive(Account!Plus(Account!Alive(f, now), b), now)
  BY <1>1, <1>4, <1>5, AccountSweeps
<1>7. Account!Alive(Account!Plus(Account!Alive(f, now), b), now)
        = Account!Alive(Account!Plus(f, b), now)
  BY DatesFinite DEF Account!Alive, Account!Plus
<1> QED BY <1>6, <1>7

\* capture() for the reserved amount or less is a ChargeWithin.
LEMMA CaptureCharges ==
  ASSUME TypeOK, HoldsBacked, DeadlinesStay, NEW h \in HoldKeys, NEW actual \in Amounts \cup {0},
         CaptureWithin(h, actual)
  PROVE  Account!ChargeWithin(h, actual)
<1> DEFINE alloc == holds[h].alloc
           n == holds[h].credits - actual
           r == Aside(lots, holds[h])
           ls(now) == ExpireDueLots(lots, now)
           back(now) == Refund(ls(now), alloc, n)
<1>1. PICK now \in Readings :
        /\ Open(h) /\ actual <= holds[h].credits
        /\ lots' = HandBack(ls(now), back(now), now)
        /\ ChargeHold(h, actual, LessBack(alloc, back(now)))
        /\ UNCHANGED <<clock, debts>>
  BY Zenon DEF CaptureWithin
<1>2. now \in Nat
  BY ReadingsPast, Zenon
<1>3. /\ Allocates(lots, alloc) /\ Allocates(ls(now), alloc)
      /\ DatedOf(ls(now), alloc, Dates) = r /\ SumFunction(r) = SumFunction(alloc)
  BY <1>1, <1>2, SetAside, Zenon
<1>4. SumFunction(alloc) = holds[h].credits /\ n \in Int
  <2>1. SumFunction(alloc) = holds[h].credits
    BY <1>1 DEF HoldsBacked, Backed, Open, Sum
  <2>2. holds[h].credits \in Nat /\ actual \in Nat
    <3>1. holds[h].credits \in Nat
      BY AllocTypes, Zenon
    <3> QED BY <3>1, Types
  <2> QED BY <2>1, <2>2
<1>5. /\ ls(now) \in Seq(LotWith(Dates)) /\ DOMAIN ls(now) = DOMAIN lots
      /\ \A i \in DOMAIN lots : ls(now)[i].exp = lots[i].exp
  BY <1>2, SweptFunds, Zenon
<1>6. HoldMoved(h, [d \in Dates |-> 0], "charged")
  <2> DEFINE left == LessBack(alloc, back(now))
  <2>1. holds' = [holds EXCEPT ![h].status = "captured", ![h].alloc = left]
    BY <1>1, Zenon DEF ChargeHold
  <2> HIDE DEF left
  <2> QED BY <2>1, ClosedMoves
<1> HIDE DEF alloc, n, r, ls
<1>7. DatedOf(ls(now), back(now), Dates) = Account!Latest(n, r)
  BY <1>3, <1>4, <1>5, AccountRefunds, Zenon
<1>8. DOMAIN back(now) = DOMAIN alloc /\ Allocates(lots, back(now))
  <2>1. back(now) \in [DOMAIN alloc -> Nat]
    BY <1>3, <1>4, <1>5, RefundBounds, Zenon DEF Refund
  <2> HIDE DEF back
  <2> QED BY <1>3, <2>1 DEF Allocates
<1> HIDE DEF back
<1>9. DatedOf(lots, back(now), Dates) = Account!Latest(n, r)
  <2>1. SameDeadlines(ls(now), lots, back(now))
    BY <1>5, <1>8 DEF Allocates, SameDeadlines
  <2>2. DatedOf(ls(now), back(now), Dates) = DatedOf(lots, back(now), Dates)
    BY <2>1, SameDates
  <2> QED BY <1>7, <2>2
<1>10. Funds(lots', Dates)
         = Account!Alive(Account!Plus(Funds(lots, Dates),
                                      Account!Latest(SumFunction(r) - actual, r)), now)
  <2>1. Funds(lots', Dates)
          = Account!Alive(Account!Plus(Funds(lots, Dates), DatedOf(lots, back(now), Dates)), now)
    BY <1>1, <1>2, <1>8, HandBackFunds, Zenon DEF ls
  <2>2. n = SumFunction(r) - actual
    BY <1>3, <1>4 DEF n
  <2> QED BY <1>9, <2>1, <2>2, Zenon
<1>11. actual <= SumFunction(r)
  BY <1>1, <1>3, <1>4
<1> QED BY <1>1, <1>6, <1>10, <1>11, ChargesWithin, Zenon DEF r

\* capture() for more is a ChargeBeyond.
LEMMA CaptureChargesBeyond ==
  ASSUME TypeOK, HoldsBacked, DeadlinesStay, NEW h \in HoldKeys, NEW actual \in Amounts \cup {0},
         CaptureBeyond(h, actual)
  PROVE  Account!ChargeBeyond(h, actual)
<1> DEFINE alloc == holds[h].alloc
           extra == actual - holds[h].credits
           r == Aside(lots, holds[h])
           ls(now) == ExpireDueLots(lots, now)
           more(now) == PlusExtra(alloc, Consumption(ls(now), extra, now))
<1>1. PICK now \in Readings :
        /\ Open(h) /\ extra > 0 /\ extra <= LiveBalance(ls(now), now)
        /\ lots' = ConsumeLots(ls(now), extra, now)
        /\ ChargeHold(h, actual, more(now))
        /\ UNCHANGED <<clock, debts>>
  BY Zenon DEF CaptureBeyond
<1>2. now \in Nat
  BY ReadingsPast, Zenon
<1>3. SumFunction(r) = SumFunction(alloc)
  BY <1>1, <1>2, SetAside, Zenon
<1>4. SumFunction(alloc) = holds[h].credits /\ extra \in Nat
  <2>1. SumFunction(alloc) = holds[h].credits
    BY <1>1 DEF HoldsBacked, Backed, Open, Sum
  <2>2. holds[h].credits \in Nat /\ actual \in Nat
    <3>1. holds[h].credits \in Nat
      BY AllocTypes, Zenon
    <3> QED BY <3>1, Types
  <2> QED BY <1>1, <2>1, <2>2
<1>5. /\ ls(now) \in Seq(LotWith(Dates)) /\ Alive(ls(now), now)
      /\ Funds(ls(now), Dates) = Account!Alive(Funds(lots, Dates), now)
      /\ LiveBalance(ls(now), now) = SumFunction(Funds(ls(now), Dates))
  BY <1>2, SweptFunds, Zenon
<1>6. HoldMoved(h, [d \in Dates |-> 0], "charged")
  <2>1. holds' = [holds EXCEPT ![h].status = "captured", ![h].alloc = more(now)]
    BY <1>1, Zenon DEF ChargeHold
  <2> HIDE DEF more
  <2> QED BY <2>1, ClosedMoves
<1>7. extra = actual - SumFunction(r)
  BY <1>3, <1>4
<1> HIDE DEF alloc, extra, r, ls, more
<1>8. Funds(lots', Dates) = Account!Spent(Account!Alive(Funds(lots, Dates), now), extra)
  BY <1>1, <1>4, <1>5, AccountSpends, Zenon
<1>9. extra > 0 /\ extra <= SumFunction(Account!Alive(Funds(lots, Dates), now))
  BY <1>1, <1>5, Zenon
<1> QED BY <1>1, <1>6, <1>7, <1>8, <1>9, ChargesBeyond, Zenon DEF r

\* _meter_only_capture() is a ChargeNothing: nothing was reserved.
LEMMA MeterOnlyCharges ==
  ASSUME TypeOK, HoldsBacked, DeadlinesStay, NEW h \in HoldKeys, MeterOnlyCapture(h)
  PROVE  Account!ChargeNothing(h)
<1>1. /\ Open(h) /\ holds[h].waived /\ ChargeHold(h, 0, holds[h].alloc)
      /\ UNCHANGED <<lots, clock, debts>>
  BY Zenon DEF MeterOnlyCapture
<1>2. HoldMoved(h, [d \in Dates |-> 0], "charged")
  <2> DEFINE alloc == holds[h].alloc
  <2>1. holds' = [holds EXCEPT ![h].status = "captured", ![h].alloc = alloc]
    BY <1>1, Zenon DEF ChargeHold
  <2> HIDE DEF alloc
  <2> QED BY <2>1, ClosedMoves
<1>3. Aside(lots, holds[h]) = [d \in Dates |-> 0]
  <2> DEFINE r == Aside(lots, holds[h])
  <2>1. r \in [Dates -> Nat] /\ SumFunction(r) = 0
    <3>1. 0 \in Nat /\ Sum(holds[h].alloc) = 0
      BY <1>1 DEF HoldsBacked, Backed, Open
    <3> QED BY <1>1, <3>1, SetAside DEF Sum
  <2> HIDE DEF r
  <2>2. SumFunctionOnSet(r, Dates) = 0
    BY <2>1, SumOfFunction
  <2>3. ASSUME NEW d \in Dates
        PROVE  r[d] = 0
    <3>1. SumFunctionOnSet(r, Dates) = r[d] + SumFunctionOnSet(r, Dates \ {d})
      <4>1. \A x \in Dates : r[x] \in Int
        BY <2>1
      <4> QED BY <4>1, DatesFinite, SumRemove
    <3>2. SumFunctionOnSet(r, Dates \ {d}) \in Nat
      BY <2>1, DatedSums
    <3> QED BY <2>1, <2>2, <3>1, <3>2
  <2> QED BY <2>1, <2>3 DEF r
<1>4. Funds(lots', Dates) = Funds(lots, Dates) /\ Owing(debts') = Owing(debts)
  BY <1>1
<1> QED BY <1>1, <1>2, <1>3, <1>4, ChargesNothing, Zenon

\* release(), whoever calls it, is a GiveBack.
LEMMA ReleaseGivesBack ==
  ASSUME TypeOK, DeadlinesStay, NEW h \in HoldKeys, Open(h),
         NEW status \in {"released", "expired"}, GiveBack(h, status)
  PROVE  Account!GiveBack(h)
<1> DEFINE alloc == holds[h].alloc
<1>1. PICK now \in Readings :
        /\ lots' = HandBack(ExpireDueLots(lots, now), alloc, now)
        /\ holds' = [holds EXCEPT ![h].status = status, ![h].alloc = NoAlloc]
        /\ UNCHANGED <<clock, debts>>
  BY Zenon DEF GiveBack
<1>2. now \in Nat
  BY ReadingsPast, Zenon
<1>3. HoldMoved(h, [d \in Dates |-> 0], "free")
  <2>1. status # "held" /\ status # "captured"
    OBVIOUS
  <2> QED BY <1>1, <2>1, ClosedMoves, Zenon
<1>4. Allocates(lots, alloc) /\ Aside(lots, holds[h]) = DatedOf(lots, alloc, Dates)
  BY AllocTypes, Zenon DEF Aside, Open
<1> HIDE DEF alloc
<1>5. Funds(lots', Dates)
        = Account!Alive(Account!Plus(Funds(lots, Dates), Aside(lots, holds[h])), now)
  BY <1>1, <1>2, <1>4, HandBackFunds, Zenon
<1> QED BY <1>1, <1>3, <1>5, GivesBack, Zenon

\* What a clawback reclaims has one deadline, and is no more than is asked for.
LEMMA ReclaimTakes ==
  ASSUME TypeOK, GrantDeadlineKept, NEW now \in Nat, NEW g, NEW n \in Nat
  PROVE  LET ls == ExpireDueLots(lots, now)
             take == Reclaim(ls, g, n)
             m == SumFunction(take)
         IN  /\ m \in 0..n
             /\ \E x \in Dates :
                  /\ m <= Funds(ls, Dates)[x]
                  /\ Funds(TakeFrom(ls, take), Dates)
                       = Account!Less(Funds(ls, Dates), Account!Dated(m, x))
<1> DEFINE ls == ExpireDueLots(lots, now)
           D == GrantedLots(ls, g)
           f == Restrict(Remaining(ls), D)
           take == Reclaim(ls, g, n)
<1>1. /\ ls \in Seq(LotWith(Dates)) /\ DOMAIN ls = DOMAIN lots
      /\ \A i \in DOMAIN lots : ls[i].exp = lots[i].exp /\ ls[i].grant = lots[i].grant
  BY SweptFunds, Zenon
<1> HIDE DEF ls
<1>2. D \subseteq DOMAIN ls /\ IsFiniteSet(D) /\ DOMAIN ls \subseteq Int
  <2>1. D \subseteq DOMAIN ls
    BY Zenon DEF GrantedLots
  <2> HIDE DEF D
  <2> QED BY <1>1, <2>1, LotsFinite
<1>3. \E x \in Dates : \A i \in D : ls[i].exp = x
  <2>1. CASE D = {}
    <3>1. 0 \in Dates
      BY DatesFinite
    <3> QED BY <2>1, <3>1
  <2>2. CASE D # {}
    <3>1. PICK j \in D : TRUE
      BY <2>2
    <3>2. ls[j].exp \in Dates
      BY <1>1, <1>2, LotFields
    <3>3. \A i \in D : ls[i].exp = ls[j].exp
      BY <1>1 DEF GrantedLots, GrantDeadlineKept
    <3> QED BY <3>2, <3>3
  <2> QED BY <2>1, <2>2
<1> HIDE DEF D
<1>4. DOMAIN f = D /\ f \in [D -> Nat] /\ \A i \in D : f[i] = ls[i].rem /\ f[i] \in Nat
  <2>1. f = [i \in D |-> f[i]] /\ \A i \in D : f[i] = ls[i].rem
    BY <1>2 DEF Restrict, Remaining
  <2>2. \A i \in D : ls[i].rem \in Nat
    BY <1>1, <1>2, LotFields
  <2> HIDE DEF f
  <2> QED BY <2>1, <2>2
<1>5. take = Walk(n, f, CreationOrder(DOMAIN ls))
  BY Zenon DEF Reclaim, D
<1> HIDE DEF f, take
<1>6. take \in [D -> Nat] /\ \A i \in D : take[i] <= f[i]
  BY <1>2, <1>4, <1>5, WalkBounds
<1>7. SumFunction(take) \in 0..n
  <2>1. StrictTotalOrder(CreationOrder(DOMAIN ls), D)
    BY <1>2 DEF StrictTotalOrder, CreationOrder
  <2>2. SumFunctionOnSet(take, D) = Clip(n, SumFunctionOnSet(f, D))
    BY <1>2, <1>4, <1>5, <2>1, WalkTotal
  <2>3. SumFunctionOnSet(f, D) \in Nat
    BY <1>2, <1>4, SumNat
  <2>4. Clip(n, SumFunctionOnSet(f, D)) \in 0..n
    BY <2>3 DEF Clip
  <2>5. SumFunction(take) = SumFunctionOnSet(take, D)
    BY <1>6, SumOfFunction
  <2> QED BY <2>2, <2>4, <2>5
<1>8. PICK x \in Dates : \A i \in D : ls[i].exp = x
  BY <1>3
<1>9. /\ Allocates(ls, take) /\ \A i \in DOMAIN take : take[i] <= ls[i].rem
      /\ \A i \in DOMAIN take : ls[i].exp = x
  BY <1>2, <1>4, <1>6, <1>8 DEF Allocates
<1>10. /\ Funds(TakeFrom(ls, take), Dates)
             = Account!Less(Funds(ls, Dates), Account!Dated(SumFunction(take), x))
       /\ SumFunction(take) <= Funds(ls, Dates)[x]
  BY <1>1, <1>9, AccountTakes
<1> QED BY <1>7, <1>10 DEF take, ls

\* claw_back_grant() is a TakeBack of what it asks for.
LEMMA ClawBackTakes ==
  ASSUME TypeOK, GrantDeadlineKept, DeadlinesStay, NEW g \in DOMAIN ledger, NEW reason \in Reasons,
         NEW target \in 1..ledger[g].delta, ClawBackGrant(g, target, reason)
  PROVE  \E c \in 0..ledger[g].delta : Account!TakeBack(c)
<1> DEFINE ls == ExpireDueLots(lots, clock)
           wanted == target - AlreadyClawedBack(g)
           taken(n) == Reclaim(ls, g, n)
           short(n, m) == (n - m) - Clip(n - m, ExpiredOf(ls, g))
<1>1. PICK n, m : n = wanted /\ m = SumFunction(taken(n))
  OBVIOUS
<1>2. /\ n > 0
      /\ lots' = TakeFrom(ls, taken(n))
      /\ debts' = IF short(n, m) > 0 THEN OpenDebt(debts, short(n, m), NextRow)
                                     ELSE debts
      /\ UNCHANGED <<clock, holds>>
  BY <1>1, Zenon DEF ClawBackGrant
<1>3. n \in Nat /\ n \in Int /\ n \in 0..ledger[g].delta
  <2>1. target \in Int /\ AlreadyClawedBack(g) \in Nat /\ ledger[g].delta \in Int
    BY AlreadyNat, RowFields
  <2> QED BY <1>1, <1>2, <2>1
<1> HIDE DEF wanted
<1>4. clock \in Nat /\ clock \in Readings /\ HoldsUnmoved
  <2>1. clock \in Nat
    BY Indexes
  <2>2. MaxLag \in Nat
    BY BoundsAssumption
  <2>3. HoldsUnmoved
    BY <1>2, NoHoldMoves, Zenon
  <2> QED BY <2>1, <2>2, <2>3 DEF Readings
<1>5. /\ Funds(ls, Dates) = Account!Alive(Funds(lots, Dates), clock)
      /\ debts \in Seq(DebtRecords)
  BY <1>4, SweptFunds, Zenon
<1>6. ExpiredOf(ls, g) \in Nat
  BY <1>3, ReclaimStep, Zenon
<1>7. /\ m \in 0..n
      /\ \E x \in Dates :
           /\ m <= Funds(ls, Dates)[x]
           /\ Funds(TakeFrom(ls, taken(n)), Dates)
                = Account!Less(Funds(ls, Dates), Account!Dated(m, x))
  <2> DEFINE take == taken(n)
             left == Funds(TakeFrom(ls, take), Dates)
  <2>1. /\ SumFunction(take) \in 0..n
        /\ \E x \in Dates :
             /\ SumFunction(take) <= Funds(ls, Dates)[x]
             /\ left = Account!Less(Funds(ls, Dates), Account!Dated(SumFunction(take), x))
    BY <1>3, <1>4, ReclaimTakes
  <2>2. m = SumFunction(take)
    BY <1>1
  <2> HIDE DEF ls, take, left
  <2>3. /\ m \in 0..n
        /\ \E x \in Dates :
             /\ m <= Funds(ls, Dates)[x]
             /\ left = Account!Less(Funds(ls, Dates), Account!Dated(m, x))
    BY <2>1, <2>2
  <2> QED BY <2>3 DEF left, take
<1>8. PICK x \in Dates :
        /\ m <= Funds(ls, Dates)[x]
        /\ Funds(lots', Dates) = Account!Less(Funds(ls, Dates), Account!Dated(m, x))
  BY <1>2, <1>7, Zenon
<1> HIDE DEF ls, taken
<1>9. PICK debt \in 0..(n - m) : Owing(debts') = Owing(debts) + debt
  <2>1. short(n, m) \in 0..(n - m)
    BY <1>3, <1>6, <1>7 DEF Clip
  <2>2. NextRow \in Nat /\ Owing(debts) \in Nat
    BY <1>5, OwingNat, Indexes
  <2> HIDE DEF short
  <2>3. CASE short(n, m) > 0
    <3> DEFINE d == [out |-> short(n, m), init |-> short(n, m), billed |-> 0, row |-> NextRow]
    <3>1. d \in DebtRecords /\ d.out = short(n, m)
      BY <1>3, <1>7, <2>1, <2>2 DEF DebtRecords
    <3>2. debts' = Append(debts, d)
      BY <1>2, <2>3, Zenon DEF OpenDebt
    <3> HIDE DEF d
    <3> QED BY <1>5, <2>1, <3>1, <3>2, OwingRises, Zenon
  <2>4. CASE ~(short(n, m) > 0)
    <3>1. Owing(debts') = Owing(debts) + 0
      BY <1>2, <2>2, <2>4
    <3>2. 0 \in 0..(n - m)
      BY <1>3, <1>7
    <3> QED BY <3>1, <3>2
  <2> QED BY <2>3, <2>4
<1>10. Account!TakeBack(n)
  BY <1>2, <1>3, <1>4, <1>5, <1>7, <1>8, <1>9, TakesBack, Zenon
<1> QED BY <1>3, <1>10

\* What a won dispute closes is owed no more.
LEMMA CancelWaives ==
  ASSUME TypeOK, NEW r
  PROVE  \E waived \in 0..Owing(debts) : Owing(CancelDebts(r)) = Owing(debts) - waived
<1> DEFINE new == CancelDebts(r)
           less == [d \in DOMAIN debts |-> IF d \in DebtsOf(r) THEN debts[d].out ELSE 0]
           waived == SumFunctionOnSet(less, DOMAIN debts)
<1>1. debts \in Seq(DebtRecords) /\ new \in Seq(DebtRecords)
  BY DebtsTyped, CancelledDebts, Zenon
<1>2. DOMAIN new = DOMAIN debts
  BY DEF CancelDebts
<1>3. less \in [DOMAIN debts -> Nat]
  <2>1. \A d \in DOMAIN debts : debts[d].out \in Nat
    BY <1>1, DebtFields
  <2> QED BY <2>1
<1>4. \A d \in DOMAIN debts : new[d].out = debts[d].out - less[d]
  <2> SUFFICES ASSUME NEW d \in DOMAIN debts PROVE new[d].out = debts[d].out - less[d]
    OBVIOUS
  <2>1. debts[d].out \in Nat /\ debts[d] \in DebtRecords
    BY <1>1, DebtFields
  <2>2. CASE d \in DebtsOf(r)
    <3>1. new[d] = [debts[d] EXCEPT !.out = 0] /\ less[d] = debts[d].out
      BY <2>2 DEF CancelDebts
    <3>2. new[d].out = 0
      BY <2>1, <3>1 DEF DebtRecords
    <3> HIDE DEF new, less
    <3> QED BY <2>1, <3>1, <3>2
  <2>3. CASE d \notin DebtsOf(r)
    <3>1. new[d] = debts[d] /\ less[d] = 0
      BY <2>3 DEF CancelDebts
    <3> HIDE DEF new, less
    <3> QED BY <2>1, <3>1
  <2> QED BY <2>2, <2>3
<1> HIDE DEF new, less
<1>5. Owing(new) = Owing(debts) - waived /\ waived \in Nat
  BY <1>1, <1>2, <1>3, <1>4, OwingLowers
<1>6. Owing(debts) \in Nat /\ Owing(new) \in Nat
  BY <1>1, OwingNat
<1> HIDE DEF waived
<1>7. waived \in 0..Owing(debts)
  BY <1>5, <1>6
<1> QED BY <1>5, <1>7 DEF new

\* _reverse_clawback() is a PayBack of what it gives.
LEMMA ReversalPays ==
  ASSUME IInv, DeadlinesStay, NEW r \in DOMAIN ledger, ReverseClawback(r)
  PROVE  LET given == Collected(r) - ledger[r].delta
         IN  Account!PayBack(IF given > 0 THEN given ELSE 0)
<1> DEFINE given == Collected(r) - ledger[r].delta
           g == ledger[r].of
           template == CHOOSE i \in GrantedLots(lots, g) :
                         \A j \in GrantedLots(lots, g) : i <= j
           exp == lots[template].exp
           l == [rem |-> given, exp |-> exp, grant |-> g, expired |-> 0]
           restored(now) == ExpireDueLots(Append(lots, l), now)
<1>1. TypeOK
  BY DEF IInv
<1>2. PICK now \in Readings :
        /\ ledger[r].type = "dispute"
        /\ IF given > 0
             THEN /\ lots' = LotsAfterSettling(restored(now), CancelDebts(r), now)
                  /\ debts' = SettleDebts(restored(now), CancelDebts(r), now)
             ELSE /\ debts' = CancelDebts(r)
                  /\ UNCHANGED lots
        /\ UNCHANGED <<clock, holds>>
  BY Zenon DEF ReverseClawback
<1>3. now \in Nat /\ HoldsUnmoved
  BY <1>1, <1>2, ReadingsPast, NoHoldMoves, Zenon
<1>4. PICK waived \in 0..Owing(debts) : Owing(CancelDebts(r)) = Owing(debts) - waived
  BY <1>1, CancelWaives
<1>5. /\ lots \in Seq(LotWith(Dates)) /\ debts \in Seq(DebtRecords)
      /\ CancelDebts(r) \in Seq(DebtRecords)
  BY <1>1, <1>3, SweptFunds, CancelledDebts, Zenon
<1>6. template \in DOMAIN lots
  BY <1>2, TemplateLot, Zenon
<1>7. given \in Int /\ g \in Nat
  <2>1. Collected(r) \in Int /\ ledger[r].delta \in Int /\ g \in Nat
    BY <1>1, CollectedInt, RowFields, Zenon
  <2> HIDE DEF g
  <2> QED BY <2>1
<1> HIDE DEF template, g, given
<1>8. exp \in Dates
  BY <1>5, <1>6, LotFields
<1> HIDE DEF exp
<1>9. CASE given > 0
  <2>1. given \in Nat /\ 0 \in Nat
    BY <1>7, <1>9
  <2>2. l \in LotWith(Dates) /\ l.rem = given /\ l.exp = exp
    BY <1>7, <1>8, <2>1, Zenon DEF LotWith
  <2> HIDE DEF l
  <2>3. /\ Append(lots, l) \in Seq(LotWith(Dates))
        /\ Funds(Append(lots, l), Dates)
             = Account!Plus(Funds(lots, Dates), Account!Dated(given, exp))
    <3>1. Append(lots, l) \in Seq(LotWith(Dates))
      BY <1>5, <2>2, AppendProperties
    <3>2. Funds(Append(lots, l), Dates)
            = Account!Plus(Funds(lots, Dates), Account!Dated(l.rem, l.exp))
      BY <1>5, <2>2, AccountGrants
    <3> QED BY <2>2, <3>1, <3>2, Zenon
  <2>4. /\ restored(now) \in Seq(LotWith(Dates)) /\ Alive(restored(now), now)
        /\ Funds(restored(now), Dates)
             = Account!Alive(Account!Plus(Funds(lots, Dates), Account!Dated(given, exp)), now)
    <3>1. restored(now) \in Seq(LotWith(Dates)) /\ Alive(restored(now), now)
      BY <1>3, <2>3, DatesFinite, ExpireShrinks, SweptAlive, Zenon
    <3>2. Funds(restored(now), Dates) = Account!Alive(Funds(Append(lots, l), Dates), now)
      BY <1>3, <2>3, AccountSweeps, Zenon
    <3> HIDE DEF restored
    <3> QED BY <2>3, <3>1, <3>2, Zenon
  <2> HIDE DEF restored
  <2> DEFINE f == Account!Alive(Account!Plus(Funds(lots, Dates), Account!Dated(given, exp)), now)
  <2>5. Pays(f, Owing(debts) - waived, Funds(lots', Dates), Owing(debts'))
    BY <1>2, <1>4, <1>5, <1>9, <2>4, SettlingPays, Zenon
  <2>6. Account!PayBack(given)
    BY <1>2, <1>3, <1>5, <1>8, <2>5, PaysBack, Zenon
  <2> QED BY <1>9, <2>6 DEF given
<1>10. CASE ~(given > 0)
  <2>1. Funds(lots', Dates) = Funds(lots, Dates) /\ Owing(debts') = Owing(debts) - waived
    BY <1>2, <1>4, <1>10, Zenon
  <2>2. Account!PayBack(0)
    BY <1>2, <1>3, <1>5, <1>8, <2>1, PaysBack, Zenon
  <2> QED BY <1>10, <2>2 DEF given
<1> QED BY <1>9, <1>10

-------------------------------------------------------------------------------
\* What was reclaimed by a clawback and the debt it opened are no more than it
\* asked for, and that no more than was granted.
Fits(row) ==
  /\ row.type = "grant" => row.delta \in Amounts
  /\ row.type \in Clawbacks => -row.delta <= row.requested

FitsDebt(row, debt) == debt.init - row.delta <= row.requested

RowsFit ==
  \A r \in 1..Len(ledger) :
    /\ Fits(ledger[r])
    /\ ledger[r].type \in Clawbacks => ledger[r].requested <= ledger[ledger[r].of].delta
    /\ ledger[r].type \in Clawbacks /\ ~ledger[r].reversed =>
         \A d \in 1..Len(debts) : debts[d].row = r => FitsDebt(ledger[r], debts[d])

NewRowFits ==
  Len(ledger') = NextRow =>
    /\ Fits(ledger'[NextRow])
    /\ ledger'[NextRow].type \in Clawbacks =>
         \A d \in 1..Len(debts') :
           debts'[d].row = NextRow => FitsDebt(ledger'[NextRow], debts'[d])

\* A row that is neither a grant nor a clawback fits.
LEMMA PostedFits ==
  ASSUME NEW rows \in Seq(Row), Len(rows) = Len(ledger), NEW row,
         ledger' = Append(rows, row), row.type \notin Clawbacks,
         row.type = "grant" => row.delta \in Amounts
  PROVE  NewRowFits
<1>1. ledger'[NextRow] = row
  BY DEF NextRow
<1> QED BY <1>1 DEF NewRowFits, Fits

\* A step that posts no row has none to fit.
LEMMA NoRowFits ==
  ASSUME TypeOK, Len(ledger') = Len(ledger)
  PROVE  NewRowFits
<1>1. Len(ledger') # NextRow
  BY Indexes
<1> QED BY <1>1 DEF NewRowFits

\* The row of a grant or a spend fits.
LEMMA SpendFits ==
  ASSUME TypeOK, NEW key, NEW c \in Amounts, NEW exp, NEW way,
         Credit(key, c, exp, way) \/ Debit(key, c, way)
  PROVE  NewRowFits
<1>1. ledger \in Seq(Row)
  BY DEF TypeOK
<1>2. CASE Credit(key, c, exp, way)
  <2> DEFINE row == [Entry("grant", c) EXCEPT !.key = key]
  <2>1. ledger' = Append(ledger, row)
    BY <1>2, Zenon DEF Credit, Post
  <2>2. row.type = "grant" /\ row.delta = c
    BY DEF Entry
  <2> HIDE DEF row
  <2> QED BY <1>1, <2>1, <2>2, PostedFits DEF Clawbacks
<1>3. CASE Debit(key, c, way)
  <2>1. PICK n : ledger' = Append(ledger, [Entry("charge", -n) EXCEPT !.key = key, !.requested = c])
    BY <1>3, Zenon DEF Debit, Post
  <2> DEFINE row == [Entry("charge", -n) EXCEPT !.key = key, !.requested = c]
  <2>2. row.type = "charge"
    BY DEF Entry
  <2>3. ledger' = Append(ledger, row)
    BY <2>1
  <2> HIDE DEF row
  <2> QED BY <1>1, <2>2, <2>3, PostedFits DEF Clawbacks
<1> QED BY <1>2, <1>3

\* The row of a charge fits.
LEMMA ChargeFits ==
  ASSUME TypeOK, NEW h, NEW actual, NEW alloc, ChargeHold(h, actual, alloc)
  PROVE  NewRowFits
<1> DEFINE row == [Entry("capture", -actual) EXCEPT !.hold = h]
<1>1. ledger' = Append(ledger, row) /\ ledger \in Seq(Row)
  BY Zenon DEF ChargeHold, Post, TypeOK
<1>2. row.type = "capture"
  BY DEF Entry
<1> HIDE DEF row
<1> QED BY <1>1, <1>2, PostedFits DEF Clawbacks

\* claw_back_grant(): reclaimed and owed are parts of what is asked for.
LEMMA ClawBackFits ==
  ASSUME TypeOK, GrantDeadlineKept, NEW g \in DOMAIN ledger, NEW reason \in Reasons,
         NEW target \in 1..ledger[g].delta, ClawBackGrant(g, target, reason)
  PROVE  NewRowFits
<1> DEFINE ls == ExpireDueLots(lots, clock)
           wanted == target - AlreadyClawedBack(g)
           taken(n) == Reclaim(ls, g, n)
           short(n, m) == (n - m) - Clip(n - m, ExpiredOf(ls, g))
           row(n, m) == [Entry(reason, -m) EXCEPT !.of = g, !.requested = n]
<1>1. PICK n, m : n = wanted /\ m = SumFunction(taken(n))
  OBVIOUS
<1>2. /\ n > 0
      /\ ledger' = Append(ledger, row(n, m))
      /\ debts' = IF short(n, m) > 0 THEN OpenDebt(debts, short(n, m), NextRow)
                                     ELSE debts
  BY <1>1, Zenon DEF ClawBackGrant, Post
<1>3. n \in Nat /\ n \in Int /\ clock \in Nat
  <2>1. target \in Int /\ AlreadyClawedBack(g) \in Nat /\ clock \in Nat
    BY AlreadyNat, Indexes
  <2> QED BY <1>1, <1>2, <2>1
<1> HIDE DEF wanted
<1>4. m \in 0..n /\ ExpiredOf(ls, g) \in Nat
  <2>1. SumFunction(taken(n)) \in 0..n
    BY <1>3, ReclaimTakes
  <2>2. ExpiredOf(ls, g) \in Nat
    BY <1>3, ReclaimStep, Zenon
  <2> HIDE DEF taken
  <2> QED BY <1>1, <2>1, <2>2
<1> HIDE DEF ls, taken
<1>5. short(n, m) \in 0..(n - m)
  BY <1>3, <1>4 DEF Clip
<1>6. row(n, m).type = reason /\ row(n, m).delta = -m /\ row(n, m).requested = n
  BY DEF Entry
<1> HIDE DEF row, short
<1>7. ledger'[NextRow] = row(n, m)
  <2>1. ledger \in Seq(Row)
    BY DEF TypeOK
  <2> QED BY <1>2, <2>1 DEF NextRow
<1>8. Fits(row(n, m))
  <2>1. reason # "grant" /\ -(-m) <= n
    BY <1>3, <1>4, Types
  <2> QED BY <1>6, <2>1 DEF Fits
<1>9. ASSUME NEW d \in 1..Len(debts'), debts'[d].row = NextRow
      PROVE  FitsDebt(row(n, m), debts'[d])
  <2>1. /\ Len(debts) \in Nat /\ Len(ledger) \in Nat /\ NextRow = Len(ledger) + 1
        /\ debts \in Seq(DebtRecords)
        /\ \A e \in 1..Len(debts) : debts[e].row \in 1..Len(ledger)
    BY Indexes, DebtsTyped
  <2>2. \A e \in 1..Len(debts) : debts[e].row # NextRow
    BY <2>1
  <2> DEFINE new == [out |-> short(n, m), init |-> short(n, m), billed |-> 0, row |-> NextRow]
  <2>3. CASE debts' = debts
    BY <1>9, <2>2, <2>3
  <2>4. CASE debts' = Append(debts, new)
    <3>1. new.init = short(n, m)
      OBVIOUS
    <3> HIDE DEF new
    <3>2. d = Len(debts) + 1
      BY <1>9, <2>1, <2>2, <2>4
    <3>3. debts'[d] = new
      BY <2>1, <2>4, <3>2
    <3>4. short(n, m) - (-m) <= n
      BY <1>3, <1>4, <1>5
    <3> QED BY <1>6, <3>1, <3>3, <3>4 DEF FitsDebt
  <2> QED BY <1>2, <2>3, <2>4, Zenon DEF OpenDebt
<1> QED BY <1>7, <1>8, <1>9 DEF NewRowFits

\* The row of a won dispute fits.
LEMMA ReversalFits ==
  ASSUME TypeOK, NEW r \in DOMAIN ledger, ReverseClawback(r)
  PROVE  NewRowFits
<1>1. Reversed(r) \in Seq(Row) /\ Len(Reversed(r)) = Len(ledger)
  BY ReversedRows, Zenon
<1>2. PICK n : \/ ledger' = Append(Reversed(r), [Entry("restored", n) EXCEPT !.of = r])
               \/ ledger' = Reversed(r)
  BY Zenon DEF ReverseClawback
<1> DEFINE row == [Entry("restored", n) EXCEPT !.of = r]
<1>3. row.type = "restored"
  BY DEF Entry
<1>4. CASE ledger' = Append(Reversed(r), row)
  <2> HIDE DEF row
  <2> QED BY <1>1, <1>3, <1>4, PostedFits DEF Clawbacks
<1>5. CASE ledger' = Reversed(r)
  BY <1>1, <1>5, NoRowFits
<1> QED BY <1>2, <1>4, <1>5

\* Every step posts rows that fit.
LEMMA NextFits ==
  ASSUME TypeOK, GrantDeadlineKept, [Next]_vars
  PROVE  NewRowFits
<1>1. ASSUME UNCHANGED ledger PROVE NewRowFits
  BY <1>1, NoRowFits
<1>2. CASE Tick
  BY <1>1, <1>2, Zenon DEF Tick
<1>3. CASE Spend
  <2>1. PICK key \in Keys \cup {NoKey} :
          \/ \E c \in Amounts, exp \in Deadlines, settle \in BOOLEAN :
               Credit(key, c, exp, settle)
          \/ \E c \in Amounts, partial \in BOOLEAN : Debit(key, c, partial)
          \/ MeterOnlyDebit(key)
    BY <1>3, Zenon DEF Spend
  <2>2. CASE MeterOnlyDebit(key)
    <3> DEFINE row == [Entry("charge", 0) EXCEPT !.key = key]
    <3>1. ledger' = Append(ledger, row) /\ ledger \in Seq(Row)
      BY <2>2, Zenon DEF MeterOnlyDebit, Post, TypeOK
    <3>2. row.type = "charge"
      BY DEF Entry
    <3> HIDE DEF row
    <3> QED BY <3>1, <3>2, PostedFits DEF Clawbacks
  <2> QED BY <2>1, <2>2, SpendFits, Zenon
<1>4. CASE Reserve
  <2>1. PICK h \in HoldKeys :
          \/ \E c \in Amounts, exp \in Deadlines, waived \in Waivers :
               Hold(h, c, exp, waived)
          \/ \E actual \in Amounts \cup {0} :
               CaptureWithin(h, actual) \/ CaptureBeyond(h, actual)
          \/ MeterOnlyCapture(h)
          \/ Release(h)
    BY <1>4, Zenon DEF Reserve
  <2>2. ASSUME NEW c \in Amounts, NEW exp \in Deadlines, NEW waived \in Waivers,
               Hold(h, c, exp, waived)
        PROVE  NewRowFits
    BY <1>1, <2>2, Zenon DEF Hold
  <2>3. CASE Release(h)
    BY <1>1, <2>3, Zenon DEF Release, GiveBack
  <2>4. ASSUME NEW actual \in Amounts \cup {0},
               CaptureWithin(h, actual) \/ CaptureBeyond(h, actual)
        PROVE  NewRowFits
    BY <2>4, ChargeFits, Zenon DEF CaptureWithin, CaptureBeyond
  <2>5. CASE MeterOnlyCapture(h)
    BY <2>5, ChargeFits, Zenon DEF MeterOnlyCapture
  <2> QED BY <2>1, <2>2, <2>3, <2>4, <2>5, Zenon
<1>5. CASE Workers
  BY <1>1, <1>5, Zenon DEF Workers, ListStaleHolds, ExpireHold, GiveBack, ExpireCreditLots
<1>6. CASE MoneyBack
  BY <1>6, ClawBackFits, ReversalFits, Zenon DEF MoneyBack
<1>7. CASE UNCHANGED vars
  BY <1>1, <1>7, Zenon DEF vars
<1> QED BY <1>2, <1>3, <1>4, <1>5, <1>6, <1>7, Zenon DEF Next

\* Clawbacks keep fitting: rows stay what they are, debts what they were opened for.
LEMMA RowsStayFit ==
  ASSUME IInv, RowsFit, Step, MoneyStep, NewRowFits
  PROVE  RowsFit'
<1>1. TypeOK /\ GrantsHaveLots
  BY DEF IInv
<1>2. /\ Len(ledger) \in Nat /\ NextRow = Len(ledger) + 1 /\ Len(debts) \in Nat
      /\ \A d \in 1..Len(debts) : debts[d].row \in 1..Len(ledger)
  BY <1>1, Indexes, DebtsTyped
<1>3. RowsStay
  BY DEF MoneyStep, Quiet, Undoes
<1> SUFFICES ASSUME NEW r \in 1..Len(ledger')
             PROVE  /\ Fits(ledger'[r])
                    /\ ledger'[r].type \in Clawbacks =>
                         ledger'[r].requested <= ledger'[ledger'[r].of].delta
                    /\ ledger'[r].type \in Clawbacks /\ ~ledger'[r].reversed =>
                         \A d \in 1..Len(debts') :
                           debts'[d].row = r => FitsDebt(ledger'[r], debts'[d])
  BY DEF RowsFit
<1>4. CASE r \in 1..Len(ledger)
  <2>1. /\ ledger'[r].type = ledger[r].type /\ ledger'[r].of = ledger[r].of
        /\ ledger'[r].delta = ledger[r].delta /\ ledger'[r].requested = ledger[r].requested
    BY <1>3, <1>4 DEF RowsStay
  <2>2. Fits(ledger'[r])
    BY <1>4, <2>1 DEF Fits, RowsFit
  <2>3. ASSUME ledger'[r].type \in Clawbacks
        PROVE  ledger'[r].requested <= ledger'[ledger'[r].of].delta
    <3>1. ledger[r].of \in 1..Len(ledger)
      BY <1>1, <1>4, <2>1, <2>3 DEF GrantsHaveLots, Clawbacks
    <3>2. ledger'[ledger[r].of].delta = ledger[ledger[r].of].delta
      BY <1>3, <3>1 DEF RowsStay
    <3> QED BY <1>4, <2>1, <2>3, <3>2 DEF RowsFit
  <2>4. ASSUME ledger'[r].type \in Clawbacks, ~ledger'[r].reversed,
               NEW d \in 1..Len(debts'), debts'[d].row = r
        PROVE  FitsDebt(ledger'[r], debts'[d])
    <3>1. /\ d \in 1..Len(debts) /\ debts[d].row = r /\ debts'[d].init = debts[d].init
          /\ ~ledger[r].reversed
      <4>1. CASE Quiet /\ DebtsCollect
        BY <1>4, <2>4, <4>1 DEF Quiet, DebtsCollect, Collects
      <4>2. CASE Quiet /\ DebtOpens
        <5>1. d # Len(debts) + 1
          BY <1>2, <1>4, <2>4, <4>2 DEF DebtOpens
        <5>2. d \in 1..Len(debts)
          BY <1>2, <2>4, <4>2, <5>1 DEF DebtOpens
        <5> QED BY <1>4, <2>4, <4>2, <5>2 DEF Quiet, DebtOpens
      <4>3. CASE \E s \in 1..Len(ledger) : Undoes(s)
        <5>1. PICK s \in 1..Len(ledger) : Undoes(s)
          BY <4>3
        <5>2. r # s /\ ~ledger[r].reversed /\ d \in 1..Len(debts)
          BY <1>4, <2>4, <5>1 DEF Undoes
        <5>3. debts[d].row # s
          BY <2>4, <5>1, <5>2 DEF Undoes
        <5> QED BY <2>4, <5>1, <5>2, <5>3 DEF Undoes, Collects
      <4> QED BY <4>1, <4>2, <4>3 DEF MoneyStep, Quiet
    <3>2. FitsDebt(ledger[r], debts[d])
      BY <1>4, <2>1, <2>4, <3>1 DEF RowsFit
    <3> QED BY <2>1, <3>1, <3>2 DEF FitsDebt
  <2> QED BY <2>2, <2>3, <2>4
<1>5. CASE r \notin 1..Len(ledger)
  <2>1. r = NextRow /\ Len(ledger') = NextRow
    BY <1>5, LedgerKept
  <2>2. Fits(ledger'[r])
    BY <2>1 DEF NewRowFits
  <2>3. ASSUME ledger'[r].type \in Clawbacks
        PROVE  ledger'[r].requested <= ledger'[ledger'[r].of].delta
    <3> DEFINE row == ledger'[NextRow]
    <3>1. row.of \in 1..Len(ledger)
      BY <2>1, <2>3 DEF Step, LedgerStep, Fresh, Clawbacks
    <3>2. Quiet
      <4>1. ASSUME NEW s \in 1..Len(ledger), Undoes(s) PROVE FALSE
        BY <1>2, <2>1, <2>3, <4>1 DEF Undoes, Clawbacks
      <4> QED BY <4>1 DEF MoneyStep
    <3>3. row.requested + AlreadyClawedBack(row.of) <= ledger[row.of].delta
      BY <2>1, <2>3, <3>2 DEF Quiet, Allowed
    <3>4. row.requested \in Nat
      <4>1. ledger' \in Seq(Row)
        BY DEF Step, LedgerStep
      <4>2. row \in Row
        BY <1>2, <2>1, <4>1
      <4> QED BY <4>2 DEF Row
    <3>5. AlreadyClawedBack(row.of) \in Nat /\ ledger[row.of].delta \in Int
      <4>1. row.of \in DOMAIN ledger
        BY <1>1, <3>1, Indexes
      <4> HIDE DEF row
      <4> QED BY <1>1, <4>1, AlreadyNat, RowFields
    <3>6. ledger'[row.of].delta = ledger[row.of].delta
      BY <1>3, <3>1 DEF RowsStay
    <3> HIDE DEF row
    <3>7. row.requested <= ledger'[row.of].delta
      BY <3>3, <3>4, <3>5, <3>6
    <3> QED BY <2>1, <3>7 DEF row
  <2>4. ledger'[r].type \in Clawbacks =>
          \A d \in 1..Len(debts') : debts'[d].row = r => FitsDebt(ledger'[r], debts'[d])
    BY <2>1 DEF NewRowFits
  <2> QED BY <2>2, <2>3, <2>4
<1> QED BY <1>4, <1>5

\* What undoing a clawback gives back is no more than a grant once brought.
LEMMA GivenFits ==
  ASSUME IInv, OneDebtARow, RowsFit, NEW r \in DOMAIN ledger,
         ledger[r].type = "dispute", ~ledger[r].reversed
  PROVE  LET given == Collected(r) - ledger[r].delta
         IN  \E c \in Amounts : (IF given > 0 THEN given ELSE 0) \in 0..c
<1> DEFINE c == ledger[ledger[r].of].delta
           collected == [e \in DOMAIN debts |-> debts[e].init - debts[e].out]
<1>1. TypeOK /\ GrantsHaveLots
  BY DEF IInv
<1>2. r \in 1..Len(ledger) /\ ledger[r].delta \in Int /\ ledger[r].requested \in Nat
  BY <1>1, RowFields
<1>3. c \in Amounts /\ c \in Nat
  <2>1. ledger[r].of \in 1..Len(ledger) /\ ledger[ledger[r].of].type = "grant"
    BY <1>1, <1>2 DEF GrantsHaveLots
  <2>2. c \in Amounts
    BY <2>1 DEF RowsFit, Fits
  <2> QED BY <2>2, Types
<1>4. -ledger[r].delta <= ledger[r].requested /\ ledger[r].requested <= c
  BY <1>2 DEF RowsFit, Fits, Clawbacks
<1>5. Collected(r) \in Int /\ Collected(r) - ledger[r].delta <= ledger[r].requested
  <2>1. CASE DebtsOf(r) = {}
    <3>1. Collected(r) = 0
      BY <2>1, SumEmpty, Zenon DEF Collected
    <3> QED BY <1>2, <1>4, <3>1
  <2>2. CASE DebtsOf(r) # {}
    <3>1. PICK d \in DebtsOf(r) : TRUE
      BY <2>2
    <3>2. d \in 1..Len(debts) /\ debts[d].row = r /\ d \in DOMAIN debts
      BY <1>1, <3>1, Indexes DEF DebtsOf
    <3>3. /\ debts[d].init \in Nat /\ debts[d].out \in Nat
          /\ debts[d].init - ledger[r].delta <= ledger[r].requested
      BY <1>1, <1>2, <3>2, DebtNumbers DEF RowsFit, FitsDebt, Clawbacks
    <3>4. DebtsOf(r) = {} \cup {d}
      <4>1. \A e \in DebtsOf(r) : e = d
        BY <1>1, <3>2, Indexes DEF DebtsOf, OneDebtARow
      <4> QED BY <3>1, <4>1
    <3>5. collected[d] = debts[d].init - debts[d].out /\ collected[d] \in Int
      BY <3>2, <3>3
    <3> HIDE DEF collected
    <3>6. SumFunctionOnSet(collected, {} \cup {d})
            = SumFunctionOnSet(collected, {}) + collected[d]
      <4>1. IsFiniteSet({}) /\ d \notin {} /\ \A x \in {} \cup {d} : collected[x] \in Int
        BY <3>5, FS_EmptySet
      <4> QED BY <4>1, SumAdd, Zenon
    <3>7. Collected(r) = SumFunctionOnSet(collected, {} \cup {d})
      BY <3>4, Zenon DEF Collected, collected
    <3>8. SumFunctionOnSet(collected, {}) = 0
      BY SumEmpty, Zenon
    <3>9. Collected(r) = debts[d].init - debts[d].out
      <4>1. Collected(r) = 0 + collected[d]
        BY <3>6, <3>7, <3>8, Zenon
      <4> QED BY <3>5, <4>1
    <3> QED BY <1>2, <3>3, <3>9
  <2> QED BY <2>1, <2>2
<1> DEFINE given == Collected(r) - ledger[r].delta
<1>6. given \in Int /\ given <= c
  BY <1>2, <1>3, <1>4, <1>5
<1> HIDE DEF given, c
<1>7. (IF given > 0 THEN given ELSE 0) \in 0..c
  BY <1>3, <1>6
<1> QED BY <1>3, <1>7 DEF given

-------------------------------------------------------------------------------
\* What a step needs of the state it starts from to be one of the account.
RefinementInv == IInv /\ HoldsBacked /\ GrantDeadlineKept /\ OneDebtARow /\ RowsFit

\* Every step of the wallet is a step of the account, or none.
LEMMA StepIsAccountStep ==
  ASSUME RefinementInv, [Next]_vars
  PROVE  [Account!Next]_Account!vars
<1>1. TypeOK /\ IInv /\ HoldsBacked /\ GrantDeadlineKept /\ OneDebtARow /\ RowsFit
  BY DEF RefinementInv, IInv
<1>2. DeadlinesStay
  <2>1. Step
    BY <1>1, NextIsStep, Zenon
  <2> QED BY <1>1, <2>1, LotsKept, Zenon DEF DeadlinesStay
<1>3. Amounts \subseteq Nat /\ Deadlines \subseteq Account!Dates
  BY Types, DatesFinite
<1>4. CASE Tick
  <2>1. Account!Tick
    BY <1>4 DEF Tick, Account!Tick, ByDeadline, Remaining, Open, AccountState
  <2> QED BY <2>1 DEF Account!Next
<1>5. CASE Spend
  <2>1. PICK key \in Keys \cup {NoKey} :
          \/ \E c \in Amounts, exp \in Deadlines, settle \in BOOLEAN :
               Credit(key, c, exp, settle)
          \/ \E c \in Amounts, partial \in BOOLEAN : Debit(key, c, partial)
          \/ MeterOnlyDebit(key)
    BY <1>5, Zenon DEF Spend
  <2>2. ASSUME NEW c \in Amounts, NEW exp \in Deadlines, NEW settle \in BOOLEAN,
               Credit(key, c, exp, settle)
        PROVE  Account!Next
    <3>1. Account!Grant(c, exp)
      BY <1>1, <1>2, <2>2, CreditGrants
    <3>2. exp \in Account!Dates
      BY <1>3
    <3> QED BY <3>1, <3>2, Zenon DEF Account!Next
  <2>3. ASSUME NEW c \in Amounts, NEW partial \in BOOLEAN, Debit(key, c, partial)
        PROVE  Account!Next
    <3>1. Account!Serve(c)
      BY <1>1, <1>2, <2>3, DebitServes
    <3> QED BY <3>1, Zenon DEF Account!Next
  <2>4. CASE MeterOnlyDebit(key)
    <3>1. PICK now \in Readings : /\ lots' = ExpireDueLots(lots, now)
                                  /\ UNCHANGED <<clock, holds, debts>>
      BY <2>4, Zenon DEF MeterOnlyDebit
    <3>2. Account!Lapse
      BY <1>1, <1>2, <3>1, SweepLapses
    <3> QED BY <3>2, Zenon DEF Account!Next
  <2> QED BY <2>1, <2>2, <2>3, <2>4, Zenon
<1>6. CASE Reserve
  <2>1. PICK h \in HoldKeys :
          \/ \E c \in Amounts, exp \in Deadlines, waived \in Waivers :
               Hold(h, c, exp, waived)
          \/ \E actual \in Amounts \cup {0} :
               CaptureWithin(h, actual) \/ CaptureBeyond(h, actual)
          \/ MeterOnlyCapture(h)
          \/ Release(h)
    BY <1>6, Zenon DEF Reserve
  <2>2. ASSUME NEW c \in Amounts, NEW exp \in Deadlines, NEW waived \in Waivers,
               Hold(h, c, exp, waived)
        PROVE  Account!Next
    <3>1. Account!Reserve(h, IF waived THEN 0 ELSE c)
      BY <1>1, <1>2, <2>2, HoldReserves
    <3>2. (IF waived THEN 0 ELSE c) \in Amounts \cup {0}
      OBVIOUS
    <3> QED BY <3>1, <3>2, Zenon DEF Account!Next
  <2>3. ASSUME NEW actual \in Amounts \cup {0},
               CaptureWithin(h, actual) \/ CaptureBeyond(h, actual)
        PROVE  Account!Next
    <3>1. Account!ChargeWithin(h, actual) \/ Account!ChargeBeyond(h, actual)
      BY <1>1, <1>2, <2>3, CaptureCharges, CaptureChargesBeyond
    <3> QED BY <3>1, Zenon DEF Account!Next
  <2>4. CASE MeterOnlyCapture(h)
    <3>1. Account!ChargeNothing(h)
      BY <1>1, <1>2, <2>4, MeterOnlyCharges
    <3> QED BY <3>1, Zenon DEF Account!Next
  <2>5. CASE Release(h)
    <3>1. Account!GiveBack(h)
      BY <1>1, <1>2, <2>5, ReleaseGivesBack DEF Release
    <3> QED BY <3>1, Zenon DEF Account!Next
  <2> QED BY <2>1, <2>2, <2>3, <2>4, <2>5, Zenon
<1>7. ASSUME UNCHANGED <<clock, lots, holds, debts>>
      PROVE  UNCHANGED Account!vars
  BY <1>7 DEF Account!vars, ByDeadline, Remaining, Open, AccountState
<1>8. CASE Workers
  <2>1. CASE ListStaleHolds
    BY <1>7, <2>1 DEF ListStaleHolds
  <2>2. ASSUME NEW h \in HoldKeys, ExpireHold(h)
        PROVE  [Account!Next]_Account!vars
    <3>1. CASE Open(h)
      <4>1. GiveBack(h, "expired")
        BY <2>2, <3>1 DEF ExpireHold
      <4>2. Account!GiveBack(h)
        BY <1>1, <1>2, <3>1, <4>1, ReleaseGivesBack
      <4> QED BY <4>2, Zenon DEF Account!Next
    <3>2. CASE ~Open(h)
      BY <1>7, <2>2, <3>2 DEF ExpireHold
    <3> QED BY <3>1, <3>2
  <2>3. CASE ExpireCreditLots
    <3>1. lots' = ExpireDueLots(lots, clock) /\ UNCHANGED <<clock, holds, debts>>
      BY <2>3, Zenon DEF ExpireCreditLots
    <3>2. clock \in Readings
      BY <1>1, Indexes, BoundsAssumption DEF Readings
    <3>3. Account!Lapse
      BY <1>1, <1>2, <3>1, <3>2, SweepLapses
    <3> QED BY <3>3, Zenon DEF Account!Next
  <2> QED BY <1>8, <2>1, <2>2, <2>3 DEF Workers
<1>9. CASE MoneyBack
  <2>1. ASSUME NEW g \in DOMAIN ledger, NEW reason \in Reasons,
               NEW target \in 1..ledger[g].delta, ClawBackGrant(g, target, reason)
        PROVE  Account!Next
    <3>1. PICK part \in 0..ledger[g].delta : Account!TakeBack(part)
      BY <1>1, <1>2, <2>1, ClawBackTakes
    <3>2. ledger[g].delta \in Amounts
      <4>1. ledger[g].type = "grant"
        BY <2>1, Zenon DEF ClawBackGrant
      <4>2. g \in 1..Len(ledger)
        BY <1>1, Indexes
      <4> QED BY <1>1, <4>1, <4>2 DEF RowsFit, Fits
    <3> QED BY <3>1, <3>2, Zenon DEF Account!Next
  <2>2. ASSUME NEW r \in DOMAIN ledger, ReverseClawback(r)
        PROVE  Account!Next
    <3> DEFINE given == Collected(r) - ledger[r].delta
               part == IF given > 0 THEN given ELSE 0
    <3>1. ledger[r].type = "dispute" /\ ~ledger[r].reversed
      BY <2>2, Zenon DEF ReverseClawback
    <3>2. Account!PayBack(part)
      BY <1>1, <1>2, <2>2, ReversalPays
    <3>3. \E c \in Amounts : part \in 0..c
      BY <1>1, <3>1, GivenFits
    <3> HIDE DEF part
    <3> QED BY <3>2, <3>3, Zenon DEF Account!Next
  <2> QED BY <1>9, <2>1, <2>2, Zenon DEF MoneyBack
<1>10. CASE UNCHANGED vars
  BY <1>7, <1>10 DEF vars
<1> QED BY <1>4, <1>5, <1>6, <1>8, <1>9, <1>10 DEF Next

\* A wallet no call has touched is an account with nothing in it.
LEMMA AccountOpens == Init => Account!Init
<1> SUFFICES ASSUME Init PROVE Account!Init
  OBVIOUS
<1>1. /\ lots = << >> /\ debts = << >> /\ holds = [h \in HoldKeys |-> NewHold]
      /\ clock = 0
  BY DEF Init
<1>2. \A f : SumFunctionOnSet(f, {}) = 0
  BY SumEmpty
<1>3. ByDeadline(Remaining(lots)) = Account!Nothing
  <2>1. DOMAIN Remaining(lots) = {}
    BY <1>1 DEF Remaining
  <2>2. \A d : {i \in DOMAIN Remaining(lots) : lots[i].exp = d} = {}
    BY <2>1
  <2>3. \A d : SumFunctionOnSet(Remaining(lots), {i \in DOMAIN Remaining(lots) : lots[i].exp = d}) = 0
    BY <1>2, <2>2, Zenon
  <2> QED BY <2>3 DEF ByDeadline, Account!Nothing, Account!Dates
<1>4. \A h \in HoldKeys : ~Open(h) /\ AccountState(h) = "free"
  BY <1>1 DEF Open, NewHold, AccountState
<1>5. SumFunction([d \in DOMAIN debts |-> debts[d].out]) = 0
  <2>1. DOMAIN [d \in DOMAIN debts |-> debts[d].out] = {}
    BY <1>1
  <2> QED BY <1>2, <2>1, SumOfFunction, Zenon
<1>6. [h \in HoldKeys |-> IF Open(h) THEN ByDeadline(holds[h].alloc)
                          ELSE [d \in 0..Never |-> 0]]
        = [h \in HoldKeys |-> Account!Nothing]
  BY <1>4 DEF Account!Nothing, Account!Dates
<1>7. [h \in HoldKeys |-> AccountState(h)] = [h \in HoldKeys |-> "free"]
  BY <1>4
<1> HIDE DEF Open, AccountState
<1> QED BY <1>1, <1>3, <1>5, <1>6, <1>7 DEF Account!Init

\* What the refinement rests on holds for ever.
LEMMA RefinementInvariant == Spec => []RefinementInv
<1>1. Init => RowsFit
  <2>1. Init => Len(ledger) = 0 /\ 1..0 = {}
    BY DEF Init
  <2> QED BY <2>1, Zenon DEF RowsFit
<1>2. IInv /\ GrantDeadlineKept /\ RowsFit /\ [Next]_vars => RowsFit'
  <2> SUFFICES ASSUME IInv, GrantDeadlineKept, RowsFit, [Next]_vars PROVE RowsFit'
    OBVIOUS
  <2>1. TypeOK
    BY DEF IInv
  <2>2. Step /\ MoneyStep
    BY NextIsStep, NextIsMoneyStep, Zenon
  <2>3. NewRowFits
    BY <2>1, NextFits, Zenon
  <2> QED BY <2>2, <2>3, RowsStayFit, Zenon
<1>3. IInv /\ BInv /\ DInv /\ GrantDeadlineKept /\ RowsFit => RefinementInv
  BY DEF BInv, DInv, RefinementInv
<1> QED BY <1>1, <1>2, <1>3, Invariance, BooksInvariant, DebtsInvariant, DeadlineKept, PTL
        DEF Spec

\* The wallet of src/services.py, with its lots, ledger, holds, debts and cache,
\* implements an account of dated credits: whatever the interleaving, callers
\* are served soonest-dying first, given back what a hold did not need with the
\* deadlines it came with, lose what is past its deadline, and owe the rest.
THEOREM AccountImplemented == Spec => ImplementsAccount
<1>1. Init => Account!Init
  BY AccountOpens
<1>2. RefinementInv /\ [Next]_vars => [Account!Next]_Account!vars
  BY StepIsAccountStep
<1> QED BY <1>1, <1>2, RefinementInvariant, PTL DEF Spec, ImplementsAccount, Account!Spec

===============================================================================
