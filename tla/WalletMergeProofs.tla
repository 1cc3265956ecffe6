--------------------------- MODULE WalletMergeProofs ---------------------------
(***************************************************************************)
(* Merged accounts, for any number of users, wallets, calls under way and  *)
(* merges of guests: credits neither appear nor vanish, they are with the  *)
(* person they were given to or the one that person was folded into, and   *)
(* a pair's credits are announced once.                                    *)
(*                                                                         *)
(* Every action is a MoneyStep: what it does to the wallets' lots, debts,  *)
(* holds and rows, wallet by wallet, whichever wallet was locked.  Where   *)
(* the owners are while calls are under way is an invariant of its own     *)
(* (Placed); the theorems combine the two.                                 *)
(***************************************************************************)
EXTENDS WalletMerge, CreditLotsLemmas, TLAPS

\* The grants some lots come from, and those of which credits are left.
Grants(ls) == {ls[i].grant : i \in DOMAIN ls}
Held(ls) == {ls[i].grant : i \in {j \in DOMAIN ls : ls[j].rem > 0}}

\* What a service that grants nothing leaves: no credits of other grants.
Fewer(old, new) ==
  /\ new \in Seq(Lot)
  /\ Grants(new) \subseteq Grants(old) /\ Held(new) \subseteq Held(old)

\* The lots and debts of this module are those of CreditLots' lemmas.
LEMMA Records ==
  /\ Lot = LotWith(0..Never) /\ Debt = DebtRecords
  /\ 0..Never \in SUBSET Int /\ Never \in Int /\ MaxClock \in Nat
  /\ IsFiniteSet(Wallets) /\ Wallets \subseteq Nat /\ NoWallet \notin Wallets
<1>1. MaxClock \in Nat /\ MaxWallets \in Nat
  BY CreditsAssumption
<1>2. IsFiniteSet(Wallets)
  BY <1>1, FS_Interval DEF Wallets
<1> QED BY <1>1, <1>2 DEF Lot, LotWith, Debt, DebtRecords, Never, Wallets, NoWallet

\* Fewer orders lots by what is left of their grants.
LEMMA FewerReflexive ==
  ASSUME NEW ls \in Seq(Lot)
  PROVE  Fewer(ls, ls)
BY DEF Fewer

\* ... and composes: a service walks lots more than once.
LEMMA FewerTransitive ==
  ASSUME NEW a, NEW b, NEW c, Fewer(a, b), Fewer(b, c)
  PROVE  Fewer(a, c)
BY DEF Fewer

\* Lots that only went down are fewer.
LEMMA ShrunkFewer ==
  ASSUME NEW old \in Seq(Lot), NEW new \in Seq(Lot), Shrunk(old, new)
  PROVE  Fewer(old, new)
<1>1. /\ DOMAIN new = DOMAIN old
      /\ \A i \in DOMAIN old : new[i].grant = old[i].grant /\ new[i].rem <= old[i].rem
  BY Zenon DEF Shrunk
<1>2. \A i \in DOMAIN old : old[i].rem \in Nat /\ new[i].rem \in Nat
  BY <1>1, Records, LotFields, Zenon
<1>3. \A i \in DOMAIN old : new[i].rem > 0 => old[i].rem > 0
  BY <1>1, <1>2
<1> QED BY <1>1, <1>3, Zenon DEF Fewer, Grants, Held

\* Lots that descend from others, none created.
LEMMA DescendsFewer ==
  ASSUME NEW old \in Seq(Lot), NEW new \in Seq(Lot), Len(new) = Len(old),
         Descends(old, new)
  PROVE  Fewer(old, new)
<1>1. DOMAIN old = 1..Len(old) /\ DOMAIN new = 1..Len(old)
  BY LotsFinite, Zenon
<1>2. Shrunk(old, new)
  BY <1>1, Zenon DEF Shrunk, Descends
<1> QED BY <1>2, ShrunkFewer, Zenon

\* The expiry sweep.
LEMMA Sweeping ==
  ASSUME NEW ls \in Seq(Lot), NEW now
  PROVE  /\ Fewer(ls, ExpireDueLots(ls, now))
         /\ Worth(ExpireDueLots(ls, now)) = Worth(ls)
         /\ Worth(ls) \in Nat
         /\ Len(ExpireDueLots(ls, now)) = Len(ls)
<1>1. ls \in Seq(LotWith(0..Never))
  BY Records, Zenon
<1>2. /\ ExpireDueLots(ls, now) \in Seq(Lot) /\ Shrunk(ls, ExpireDueLots(ls, now))
      /\ Len(ExpireDueLots(ls, now)) = Len(ls)
  BY <1>1, ExpireShrinks, Records, Zenon
<1>3. Worth(ExpireDueLots(ls, now)) = Worth(ls) /\ Worth(ls) \in Nat
  BY <1>1, ExpiryKeepsWorth, WorthSplits, Zenon
<1> QED BY <1>2, <1>3, ShrunkFewer, Zenon

\* A spend of what there is.
LEMMA Spending ==
  ASSUME NEW ls \in Seq(Lot), NEW now, NEW n \in Nat, n <= LiveBalance(ls, now)
  PROVE  /\ Fewer(ls, ConsumeLots(ls, n, now))
         /\ Worth(ConsumeLots(ls, n, now)) = Worth(ls) - n
<1>1. ls \in Seq(LotWith(0..Never))
  BY Records, Zenon
<1>2. ConsumeLots(ls, n, now) \in Seq(Lot) /\ Shrunk(ls, ConsumeLots(ls, n, now))
  BY <1>1, ConsumeShrinks, Records, Zenon
<1>3. Worth(ConsumeLots(ls, n, now)) = Worth(ls) - n
  BY <1>1, SpendTakesAll, Records, Zenon
<1> QED BY <1>2, <1>3, ShrunkFewer, Zenon

\* Debts collected out of the lots that came in.
LEMMA Settling ==
  ASSUME NEW ls \in Seq(Lot), NEW ds \in Seq(Debt), NEW now
  PROVE  /\ Fewer(ls, LotsAfterSettling(ls, ds, now))
         /\ SettleDebts(ls, ds, now) \in Seq(Debt)
         /\ Worth(LotsAfterSettling(ls, ds, now)) + Billed(SettleDebts(ls, ds, now))
              = Worth(ls) + Billed(ds)
<1>1. ls \in Seq(LotWith(0..Never)) /\ ds \in Seq(DebtRecords)
  BY Records, Zenon
<1>2. /\ LotsAfterSettling(ls, ds, now) \in Seq(Lot)
      /\ Len(LotsAfterSettling(ls, ds, now)) = Len(ls)
      /\ Descends(ls, LotsAfterSettling(ls, ds, now))
  BY <1>1, SettlingDescends, Records, Zenon
<1>3. SettleDebts(ls, ds, now) \in Seq(Debt)
  BY <1>1, SettlingDebts, Records, Zenon
<1>4. Worth(LotsAfterSettling(ls, ds, now)) + Billed(SettleDebts(ls, ds, now))
        = Worth(ls) + Billed(ds)
  BY <1>1, SettlingBillsWhatItTakes, Records, Zenon
<1> QED BY <1>2, <1>3, <1>4, DescendsFewer, Zenon

\* Lots put behind others.
LEMMA Joining ==
  ASSUME NEW a \in Seq(Lot), NEW b \in Seq(Lot)
  PROVE  /\ a \o b \in Seq(Lot)
         /\ Grants(a \o b) = Grants(a) \cup Grants(b)
         /\ Held(a \o b) = Held(a) \cup Held(b)
         /\ Worth(a \o b) = Worth(a) + Worth(b)
<1> DEFINE c == a \o b
<1>1. /\ Len(a) \in Nat /\ Len(b) \in Nat
      /\ c \in Seq(Lot) /\ Len(c) = Len(a) + Len(b)
      /\ \A i \in 1..Len(c) : c[i] = IF i <= Len(a) THEN a[i] ELSE b[i - Len(a)]
  BY ConcatProperties
<1>2. /\ DOMAIN a = 1..Len(a) /\ DOMAIN b = 1..Len(b) /\ DOMAIN c = 1..Len(c)
  BY <1>1, LotsFinite, Zenon
<1> HIDE DEF c
<1>3. \A i \in DOMAIN a : i \in DOMAIN c /\ c[i] = a[i]
  BY <1>1, <1>2
<1>4. \A i \in DOMAIN b : Len(a) + i \in DOMAIN c /\ c[Len(a) + i] = b[i]
  BY <1>1, <1>2
<1>5. \A i \in DOMAIN c : \/ i \in DOMAIN a
                          \/ i - Len(a) \in DOMAIN b /\ c[i] = b[i - Len(a)]
  BY <1>1, <1>2
<1>6. Grants(c) = Grants(a) \cup Grants(b)
  BY <1>3, <1>4, <1>5 DEF Grants
<1>7. Held(c) = Held(a) \cup Held(b)
  BY <1>3, <1>4, <1>5 DEF Held
<1>8. Worth(a \o b) = Worth(a) + Worth(b)
  BY Records, ConcatAddsWorth, Zenon
<1> QED BY <1>1, <1>6, <1>7, <1>8 DEF c

\* A granted lot.
LEMMA Adding ==
  ASSUME NEW ls \in Seq(Lot), NEW l \in Lot, l.expired = 0
  PROVE  /\ Append(ls, l) \in Seq(Lot)
         /\ Grants(Append(ls, l)) = Grants(ls) \cup {l.grant}
         /\ Held(Append(ls, l)) \subseteq Held(ls) \cup {l.grant}
         /\ Worth(Append(ls, l)) = Worth(ls) + l.rem
<1> DEFINE c == Append(ls, l)
<1>1. /\ Len(ls) \in Nat
      /\ c \in Seq(Lot) /\ Len(c) = Len(ls) + 1 /\ c[Len(ls) + 1] = l
      /\ \A i \in 1..Len(ls) : c[i] = ls[i]
  BY AppendProperties
<1>2. DOMAIN ls = 1..Len(ls) /\ DOMAIN c = 1..Len(c)
  BY <1>1, LotsFinite, Zenon
<1> HIDE DEF c
<1>3. \A i \in DOMAIN ls : i \in DOMAIN c /\ c[i] = ls[i]
  BY <1>1, <1>2
<1>4. Len(ls) + 1 \in DOMAIN c
  BY <1>1, <1>2
<1>5. \A i \in DOMAIN c : i \in DOMAIN ls \/ c[i] = l
  BY <1>1, <1>2
<1>6. Grants(c) = Grants(ls) \cup {l.grant}
  BY <1>1, <1>3, <1>4, <1>5 DEF Grants
<1>7. Held(c) \subseteq Held(ls) \cup {l.grant}
  BY <1>3, <1>5 DEF Held
<1>8. Worth(Append(ls, l)) = Worth(ls) + l.rem
  BY Records, AppendAddsWorth, Zenon
<1> QED BY <1>1, <1>6, <1>7, <1>8 DEF c

\* A reservation: what it will hand back comes from lots that had credits.
LEMMA Reserving ==
  ASSUME NEW ls \in Seq(Lot), NEW now, NEW n \in Nat, n <= LiveBalance(ls, now),
         NEW back, back = HoldReleaseLots(ls, Consumption(ls, n, now))
  PROVE  /\ back \in Seq(Lot) /\ Grants(back) \subseteq Held(ls)
         /\ \A k \in DOMAIN back : back[k].expired = 0
         /\ Worth(back) = n
<1> DEFINE take == Consumption(ls, n, now)
<1>1. ls \in Seq(LotWith(0..Never))
  BY Records, Zenon
<1>2. /\ take \in [Live(ls, now) -> Nat] /\ Live(ls, now) \subseteq DOMAIN ls
      /\ \A i \in Live(ls, now) : take[i] <= ls[i].rem
  BY <1>1, ConsumeShrinks, Zenon
<1>3. SumFunction(take) = n
  BY <1>1, SpendTakesAll, Records, Zenon
<1> HIDE DEF take
<1>4. DOMAIN take \subseteq DOMAIN ls /\ \A i \in DOMAIN take : take[i] \in Nat
  BY <1>2
<1>5. /\ HoldReleaseLots(ls, take) \in Seq(Lot)
      /\ \A k \in 1..Len(HoldReleaseLots(ls, take)) :
           /\ HoldReleaseLots(ls, take)[k].expired = 0
           /\ \E j \in DOMAIN take : /\ take[j] > 0
                 /\ HoldReleaseLots(ls, take)[k].grant = ls[j].grant
  <2>1. 0..Never \in SUBSET Int
    BY Records
  <2>2. /\ HoldReleaseLots(ls, take) \in Seq(LotWith(0..Never))
        /\ \A k \in 1..Len(HoldReleaseLots(ls, take)) :
             /\ HoldReleaseLots(ls, take)[k].expired = 0
             /\ \E j \in DOMAIN take : /\ take[j] > 0
                   /\ HoldReleaseLots(ls, take)[k].grant = ls[j].grant
    BY <1>1, <1>4, <2>1, ReleaseLots
  <2> QED BY <2>2, Records, Zenon
<1>6. Worth(HoldReleaseLots(ls, take)) = n
  <2>1. Allocates(ls, take)
    BY <1>4 DEF Allocates
  <2> QED BY <1>1, <1>3, <2>1, ReleaseBringsBack, Records, Zenon
<1>7. back = HoldReleaseLots(ls, take) /\ DOMAIN back = 1..Len(back)
  <2>1. back = HoldReleaseLots(ls, take)
    BY DEF take
  <2> QED BY <2>1, <1>5, LotsFinite, Zenon
<1>8. ASSUME NEW j \in DOMAIN take, take[j] > 0
      PROVE  j \in DOMAIN ls /\ ls[j].rem > 0
  <2>1. j \in Live(ls, now) /\ j \in DOMAIN ls /\ take[j] \in Nat
    BY <1>2, <1>4
  <2>2. take[j] <= ls[j].rem /\ ls[j].rem \in Nat
    BY <1>1, <1>2, <2>1, LotFields, Zenon
  <2> QED BY <1>8, <2>1, <2>2
<1>9. Grants(back) \subseteq Held(ls)
  <2>1. \A k \in DOMAIN back : \E j \in DOMAIN take :
           take[j] > 0 /\ back[k].grant = ls[j].grant
    BY <1>5, <1>7, Zenon
  <2>2. \A k \in DOMAIN back : \E j \in {i \in DOMAIN ls : ls[i].rem > 0} :
           back[k].grant = ls[j].grant
    BY <2>1, <1>8
  <2> QED BY <2>2 DEF Grants, Held
<1> QED BY <1>5, <1>6, <1>7, <1>9, Zenon

\* A clawback takes what is left of a grant, as far as it goes.
LEMMA Reclaiming ==
  ASSUME NEW ls \in Seq(Lot), NEW n \in Nat, NEW S \in SUBSET DOMAIN ls,
         NEW take, take = Walk(n, Restrict(Remaining(ls), S), CreationOrder(DOMAIN ls))
  PROVE  /\ Fewer(ls, TakeFrom(ls, take))
         /\ SumFunction(take) \in Nat /\ SumFunction(take) <= n
         /\ Worth(TakeFrom(ls, take)) = Worth(ls) - SumFunction(take)
<1> DEFINE f == Restrict(Remaining(ls), S)
<1>1. ls \in Seq(LotWith(0..Never))
  BY Records, Zenon
<1>2. IsFiniteSet(S) /\ DOMAIN ls \in SUBSET Int
  <2>1. DOMAIN ls = 1..Len(ls) /\ Len(ls) \in Nat
    BY <1>1, LotsFinite, Zenon
  <2>2. IsFiniteSet(S)
    BY <1>1, LotsFinite, Zenon
  <2> QED BY <2>1, <2>2
<1>3. f \in [S -> Nat] /\ \A i \in S : f[i] = ls[i].rem
  <2>1. \A i \in S : ls[i].rem \in Nat
    BY <1>1, LotFields, Zenon
  <2>2. f = [i \in S |-> ls[i].rem]
    BY DEF Restrict, Remaining
  <2> QED BY <2>1, <2>2
<1> HIDE DEF f
<1>4. /\ take \in [S -> Nat] /\ \A i \in S : take[i] <= ls[i].rem
  <2>1. take = Walk(n, f, CreationOrder(DOMAIN ls))
    BY DEF f
  <2>2. DOMAIN f = S /\ \A i \in S : f[i] \in Nat
    BY <1>3
  <2>3. n \in Int
    OBVIOUS
  <2>4. /\ Walk(n, f, CreationOrder(DOMAIN ls)) \in [S -> Nat]
        /\ \A i \in S : Walk(n, f, CreationOrder(DOMAIN ls))[i] <= f[i]
    BY <1>2, <2>2, <2>3, WalkBounds, Zenon
  <2> QED BY <1>3, <2>1, <2>4, Zenon
<1>5. SumFunction(take) = Clip(n, SumFunctionOnSet(f, S))
  <2>1. StrictTotalOrder(CreationOrder(DOMAIN ls), DOMAIN ls)
    BY <1>2, OrdersAreTotal, Zenon
  <2>2. StrictTotalOrder(CreationOrder(DOMAIN ls), S)
    BY <2>1, Zenon DEF StrictTotalOrder
  <2>3. n \in Int
    OBVIOUS
  <2>4. SumFunctionOnSet(Walk(n, f, CreationOrder(DOMAIN ls)), S)
          = Clip(n, SumFunctionOnSet(f, S))
    BY <1>2, <1>3, <2>2, <2>3, WalkTotal, Zenon
  <2>5. DOMAIN take = S
    BY <1>4
  <2> QED BY <2>4, <2>5, SumOfFunction, Zenon DEF f
<1>6. SumFunction(take) \in Nat /\ SumFunction(take) <= n
  <2>1. SumFunctionOnSet(f, S) \in Nat
    BY <1>2, <1>3, SumNat
  <2>2. PICK s \in Nat : s = SumFunctionOnSet(f, S)
    BY <2>1
  <2>3. Clip(n, s) \in 0..s /\ Clip(n, s) <= n
    BY <2>2, ClipBounds
  <2> QED BY <1>5, <2>2, <2>3
<1>7. DOMAIN take = S /\ DOMAIN take \subseteq DOMAIN ls
  BY <1>4
<1>8. /\ TakeFrom(ls, take) \in Seq(Lot) /\ Shrunk(ls, TakeFrom(ls, take))
  <2>1. \A i \in DOMAIN take : i \in DOMAIN ls =>
           take[i] \in Nat /\ take[i] <= ls[i].rem
    BY <1>4, <1>7
  <2> QED BY <1>1, <2>1, TakeShrinks, Records, Zenon
<1>9. Worth(TakeFrom(ls, take)) = Worth(ls) - SumFunction(take)
  <2>1. \A i \in DOMAIN take : take[i] \in Nat /\ take[i] <= ls[i].rem
    BY <1>4, <1>7
  <2> QED BY <1>1, <1>7, <2>1, TakingLowersWorth, Zenon
<1> QED BY <1>6, <1>8, <1>9, ShrunkFewer, Zenon

\* What a gift loses in a merge its EXPIRATION row keeps.
LEMMA Forfeiting ==
  ASSUME NEW ls \in Seq(Lot)
  PROVE  Fewer(ls, Forfeit(ls)) /\ Worth(Forfeit(ls)) = Worth(ls)
<1> DEFINE new == Forfeit(ls)
<1>1. DOMAIN new = DOMAIN ls /\ DOMAIN ls = 1..Len(ls) /\ Len(ls) \in Nat
  BY LotsFinite DEF Forfeit
<1>2. \A i \in DOMAIN ls :
        \/ new[i] = ls[i]
        \/ new[i] = [ls[i] EXCEPT !.rem = 0, !.expired = @ + ls[i].rem]
  BY Zenon DEF Forfeit
<1> HIDE DEF new
<1>3. ASSUME NEW i \in DOMAIN ls
      PROVE  /\ new[i] \in Lot
             /\ new[i].rem <= ls[i].rem /\ new[i].expired >= ls[i].expired
             /\ new[i].exp = ls[i].exp /\ new[i].grant = ls[i].grant
             /\ new[i].rem + new[i].expired = ls[i].rem + ls[i].expired
  <2>1. ls[i] \in Lot /\ ls[i].rem \in Nat /\ ls[i].expired \in Nat
    BY Records, LotFields, Zenon
  <2>2. CASE new[i] = ls[i]
    BY <2>1, <2>2
  <2>3. CASE new[i] = [ls[i] EXCEPT !.rem = 0, !.expired = @ + ls[i].rem]
    <3>1. /\ new[i] \in Lot
          /\ new[i].rem = 0 /\ new[i].expired = ls[i].expired + ls[i].rem
          /\ new[i].exp = ls[i].exp /\ new[i].grant = ls[i].grant
      <4>1. ls[i].expired + ls[i].rem \in Nat /\ 0 \in Nat
        BY <2>1
      <4> QED BY <4>1, <2>1, <2>3, Zenon DEF Lot
    <3> HIDE <2>3
    <3> QED BY <2>1, <3>1
  <2> QED BY <1>2, <2>2, <2>3, Zenon
<1>4. new \in Seq(Lot)
  <2>1. new = [i \in 1..Len(ls) |-> new[i]]
    BY <1>1 DEF Forfeit, new
  <2>2. new \in [1..Len(ls) -> Lot]
    BY <1>1, <1>3, <2>1
  <2> QED BY <1>1, <2>2, SeqDef
<1>5. Shrunk(ls, new)
  BY <1>1, <1>3, Zenon DEF Shrunk
<1>6. Worth(new) = Worth(ls)
  <2>1. DOMAIN Face(new) = DOMAIN ls /\ \A i \in DOMAIN ls : Face(new)[i] = Face(ls)[i]
    BY <1>1, <1>3 DEF Face
  <2> QED BY <1>1, <2>1, LotsFinite, SumEqual DEF Worth
<1> QED BY <1>4, <1>5, <1>6, ShrunkFewer DEF new

-------------------------------------------------------------------------------
Posts(book) ==
  [r \in DOMAIN book |-> IF book[r].type = "merge" THEN 0 ELSE book[r].delta]
Posted(book) == SumFunction(Posts(book))

Accounts == [w \in Wallets |-> Worth(lots[w]) + Billed(debts[w])]

Reserves == [h \in DOMAIN holds |-> Worth(holds[h].back)]

\* Conservation, with a lot's two sums taken together.
Balanced == SumFunction(Accounts) + SumFunction(Reserves) = Posted(ledger)

Kept == Balanced => Balanced'

\* The part of TypeOK that is about credits, ...
MoneyTyped ==
  /\ balance \in [Wallets -> Nat]
  /\ lots \in [Wallets -> Seq(Lot)] /\ debts \in [Wallets -> Seq(Debt)]
  /\ holds \in Seq(HoldRow) /\ ledger \in Seq(LedgerRow)
  /\ \A w \in Wallets : Grants(lots[w]) \subseteq GrantRows
  /\ \A h \in DOMAIN holds : Grants(holds[h].back) \subseteq GrantRows

\* ... a grant gives, merge rows are the ones that name a merge, and what a
\* reservation will hand back has not expired before.
RowsRight ==
  \A r \in DOMAIN ledger :
    /\ ledger[r].type = "grant" => ledger[r].delta \in Nat
    /\ ledger[r].type = "merge" <=> ledger[r].merge \in Merges

BacksFresh ==
  \A h \in DOMAIN holds : \A i \in DOMAIN holds[h].back : holds[h].back[i].expired = 0

MoneyInv == MoneyTyped /\ RowsRight /\ BacksFresh

\* What a row says of who got what is never changed.
Alike(old, new) ==
  /\ DOMAIN old \subseteq DOMAIN new
  /\ \A r \in DOMAIN old :
       /\ new[r].type = old[r].type /\ new[r].user = old[r].user
       /\ new[r].delta = old[r].delta /\ new[r].merge = old[r].merge

MoneyStep ==
  /\ MoneyInv' /\ Kept
  /\ Alike(ledger, ledger') /\ DOMAIN holds \subseteq DOMAIN holds'

\* The credits of a grant a wallet has, in lots or in reservations.
Has(w, g) ==
  \/ g \in Held(lots[w])
  \/ \E h \in HoldsIn(w) : holds[h].open /\ g \in Grants(holds[h].back)

\* No credits of a grant reach a wallet that had none of it.
Carried == \A w \in Wallets : \A g : Has(w, g)' => Has(w, g)

-------------------------------------------------------------------------------
\* A row of the ledger at the end of one that says the same.
LEMMA PostedRow ==
  ASSUME MoneyInv, NEW book \in Seq(LedgerRow), DOMAIN book = DOMAIN ledger,
         Alike(ledger, book), NEW e \in LedgerRow, ledger' = Append(book, e),
         e.type = "grant" => e.delta \in Nat,
         e.type = "merge" <=> e.merge \in Merges
  PROVE  /\ ledger' \in Seq(LedgerRow) /\ Alike(ledger, ledger') /\ RowsRight'
         /\ GrantRows \subseteq GrantRows'
         /\ NextRow \notin DOMAIN ledger /\ ledger'[NextRow] = e
         /\ DOMAIN ledger' = DOMAIN ledger \cup {NextRow}
         /\ e.type = "grant" => NextRow \in GrantRows'
         /\ Posted(ledger') = Posted(ledger)
              + (IF e.type = "merge" THEN 0 ELSE e.delta)
<1>1. ledger \in Seq(LedgerRow) /\ RowsRight
  BY Zenon DEF MoneyInv, MoneyTyped
<1>2. /\ DOMAIN ledger = 1..Len(ledger) /\ Len(ledger) \in Nat
      /\ Len(book) = Len(ledger)
  <2>1. /\ DOMAIN book = 1..Len(book) /\ Len(book) \in Nat
        /\ DOMAIN ledger = 1..Len(ledger) /\ Len(ledger) \in Nat
    BY <1>1, LotsFinite, Zenon
  <2>2. PICK m, n \in Nat : m = Len(book) /\ n = Len(ledger)
    BY <2>1
  <2>3. 1..m = 1..n
    BY <2>1, <2>2, Zenon
  <2>4. (m \in 1..m => m \in 1..n) /\ (n \in 1..n => n \in 1..m)
    BY <2>3, Zenon
  <2>5. m = n
    BY <2>4
  <2> QED BY <2>1, <2>2, <2>5
<1>3. /\ ledger' \in Seq(LedgerRow) /\ Len(ledger') = NextRow
      /\ ledger'[NextRow] = e
      /\ \A r \in DOMAIN ledger : ledger'[r] = book[r]
  BY <1>2, AppendProperties DEF NextRow
<1>4. /\ NextRow \notin DOMAIN ledger
      /\ DOMAIN ledger' = DOMAIN ledger \cup {NextRow}
  <2>1. DOMAIN ledger' = 1..NextRow /\ NextRow = Len(ledger) + 1
    BY <1>3, LotsFinite, Zenon DEF NextRow
  <2> HIDE DEF NextRow
  <2> QED BY <1>2, <2>1
<1>5. Alike(ledger, ledger')
  BY <1>3, <1>4, Zenon DEF Alike
<1>6. RowsRight'
  BY <1>1, <1>3, <1>4, <1>5, Zenon DEF RowsRight, Alike
<1>7. GrantRows \subseteq GrantRows' /\ (e.type = "grant" => NextRow \in GrantRows')
  BY <1>3, <1>4, <1>5, Zenon DEF GrantRows, Alike
<1>8. Posted(ledger') = Posted(ledger) + (IF e.type = "merge" THEN 0 ELSE e.delta)
  <2> DEFINE f == Posts(ledger)
             g == Posts(ledger')
             D == DOMAIN ledger
  <2>1. /\ DOMAIN f = D /\ DOMAIN g = D \cup {NextRow}
        /\ \A r \in D : g[r] = f[r]
        /\ g[NextRow] = IF e.type = "merge" THEN 0 ELSE e.delta
    BY <1>3, <1>4, <1>5 DEF Posts, Alike
  <2>2. \A r \in D \cup {NextRow} : g[r] \in Int
    <3>0. \A r \in D : ledger[r] \in LedgerRow
      BY <1>1
    <3>1. e.delta \in Int /\ \A r \in D : ledger[r].delta \in Int
      BY <3>0, Zenon DEF LedgerRow
    <3>2. \A r \in D : f[r] \in Int
      BY <3>1 DEF Posts
    <3> QED BY <2>1, <3>1, <3>2
  <2>3. IsFiniteSet(D)
    BY <1>1, LotsFinite, Zenon
  <2> HIDE DEF f, g, D
  <2>4. SumFunctionOnSet(g, D \cup {NextRow}) = SumFunctionOnSet(g, D) + g[NextRow]
    <3>1. NextRow \notin D
      BY <1>4 DEF D
    <3> QED BY <2>2, <2>3, <3>1, SumAdd, Zenon
  <2>5. SumFunctionOnSet(g, D) = SumFunctionOnSet(f, D)
    BY <2>1, <2>3, SumEqual
  <2>6. /\ Posted(ledger) = SumFunctionOnSet(f, D)
        /\ Posted(ledger') = SumFunctionOnSet(g, D \cup {NextRow})
    BY <2>1, SumOfFunction DEF Posted, f, g
  <2> QED BY <2>1, <2>4, <2>5, <2>6
<1> QED BY <1>3, <1>4, <1>5, <1>6, <1>7, <1>8, Zenon

\* The typed parts, one by one.
LEMMA Typed ==
  ASSUME MoneyInv
  PROVE  /\ balance \in [Wallets -> Nat]
         /\ lots \in [Wallets -> Seq(Lot)] /\ debts \in [Wallets -> Seq(Debt)]
         /\ \A w \in Wallets : /\ lots[w] \in Seq(Lot) /\ debts[w] \in Seq(Debt)
                               /\ Worth(lots[w]) \in Nat /\ Billed(debts[w]) \in Nat
                               /\ Grants(lots[w]) \subseteq GrantRows
         /\ holds \in Seq(HoldRow) /\ ledger \in Seq(LedgerRow)
         /\ \A h \in DOMAIN holds :
              /\ holds[h] \in HoldRow /\ holds[h].wallet \in Wallets
              /\ holds[h].back \in Seq(Lot) /\ Worth(holds[h].back) \in Nat
              /\ Grants(holds[h].back) \subseteq GrantRows
         /\ IsFiniteSet(DOMAIN holds) /\ IsFiniteSet(DOMAIN ledger)
         /\ \A r \in DOMAIN ledger : ledger[r] \in LedgerRow
         /\ SumFunction(Accounts) \in Int /\ SumFunction(Reserves) \in Int
         /\ Posted(ledger) \in Int
<1>1. /\ balance \in [Wallets -> Nat]
      /\ lots \in [Wallets -> Seq(Lot)] /\ debts \in [Wallets -> Seq(Debt)]
      /\ holds \in Seq(HoldRow) /\ ledger \in Seq(LedgerRow)
      /\ \A w \in Wallets : Grants(lots[w]) \subseteq GrantRows
      /\ \A h \in DOMAIN holds : Grants(holds[h].back) \subseteq GrantRows
  BY Zenon DEF MoneyInv, MoneyTyped
<1>2. \A w \in Wallets : lots[w] \in Seq(Lot) /\ debts[w] \in Seq(Debt)
  BY <1>1
<1>3. IsFiniteSet(DOMAIN holds) /\ IsFiniteSet(DOMAIN ledger)
  BY <1>1, LotsFinite, Zenon
<1>4. \A h \in DOMAIN holds : holds[h] \in HoldRow
  BY <1>1
<1>5. \A h \in DOMAIN holds : holds[h].wallet \in Wallets /\ holds[h].back \in Seq(Lot)
  BY <1>4, Zenon DEF HoldRow
<1>6. \A ls \in Seq(Lot) : Worth(ls) \in Nat
  BY Sweeping, Zenon
<1>7. \A ds \in Seq(Debt) : Billed(ds) \in Nat
  <2>1. \A ds \in Seq(DebtRecords) :
          IsFiniteSet(DOMAIN ds) /\ \A d \in DOMAIN ds : ds[d].billed \in Nat
    BY LotsFinite, DebtFields, Zenon
  <2>2. \A ds \in Seq(DebtRecords) :
          SumFunctionOnSet(Billings(ds), DOMAIN ds) \in Nat
    BY <2>1, SumNat DEF Billings
  <2> QED BY <2>2, SumOfFunction, Records DEF Billed, Billings
<1>8. SumFunction(Accounts) \in Int
  <2>1. \A w \in Wallets : Accounts[w] \in Int
    BY <1>2, <1>6, <1>7 DEF Accounts
  <2>2. DOMAIN Accounts = Wallets
    BY DEF Accounts
  <2> QED BY <2>1, <2>2, SumOfFunction, SumInt, Records
<1>9. SumFunction(Reserves) \in Int
  <2>1. \A h \in DOMAIN holds : Reserves[h] \in Int
    BY <1>5, <1>6 DEF Reserves
  <2>2. DOMAIN Reserves = DOMAIN holds
    BY DEF Reserves
  <2> QED BY <1>3, <2>1, <2>2, SumOfFunction, SumInt
<1>10. \A r \in DOMAIN ledger : ledger[r] \in LedgerRow
  BY <1>1
<1>11. Posted(ledger) \in Int
  <2>1. \A r \in DOMAIN ledger : Posts(ledger)[r] \in Int
    BY <1>10 DEF Posts, LedgerRow
  <2>2. DOMAIN Posts(ledger) = DOMAIN ledger
    BY DEF Posts
  <2> QED BY <1>3, <2>1, <2>2, SumOfFunction, SumInt DEF Posted
<1> QED BY <1>1, <1>2, <1>3, <1>4, <1>5, <1>6, <1>7, <1>8, <1>9, <1>10, <1>11, Zenon

\* Where the wallets stand when one account changes by k.
LEMMA AccountsMove ==
  ASSUME MoneyInv, NEW f, f = Accounts', NEW w \in Wallets, NEW k \in Int,
         f[w] = Accounts[w] + k,
         \A x \in Wallets : x # w => f[x] = Accounts[x]
  PROVE  SumFunction(Accounts') = SumFunction(Accounts) + k
<1>1. DOMAIN Accounts = Wallets /\ DOMAIN Accounts' = Wallets
  BY DEF Accounts
<1>2. \A x \in Wallets : Accounts[x] \in Int
  <2>1. \A x \in Wallets : Worth(lots[x]) \in Nat /\ Billed(debts[x]) \in Nat
    BY Typed, Zenon
  <2> QED BY <2>1 DEF Accounts
<1>3. IsFiniteSet(Wallets)
  BY Records
<1> QED BY <1>1, <1>2, <1>3, SumMoves

\* The lots and debts of w become new and nd, which are worth k more.
Gains(w, new, nd, k) ==
  Worth(new) + Billed(nd) = Worth(lots[w]) + Billed(debts[w]) + k

\* A service at one wallet, whose cache it computes again.
LEMMA WalletMoves ==
  ASSUME MoneyInv, NEW w \in Wallets, NEW new \in Seq(Lot), NEW nd \in Seq(Debt),
         lots' = [lots EXCEPT ![w] = new], debts' = [debts EXCEPT ![w] = nd],
         SyncBalance(w),
         GrantRows \subseteq GrantRows', Grants(new) \subseteq GrantRows',
         NEW k \in Int, Gains(w, new, nd, k)
  PROVE  /\ balance' \in [Wallets -> Nat]
         /\ lots' \in [Wallets -> Seq(Lot)] /\ debts' \in [Wallets -> Seq(Debt)]
         /\ \A x \in Wallets : Grants(lots'[x]) \subseteq GrantRows'
         /\ lots'[w] = new /\ \A x \in Wallets \ {w} : lots'[x] = lots[x]
         /\ SumFunction(Accounts') = SumFunction(Accounts) + k
<1>1. /\ lots \in [Wallets -> Seq(Lot)] /\ debts \in [Wallets -> Seq(Debt)]
      /\ balance \in [Wallets -> Nat]
      /\ \A x \in Wallets : /\ Grants(lots[x]) \subseteq GrantRows
                            /\ Worth(lots[x]) \in Nat /\ Billed(debts[x]) \in Nat
  BY Typed, Zenon
<1>2. /\ lots' \in [Wallets -> Seq(Lot)] /\ debts' \in [Wallets -> Seq(Debt)]
      /\ lots'[w] = new /\ debts'[w] = nd
      /\ \A x \in Wallets \ {w} : lots'[x] = lots[x] /\ debts'[x] = debts[x]
  BY <1>1
<1>3. \A x \in Wallets : Grants(lots'[x]) \subseteq GrantRows'
  BY <1>1, <1>2
<1>4. balance' \in [Wallets -> Nat]
  <2>1. LiveBalance(lots'[w], clock) \in Nat
    BY <1>2, LiveBalanceNat, Records, Zenon
  <2> QED BY <1>1, <2>1, Zenon DEF SyncBalance
<1>6. PICK f : f = Accounts'
  OBVIOUS
<1>7. f[w] = Accounts[w] + k /\ \A x \in Wallets : x # w => f[x] = Accounts[x]
  <2>1. Accounts[w] = Worth(lots[w]) + Billed(debts[w])
        /\ f[w] = Worth(new) + Billed(nd)
    BY <1>2, <1>6 DEF Accounts
  <2>2. \A x \in Wallets : x # w => f[x] = Accounts[x]
    BY <1>2, <1>6 DEF Accounts
  <2> QED BY <2>1, <2>2, Zenon DEF Gains
<1>8. SumFunction(Accounts') = SumFunction(Accounts) + k
  BY <1>6, <1>7, AccountsMove, Zenon
<1> QED BY <1>2, <1>3, <1>4, <1>8, Zenon

\* Holds that stay as they are.
LEMMA HoldsStay ==
  ASSUME MoneyInv, UNCHANGED holds, GrantRows \subseteq GrantRows'
  PROVE  /\ holds' \in Seq(HoldRow) /\ BacksFresh'
         /\ \A h \in DOMAIN holds' : Grants(holds'[h].back) \subseteq GrantRows'
         /\ SumFunction(Reserves') = SumFunction(Reserves)
         /\ DOMAIN holds \subseteq DOMAIN holds'
<1>1. holds \in Seq(HoldRow) /\ BacksFresh
      /\ \A h \in DOMAIN holds : Grants(holds[h].back) \subseteq GrantRows
  BY Zenon DEF MoneyInv, MoneyTyped
<1>2. BacksFresh'
  BY <1>1, Zenon DEF BacksFresh
<1>3. Reserves' = Reserves
  BY Zenon DEF Reserves
<1> QED BY <1>1, <1>2, <1>3

\* What nothing but a grant adds to when the holds stay as they are.
LEMMA CarriedByLots ==
  ASSUME NEW S, UNCHANGED holds,
         \A w \in Wallets : Held(lots'[w]) \subseteq Held(lots[w]) \cup S
  PROVE  \A w \in Wallets : \A g : Has(w, g)' => Has(w, g) \/ g \in S
BY DEF Has, HoldsIn

-------------------------------------------------------------------------------
\* credit(): the row says what the lot gives; what it pays of debts it bills.
LEMMA CreditMoney ==
  ASSUME MoneyInv, NEW u \in Users, NEW c \in Amounts, NEW exp \in Deadlines,
         NEW bound \in BOOLEAN, Credit(u, c, exp, bound)
  PROVE  /\ MoneyStep
         /\ \E w \in WalletFor(u) :
              /\ owner' = [owner EXCEPT ![w] = u]
              /\ ledger'[NextRow].user = u /\ ledger'[NextRow].merge \notin Merges
              /\ DOMAIN ledger' = DOMAIN ledger \cup {NextRow}
              /\ \A x \in Wallets : \A g : Has(x, g)' =>
                   Has(x, g) \/ (x = w /\ g = NextRow)
<1> DEFINE ls(w) == Append(ExpireDueLots(lots[w], clock), Granted(c, exp))
           row(w) == [Entry(w, "grant", c, u) EXCEPT !.bound = bound]
<1>1. PICK w \in WalletFor(u) :
        /\ ledger' = Append(ledger, row(w))
        /\ owner' = [owner EXCEPT ![w] = u]
        /\ lots' = [lots EXCEPT ![w] = LotsAfterSettling(ls(w), debts[w], clock)]
        /\ debts' = [debts EXCEPT ![w] = SettleDebts(ls(w), debts[w], clock)]
        /\ SyncBalance(w) /\ UNCHANGED holds
  BY DEF Credit, Post
<1>2. w \in Wallets
  BY DEF WalletFor, WalletsOf, Unused
<1>3. /\ ledger \in Seq(LedgerRow) /\ lots[w] \in Seq(Lot) /\ debts[w] \in Seq(Debt)
      /\ Worth(lots[w]) \in Nat /\ Billed(debts[w]) \in Nat
      /\ Grants(lots[w]) \subseteq GrantRows
      /\ SumFunction(Accounts) \in Int /\ SumFunction(Reserves) \in Int
      /\ Posted(ledger) \in Int
  BY <1>2, Typed, Zenon
<1>4. c \in Nat /\ exp \in 0..Never /\ NextRow \in Nat
  <2>1. Len(ledger) \in Nat
    BY <1>3, LotsFinite, Zenon
  <2> QED BY <2>1, CreditsAssumption DEF NextRow
<1>5. PICK e : e = row(w)
  OBVIOUS
<1>6. /\ e \in LedgerRow /\ e.type = "grant" /\ e.delta = c /\ e.user = u
      /\ e.merge = <<>> /\ <<>> \notin Merges
  <2>1. Entry(w, "grant", c, u) \in LedgerRow
    <3>1. c \in Int /\ FALSE \in BOOLEAN /\ "grant" \in {"grant", "charge", "refund", "merge"}
          /\ <<>> \in Merges \cup {<<>>}
      BY <1>4
    <3> QED BY <1>2, <3>1, Zenon DEF Entry, LedgerRow
  <2>2. e \in LedgerRow
    BY <1>5, <2>1, Zenon DEF LedgerRow
  <2>3. e.type = "grant" /\ e.delta = c /\ e.user = u /\ e.merge = <<>>
    BY <1>5, Zenon DEF Entry
  <2>4. <<>> \notin Merges
    BY AccountsAssumption
  <2> QED BY <2>2, <2>3, <2>4, Zenon
<1>7. ledger' = Append(ledger, e)
  BY <1>1, <1>5, Zenon
<1>8. PICK all, new, nd :
        /\ all = ls(w) /\ new = LotsAfterSettling(all, debts[w], clock)
        /\ nd = SettleDebts(all, debts[w], clock)
        /\ lots' = [lots EXCEPT ![w] = new] /\ debts' = [debts EXCEPT ![w] = nd]
  BY <1>1, Zenon
<1>9. /\ all \in Seq(Lot) /\ Worth(all) = Worth(lots[w]) + c
      /\ Grants(all) \subseteq Grants(lots[w]) \cup {NextRow}
      /\ Held(all) \subseteq Held(lots[w]) \cup {NextRow}
  <2>1. PICK swept, l : swept = ExpireDueLots(lots[w], clock) /\ l = Granted(c, exp)
    OBVIOUS
  <2>2. /\ Fewer(lots[w], swept) /\ Worth(swept) = Worth(lots[w])
    BY <1>3, <2>1, Sweeping, Zenon
  <2>3. l \in Lot /\ l.rem = c /\ l.expired = 0 /\ l.grant = NextRow
    <3>1. 0 \in Nat
      OBVIOUS
    <3> QED BY <1>4, <2>1, <3>1, Zenon DEF Granted, Lot
  <2>4. all = Append(swept, l)
    BY <1>8, <2>1, Zenon
  <2>5. swept \in Seq(Lot) /\ Grants(swept) \subseteq Grants(lots[w])
        /\ Held(swept) \subseteq Held(lots[w])
    BY <2>2, Zenon DEF Fewer
  <2>6. /\ all \in Seq(Lot) /\ Grants(all) = Grants(swept) \cup {l.grant}
        /\ Held(all) \subseteq Held(swept) \cup {l.grant}
        /\ Worth(all) = Worth(swept) + l.rem
    BY <2>3, <2>4, <2>5, Adding, Zenon
  <2> QED BY <2>2, <2>3, <2>5, <2>6
<1> HIDE DEF ls, row
<1>10. /\ Fewer(all, new) /\ nd \in Seq(Debt) /\ new \in Seq(Lot)
       /\ Worth(new) + Billed(nd) = Worth(all) + Billed(debts[w])
  <2>1. /\ Fewer(all, LotsAfterSettling(all, debts[w], clock))
        /\ SettleDebts(all, debts[w], clock) \in Seq(Debt)
        /\ Worth(LotsAfterSettling(all, debts[w], clock))
             + Billed(SettleDebts(all, debts[w], clock)) = Worth(all) + Billed(debts[w])
    BY <1>3, <1>9, Settling, Zenon
  <2> QED BY <1>8, <2>1, Zenon DEF Fewer
<1>11. Alike(ledger, ledger)
  BY DEF Alike
<1>12. /\ ledger' \in Seq(LedgerRow) /\ Alike(ledger, ledger') /\ RowsRight'
       /\ GrantRows \subseteq GrantRows' /\ NextRow \in GrantRows'
       /\ ledger'[NextRow] = e /\ DOMAIN ledger' = DOMAIN ledger \cup {NextRow}
       /\ Posted(ledger') = Posted(ledger) + c
  BY <1>3, <1>4, <1>6, <1>7, <1>11, PostedRow
<1>13. Grants(new) \subseteq GrantRows' /\ Held(new) \subseteq Held(lots[w]) \cup {NextRow}
  BY <1>3, <1>9, <1>10, <1>12 DEF Fewer
<1>14. /\ balance' \in [Wallets -> Nat]
       /\ lots' \in [Wallets -> Seq(Lot)] /\ debts' \in [Wallets -> Seq(Debt)]
       /\ \A x \in Wallets : Grants(lots'[x]) \subseteq GrantRows'
       /\ lots'[w] = new /\ \A x \in Wallets \ {w} : lots'[x] = lots[x]
       /\ SumFunction(Accounts') = SumFunction(Accounts) + c
  <2>1. Gains(w, new, nd, c) /\ c \in Int
    BY <1>3, <1>4, <1>9, <1>10 DEF Gains
  <2>2. /\ lots' = [lots EXCEPT ![w] = new] /\ debts' = [debts EXCEPT ![w] = nd]
        /\ SyncBalance(w) /\ new \in Seq(Lot) /\ nd \in Seq(Debt)
        /\ GrantRows \subseteq GrantRows' /\ Grants(new) \subseteq GrantRows'
    BY <1>1, <1>8, <1>10, <1>12, <1>13, Zenon
  <2> QED BY <1>2, <2>1, <2>2, WalletMoves, Zenon
<1>15. /\ holds' \in Seq(HoldRow) /\ BacksFresh'
       /\ \A h \in DOMAIN holds' : Grants(holds'[h].back) \subseteq GrantRows'
       /\ SumFunction(Reserves') = SumFunction(Reserves)
       /\ DOMAIN holds \subseteq DOMAIN holds'
  BY <1>1, <1>12, HoldsStay, Zenon
<1>16. Kept
  BY <1>3, <1>4, <1>12, <1>14, <1>15 DEF Kept, Balanced
<1>17. MoneyStep
  BY <1>12, <1>14, <1>15, <1>16, Zenon DEF MoneyStep, MoneyInv, MoneyTyped
<1>18. \A x \in Wallets : \A g : Has(x, g)' => Has(x, g) \/ (x = w /\ g = NextRow)
  <2>1. \A x \in Wallets :
          Held(lots'[x]) \subseteq Held(lots[x]) \cup (IF x = w THEN {NextRow} ELSE {})
    BY <1>13, <1>14
  <2>2. \A x \in Wallets : \A g : g \in Held(lots'[x]) =>
          g \in Held(lots[x]) \/ (x = w /\ g = NextRow)
    BY <2>1
  <2> QED BY <1>1, <2>2, Zenon DEF Has, HoldsIn
<1> QED BY <1>1, <1>6, <1>12, <1>17, <1>18, Zenon

\* The rows the services write.
LEMMA Entries ==
  ASSUME NEW w \in Wallets, NEW t \in {"grant", "charge", "refund", "merge"},
         NEW n \in Int, NEW u \in Users
  PROVE  /\ Entry(w, t, n, u) \in LedgerRow
         /\ Entry(w, t, n, u).type = t /\ Entry(w, t, n, u).delta = n
         /\ Entry(w, t, n, u).user = u /\ Entry(w, t, n, u).merge = <<>>
         /\ <<>> \notin Merges
<1>1. FALSE \in BOOLEAN /\ <<>> \in Merges \cup {<<>>}
  OBVIOUS
<1>2. Entry(w, t, n, u) \in LedgerRow
  BY <1>1, Zenon DEF Entry, LedgerRow
<1>3. <<>> \notin Merges
  BY AccountsAssumption
<1> QED BY <1>2, <1>3, Zenon DEF Entry

\* The rows a step adds name no merge.
NothingAnnounced ==
  \A r \in DOMAIN ledger' : ledger'[r].merge \in Merges => r \in DOMAIN ledger

\* debit(): the row charges what the lots give up; the rest becomes a debt.
LEMMA DebitMoney ==
  ASSUME MoneyInv, NEW u \in Users, NEW c \in Amounts, Debit(u, c)
  PROVE  MoneyStep /\ Carried /\ NothingAnnounced /\ UNCHANGED rows
<1> DEFINE swept(w) == ExpireDueLots(lots[w], clock)
           charged(w) == Clip(c, LiveBalance(swept(w), clock))
           debt(w) == [out |-> c - charged(w), init |-> c - charged(w),
                       billed |-> 0, row |-> NextRow]
<1>1. PICK w \in WalletsOf(u) :
        /\ ledger' = Append(ledger, Entry(w, "charge", -charged(w), u))
        /\ lots' = [lots EXCEPT ![w] = ConsumeLots(swept(w), charged(w), clock)]
        /\ debts' = IF charged(w) = c THEN debts
                    ELSE [debts EXCEPT ![w] = Append(debts[w], debt(w))]
        /\ SyncBalance(w) /\ UNCHANGED <<rows, holds>>
  BY DEF Debit, Post
<1>2. w \in Wallets
  BY DEF WalletsOf
<1>3. /\ ledger \in Seq(LedgerRow) /\ lots[w] \in Seq(Lot) /\ debts[w] \in Seq(Debt)
      /\ debts \in [Wallets -> Seq(Debt)]
      /\ Worth(lots[w]) \in Nat /\ Billed(debts[w]) \in Nat
      /\ Grants(lots[w]) \subseteq GrantRows
      /\ SumFunction(Accounts) \in Int /\ SumFunction(Reserves) \in Int
      /\ Posted(ledger) \in Int
  BY <1>2, Typed, Zenon
<1>4. c \in Nat /\ NextRow \in Nat
  <2>1. Len(ledger) \in Nat
    BY <1>3, LotsFinite, Zenon
  <2> QED BY <2>1, CreditsAssumption DEF NextRow
<1>5. PICK ls, b : ls = swept(w) /\ b = LiveBalance(ls, clock)
  OBVIOUS
<1>6. /\ Fewer(lots[w], ls) /\ Worth(ls) = Worth(lots[w]) /\ ls \in Seq(Lot)
      /\ b \in Nat
  <2>1. Fewer(lots[w], ls) /\ Worth(ls) = Worth(lots[w])
    BY <1>3, <1>5, Sweeping, Zenon
  <2>2. ls \in Seq(Lot)
    BY <2>1, Zenon DEF Fewer
  <2> QED BY <1>5, <2>1, <2>2, LiveBalanceNat, Records, Zenon
<1>7. PICK n \in Nat : n = charged(w) /\ n <= b /\ n <= c
  <2>1. Clip(c, b) \in Nat /\ Clip(c, b) <= b /\ Clip(c, b) <= c
    <3>1. c \in Nat /\ c \in Int /\ c >= 0 /\ b \in Nat
      BY <1>4, <1>6
    <3>2. Clip(c, b) \in 0..b /\ Clip(c, b) <= c
      BY <3>1, ClipBounds, Zenon
    <3> QED BY <3>1, <3>2
  <2>2. charged(w) = Clip(c, b)
    BY <1>5, Zenon
  <2> HIDE DEF charged
  <2> QED BY <2>1, <2>2
<1>8. PICK new : /\ new = ConsumeLots(ls, n, clock)
                 /\ lots' = [lots EXCEPT ![w] = new]
  BY <1>1, <1>5, <1>7, Zenon
<1>9. PICK nd : /\ debts' = [debts EXCEPT ![w] = nd]
                /\ nd \in Seq(Debt) /\ Billed(nd) = Billed(debts[w])
  <2>1. CASE n = c
    <3>1. debts' = [debts EXCEPT ![w] = debts[w]]
      BY <1>1, <1>3, <1>7, <2>1
    <3> QED BY <1>3, <3>1, Zenon
  <2>2. CASE n # c
    <3>1. debt(w) \in DebtRecords /\ debt(w).billed = 0
      <4>1. c - charged(w) \in Nat /\ 0 \in Nat
        BY <1>4, <1>7
      <4> QED BY <1>4, <4>1, Zenon DEF DebtRecords
    <3>2. PICK d : d = debt(w)
      OBVIOUS
    <3>3. debts' = [debts EXCEPT ![w] = Append(debts[w], d)]
      BY <1>1, <1>7, <2>2, <3>2, Zenon
    <3>4. debts[w] \in Seq(DebtRecords) /\ d \in DebtRecords /\ d.billed = 0
      BY <1>3, <3>1, <3>2, Records, Zenon
    <3>5. /\ Append(debts[w], d) \in Seq(DebtRecords)
          /\ Billed(Append(debts[w], d)) = Billed(debts[w])
      BY <3>4, AppendAddsBilled, Zenon
    <3> QED BY <3>3, <3>5, Records, Zenon
  <2> QED BY <2>1, <2>2, Zenon
<1>9k. PICK k \in Int : k = -n
  OBVIOUS
<1>10. PICK e : e = Entry(w, "charge", k, u)
  OBVIOUS
<1>11. /\ e \in LedgerRow /\ e.type = "charge" /\ e.delta = k
       /\ e.merge = <<>> /\ <<>> \notin Merges
  <2>1. "charge" \in {"grant", "charge", "refund", "merge"}
    OBVIOUS
  <2>2. /\ Entry(w, "charge", k, u) \in LedgerRow
        /\ Entry(w, "charge", k, u).type = "charge"
        /\ Entry(w, "charge", k, u).delta = k /\ Entry(w, "charge", k, u).merge = <<>>
        /\ <<>> \notin Merges
    BY <1>2, <2>1, Entries
  <2> QED BY <1>10, <2>2, Zenon
<1>12. ledger' = Append(ledger, e)
  BY <1>1, <1>7, <1>9k, <1>10, Zenon
<1> HIDE DEF swept, charged, debt
<1>13. Alike(ledger, ledger)
  BY DEF Alike
<1>14. /\ ledger' \in Seq(LedgerRow) /\ Alike(ledger, ledger') /\ RowsRight'
       /\ GrantRows \subseteq GrantRows'
       /\ ledger'[NextRow] = e /\ DOMAIN ledger' = DOMAIN ledger \cup {NextRow}
       /\ Posted(ledger') = Posted(ledger) + k
  BY <1>3, <1>7, <1>11, <1>12, <1>13, PostedRow
<1>15. /\ new \in Seq(Lot) /\ Fewer(lots[w], new) /\ Worth(new) = Worth(ls) - n
  <2>1. Fewer(ls, new) /\ Worth(new) = Worth(ls) - n
    BY <1>5, <1>6, <1>7, <1>8, Spending, Zenon
  <2> QED BY <1>6, <2>1, FewerTransitive, Zenon DEF Fewer
<1>16. Grants(new) \subseteq GrantRows' /\ Held(new) \subseteq Held(lots[w])
  BY <1>3, <1>14, <1>15, Zenon DEF Fewer
<1>17. /\ balance' \in [Wallets -> Nat]
       /\ lots' \in [Wallets -> Seq(Lot)] /\ debts' \in [Wallets -> Seq(Debt)]
       /\ \A x \in Wallets : Grants(lots'[x]) \subseteq GrantRows'
       /\ lots'[w] = new /\ \A x \in Wallets \ {w} : lots'[x] = lots[x]
       /\ SumFunction(Accounts') = SumFunction(Accounts) + k
  <2>1. Gains(w, new, nd, k)
    BY <1>3, <1>6, <1>7, <1>9, <1>9k, <1>15 DEF Gains
  <2> QED BY <1>1, <1>2, <1>8, <1>9, <1>14, <1>15, <1>16, <2>1, WalletMoves, Zenon
<1>18. /\ holds' \in Seq(HoldRow) /\ BacksFresh'
       /\ \A h \in DOMAIN holds' : Grants(holds'[h].back) \subseteq GrantRows'
       /\ SumFunction(Reserves') = SumFunction(Reserves)
       /\ DOMAIN holds \subseteq DOMAIN holds' /\ UNCHANGED holds
  BY <1>1, <1>14, HoldsStay, Zenon
<1>19. Kept
  BY <1>3, <1>14, <1>17, <1>18 DEF Kept, Balanced
<1>20. MoneyStep
  BY <1>14, <1>17, <1>18, <1>19, Zenon DEF MoneyStep, MoneyInv, MoneyTyped
<1>21. Carried
  <2>1. \A x \in Wallets : Held(lots'[x]) \subseteq Held(lots[x])
    <3>1. ASSUME NEW x \in Wallets, x # w PROVE lots'[x] = lots[x]
      BY <1>17, <3>1, Zenon
    <3>2. \A x \in Wallets : x # w => Held(lots'[x]) = Held(lots[x])
      BY <3>1, Zenon
    <3> QED BY <1>16, <1>17, <3>2, Zenon
  <2> QED BY <1>18, <2>1, Zenon DEF Carried, Has, HoldsIn
<1>22. NothingAnnounced
  BY <1>11, <1>14, Zenon DEF NothingAnnounced
<1> QED BY <1>1, <1>20, <1>21, <1>22, Zenon

\* A reservation at the end of the others.
LEMMA HoldAdded ==
  ASSUME MoneyInv, NEW x \in HoldRow, holds' = Append(holds, x),
         GrantRows \subseteq GrantRows', Grants(x.back) \subseteq GrantRows',
         \A i \in DOMAIN x.back : x.back[i].expired = 0
  PROVE  /\ holds' \in Seq(HoldRow) /\ BacksFresh'
         /\ \A h \in DOMAIN holds' : Grants(holds'[h].back) \subseteq GrantRows'
         /\ SumFunction(Reserves') = SumFunction(Reserves) + Worth(x.back)
         /\ DOMAIN holds \subseteq DOMAIN holds'
         /\ \A h \in DOMAIN holds' : \/ holds'[h] = x
                                     \/ h \in DOMAIN holds /\ holds'[h] = holds[h]
<1>1. /\ holds \in Seq(HoldRow) /\ BacksFresh
      /\ \A h \in DOMAIN holds : /\ Grants(holds[h].back) \subseteq GrantRows
                                 /\ Worth(holds[h].back) \in Nat
  BY Typed, Zenon DEF MoneyInv
<1>2. PICK n, D, H : n \in Nat /\ n = Len(holds) /\ D = 1..n /\ H = holds'
  BY <1>1, LotsFinite
<1>3. /\ H \in Seq(HoldRow) /\ DOMAIN H = D \cup {n + 1} /\ n + 1 \notin D
      /\ H[n + 1] = x /\ \A h \in D : H[h] = holds[h]
  <2>1. /\ H = Append(holds, x) /\ H \in Seq(HoldRow) /\ Len(H) = n + 1
        /\ \A h \in 1..n : H[h] = holds[h]
        /\ H[n + 1] = x
    BY <1>1, <1>2, AppendProperties
  <2>2. DOMAIN H = 1..(n + 1)
    BY <2>1
  <2>3. 1..(n + 1) = D \cup {n + 1} /\ n + 1 \notin D
    BY <1>2
  <2> QED BY <1>2, <2>1, <2>2, <2>3, Zenon
<1>4. DOMAIN holds = D /\ IsFiniteSet(D) /\ holds' = H
  BY <1>1, <1>2, LotsFinite, Zenon
<1>5. PICK new : new = n + 1
  OBVIOUS
<1>6. /\ DOMAIN H = D \cup {new} /\ new \notin D /\ H[new] = x
  BY <1>3, <1>5, Zenon
<1>7. \A h \in DOMAIN H : H[h] = x \/ (h \in D /\ H[h] = holds[h])
  BY <1>3, <1>6, Zenon
<1>8. \A h \in DOMAIN H : Grants(H[h].back) \subseteq GrantRows'
  BY <1>1, <1>4, <1>7
<1>9. BacksFresh'
  <2>1. \A h \in DOMAIN H : \A i \in DOMAIN H[h].back : H[h].back[i].expired = 0
    BY <1>1, <1>4, <1>7, Zenon DEF BacksFresh
  <2> QED BY <1>4, <2>1, Zenon DEF BacksFresh
<1>10. SumFunction(Reserves') = SumFunction(Reserves) + Worth(x.back)
  <2>1. PICK f, g : f = Reserves /\ g = Reserves'
    OBVIOUS
  <2>2. /\ DOMAIN f = D /\ DOMAIN g = D \cup {new} /\ g[new] = Worth(x.back)
        /\ \A h \in D : g[h] = f[h] /\ f[h] \in Int
    BY <1>1, <1>3, <1>4, <1>6, <2>1 DEF Reserves
  <2>3. Worth(x.back) \in Int
    <3>1. x.back \in Seq(Lot)
      BY Zenon DEF HoldRow
    <3> QED BY <3>1, Sweeping
  <2>4. SumFunctionOnSet(g, D \cup {new}) = SumFunctionOnSet(g, D) + g[new]
    <3>1. \A h \in D \cup {new} : g[h] \in Int
      BY <2>2, <2>3
    <3> QED BY <1>4, <1>6, <3>1, SumAdd, Zenon
  <2>5. SumFunctionOnSet(g, D) = SumFunctionOnSet(f, D)
    <3>1. \A h \in D : g[h] = f[h]
      BY <2>2, Zenon
    <3> QED BY <1>4, <3>1, SumEqual, Zenon
  <2>6. /\ SumFunction(Reserves) = SumFunctionOnSet(f, D)
        /\ SumFunction(Reserves') = SumFunctionOnSet(g, D \cup {new})
    BY <2>1, <2>2, SumOfFunction, Zenon
  <2> QED BY <2>2, <2>4, <2>5, <2>6, Zenon
<1> QED BY <1>3, <1>4, <1>6, <1>7, <1>8, <1>9, <1>10, Zenon

\* hold(): what the lots give up the reservation will hand back.
LEMMA HoldMoney ==
  ASSUME MoneyInv, NEW u \in Users, NEW key \in HoldKeys, NEW c \in Amounts,
         Hold(u, key, c)
  PROVE  MoneyStep /\ Carried /\ NothingAnnounced /\ UNCHANGED rows
<1> DEFINE swept(w) == ExpireDueLots(lots[w], clock)
           hold(w) == [wallet |-> w, key |-> Key(key), open |-> TRUE,
                       back |-> HoldReleaseLots(swept(w), Consumption(swept(w), c, clock))]
<1>1. PICK w \in WalletsOf(u) :
        /\ c <= LiveBalance(swept(w), clock)
        /\ holds' = Append(holds, hold(w))
        /\ lots' = [lots EXCEPT ![w] = ConsumeLots(swept(w), c, clock)]
        /\ SyncBalance(w) /\ UNCHANGED <<rows, debts, ledger>>
  BY DEF Hold
<1>2. w \in Wallets
  BY DEF WalletsOf
<1>3. /\ ledger \in Seq(LedgerRow) /\ lots[w] \in Seq(Lot) /\ debts[w] \in Seq(Debt)
      /\ debts \in [Wallets -> Seq(Debt)]
      /\ Worth(lots[w]) \in Nat /\ Billed(debts[w]) \in Nat
      /\ Grants(lots[w]) \subseteq GrantRows
      /\ SumFunction(Accounts) \in Int /\ SumFunction(Reserves) \in Int
      /\ Posted(ledger) \in Int
  BY <1>2, Typed, Zenon
<1>4. PICK n \in Nat : n = c
  BY CreditsAssumption
<1>5. PICK ls, new, back, x :
        /\ ls = swept(w) /\ new = ConsumeLots(ls, n, clock)
        /\ back = HoldReleaseLots(ls, Consumption(ls, n, clock)) /\ x = hold(w)
  OBVIOUS
<1>6. /\ n <= LiveBalance(ls, clock) /\ holds' = Append(holds, x)
      /\ lots' = [lots EXCEPT ![w] = new]
      /\ x = [wallet |-> w, key |-> Key(key), open |-> TRUE, back |-> back]
  BY <1>1, <1>4, <1>5, Zenon
<1> HIDE DEF swept, hold
<1>7. /\ Fewer(lots[w], ls) /\ Worth(ls) = Worth(lots[w]) /\ ls \in Seq(Lot)
  <2>1. Fewer(lots[w], ls) /\ Worth(ls) = Worth(lots[w])
    BY <1>3, <1>5, Sweeping, Zenon DEF swept
  <2> QED BY <2>1, Zenon DEF Fewer
<1>8. /\ new \in Seq(Lot) /\ Fewer(lots[w], new) /\ Worth(new) = Worth(ls) - n
  <2>1. Fewer(ls, new) /\ Worth(new) = Worth(ls) - n
    BY <1>5, <1>6, <1>7, Spending, Zenon
  <2> QED BY <1>7, <2>1, FewerTransitive, Zenon DEF Fewer
<1>9. /\ back \in Seq(Lot) /\ Grants(back) \subseteq Held(ls)
      /\ \A k \in DOMAIN back : back[k].expired = 0
      /\ Worth(back) = n
  <2>1. back = HoldReleaseLots(ls, Consumption(ls, n, clock))
    BY <1>5, Zenon
  <2>2. n <= LiveBalance(ls, clock) /\ ls \in Seq(Lot)
    BY <1>6, <1>7, Zenon
  <2> QED BY <2>1, <2>2, Reserving
<1>10. /\ x \in HoldRow /\ x.back = back /\ x.wallet = w
  <2>1. Key(key) \in Seq(HoldKeys \cup Wallets) /\ TRUE \in BOOLEAN
    BY DEF Key
  <2> QED BY <1>2, <1>6, <1>9, <2>1, Zenon DEF HoldRow
<1>11. /\ ledger' \in Seq(LedgerRow) /\ Alike(ledger, ledger') /\ RowsRight'
       /\ GrantRows' = GrantRows /\ Posted(ledger') = Posted(ledger)
       /\ NothingAnnounced
  <2>1. RowsRight /\ ledger' = ledger
    BY <1>1, Zenon DEF MoneyInv
  <2> QED BY <1>3, <2>1, Zenon DEF Alike, RowsRight, GrantRows, NothingAnnounced
<1>12. /\ Grants(new) \subseteq GrantRows' /\ Held(new) \subseteq Held(lots[w])
       /\ Grants(back) \subseteq GrantRows' /\ Grants(back) \subseteq Held(lots[w])
  <2>1. Held(lots[w]) \subseteq Grants(lots[w])
    BY DEF Held, Grants
  <2>2. Held(ls) \subseteq Held(lots[w]) /\ Held(new) \subseteq Held(lots[w])
        /\ Grants(new) \subseteq Grants(lots[w])
    BY <1>7, <1>8, Zenon DEF Fewer
  <2> QED BY <1>3, <1>9, <1>11, <2>1, <2>2
<1>13. /\ balance' \in [Wallets -> Nat]
       /\ lots' \in [Wallets -> Seq(Lot)] /\ debts' \in [Wallets -> Seq(Debt)]
       /\ \A y \in Wallets : Grants(lots'[y]) \subseteq GrantRows'
       /\ lots'[w] = new /\ \A y \in Wallets \ {w} : lots'[y] = lots[y]
       /\ SumFunction(Accounts') = SumFunction(Accounts) - n
  <2>1. PICK k \in Int : k = -n
    OBVIOUS
  <2>2. Gains(w, new, debts[w], k)
    BY <1>3, <1>7, <1>8, <2>1 DEF Gains
  <2>3. debts' = [debts EXCEPT ![w] = debts[w]]
    BY <1>1, <1>3
  <2>4. GrantRows \subseteq GrantRows'
    BY <1>11
  <2>5. /\ balance' \in [Wallets -> Nat]
        /\ lots' \in [Wallets -> Seq(Lot)] /\ debts' \in [Wallets -> Seq(Debt)]
        /\ \A y \in Wallets : Grants(lots'[y]) \subseteq GrantRows'
        /\ lots'[w] = new /\ \A y \in Wallets \ {w} : lots'[y] = lots[y]
        /\ SumFunction(Accounts') = SumFunction(Accounts) + k
    BY <1>1, <1>2, <1>3, <1>6, <1>8, <1>12, <2>2, <2>3, <2>4, WalletMoves, Zenon
  <2>6. SumFunction(Accounts') = SumFunction(Accounts) - n
    BY <1>3, <2>1, <2>5
  <2> QED BY <2>5, <2>6, Zenon
<1>14. /\ holds' \in Seq(HoldRow) /\ BacksFresh'
       /\ \A h \in DOMAIN holds' : Grants(holds'[h].back) \subseteq GrantRows'
       /\ SumFunction(Reserves') = SumFunction(Reserves) + n
       /\ DOMAIN holds \subseteq DOMAIN holds'
       /\ \A h \in DOMAIN holds' : \/ holds'[h] = x
                                   \/ h \in DOMAIN holds /\ holds'[h] = holds[h]
  <2>1. /\ GrantRows \subseteq GrantRows' /\ Grants(x.back) \subseteq GrantRows'
        /\ \A i \in DOMAIN x.back : x.back[i].expired = 0 
    BY <1>9, <1>10, <1>11, <1>12, Zenon
  <2> QED BY <1>6, <1>9, <1>10, <2>1, HoldAdded, Zenon
<1>15. Kept
  BY <1>3, <1>11, <1>13, <1>14 DEF Kept, Balanced
<1>16. MoneyStep
  BY <1>11, <1>13, <1>14, <1>15, Zenon DEF MoneyStep, MoneyInv, MoneyTyped
<1>17. Carried
  <2>1. \A y \in Wallets : y # w => lots'[y] = lots[y]
    BY <1>13
  <2>2. ASSUME NEW y \in Wallets, NEW g, g \in Held(lots'[y])
        PROVE  g \in Held(lots[y])
    <3>1. CASE y = w
      BY <1>12, <1>13, <2>2, <3>1
    <3>2. CASE y # w
      BY <2>1, <2>2, <3>2, Zenon
    <3> QED BY <3>1, <3>2
  <2>3. ASSUME NEW y \in Wallets, NEW g, NEW h \in HoldsIn(y)',
               holds'[h].open, g \in Grants(holds'[h].back)
        PROVE  Has(y, g)
    <3>1. h \in DOMAIN holds' /\ holds'[h].wallet = y
      BY DEF HoldsIn
    <3>2. CASE holds'[h] = x
      <4>1. y = w /\ g \in Held(lots[w])
        BY <1>10, <1>12, <2>3, <3>1, <3>2
      <4> QED BY <4>1, Zenon DEF Has
    <3>3. CASE h \in DOMAIN holds /\ holds'[h] = holds[h]
      BY <2>3, <3>1, <3>3, Zenon DEF Has, HoldsIn
    <3> QED BY <1>14, <3>1, <3>2, <3>3, Zenon
  <2> QED BY <2>2, <2>3, Zenon DEF Carried, Has
<1> QED BY <1>1, <1>11, <1>16, <1>17, Zenon

\* What a call under way knows.
LEMMA CallsName ==
  ASSUME NEW p \in Procs, at[p] \in Calls
  PROVE  /\ at[p].step = "release" => at[p].hold \in DOMAIN holds /\ at[p].wallet \in Wallets
         /\ at[p].step = "clawback" => at[p].row \in GrantRows /\ at[p].wallet \in Wallets
         /\ at[p].step = "patch" => /\ at[p].wallet \in Wallets /\ at[p].owner \in Patchers
                                    /\ at[p].merged = NoWallet /\ at[p].balance \in Nat
         /\ at[p].step = "merge" => /\ at[p].merge \in Merges
                                    /\ at[p].from \in Wallets /\ at[p].into \in Wallets
BY DEF Calls, Idle

\* A step that leaves the credits where they are.
LEMMA Quiet ==
  ASSUME MoneyInv, UNCHANGED <<lots, debts, holds, ledger>>,
         balance' \in [Wallets -> Nat]
  PROVE  MoneyStep /\ Carried /\ NothingAnnounced
<1>1. MoneyTyped /\ RowsRight /\ BacksFresh
  BY DEF MoneyInv
<1>2. GrantRows' = GrantRows /\ Accounts' = Accounts /\ Reserves' = Reserves
  BY DEF GrantRows, Accounts, Reserves
<1>3. MoneyInv'
  BY <1>1, <1>2, Zenon DEF MoneyInv, MoneyTyped, RowsRight, BacksFresh
<1>4. Kept
  BY <1>2, Zenon DEF Kept, Balanced
<1>5. Alike(ledger, ledger')
  BY DEF Alike
<1>6. Carried
  BY DEF Carried, Has, HoldsIn
<1> QED BY <1>3, <1>4, <1>5, <1>6, Zenon DEF MoneyStep, NothingAnnounced

Sweep(f, w) == [f EXCEPT ![w] = ExpireDueLots(@, clock)]

\* A sweep of one wallet.
LEMMA SweptWallet ==
  ASSUME NEW f \in [Wallets -> Seq(Lot)], NEW w \in Wallets, NEW g, g = Sweep(f, w)
  PROVE  /\ g \in [Wallets -> Seq(Lot)]
         /\ \A x \in Wallets : Fewer(f[x], g[x]) /\ Worth(g[x]) = Worth(f[x])
<1>1. PICK ls : ls = ExpireDueLots(f[w], clock)
  OBVIOUS
<1>2. f[w] \in Seq(Lot)
  OBVIOUS
<1>3. Fewer(f[w], ls) /\ Worth(ls) = Worth(f[w]) /\ ls \in Seq(Lot)
  BY <1>1, <1>2, Sweeping, Zenon DEF Fewer
<1>4. g = [f EXCEPT ![w] = ls]
  BY <1>1, Zenon DEF Sweep
<1>5. g \in [Wallets -> Seq(Lot)] /\ g[w] = ls /\ \A x \in Wallets : x # w => g[x] = f[x]
  BY <1>3, <1>4
<1>6. ASSUME NEW x \in Wallets
      PROVE  Fewer(f[x], g[x]) /\ Worth(g[x]) = Worth(f[x])
  <2>1. CASE x = w
    BY <1>3, <1>5, <2>1, Zenon
  <2>2. CASE x # w
    <3>1. f[x] \in Seq(Lot)
      OBVIOUS
    <3> QED BY <1>5, <2>2, <3>1, FewerReflexive, Zenon
  <2> QED BY <2>1, <2>2
<1> QED BY <1>5, <1>6

\* Nothing is no lots.
LEMMA NoLots ==
  /\ <<>> \in Seq(Lot) /\ Worth(<<>>) = 0
  /\ Grants(<<>>) = {} /\ DOMAIN (<<>>) = {}
<1>1. <<>> \in Seq(Lot) /\ DOMAIN (<<>>) = {}
  OBVIOUS
<1>2. Worth(<<>>) = 0
  BY <1>1, SumEmpty, Zenon DEF Worth
<1> QED BY <1>1, <1>2 DEF Grants

\* A hold that is closed hands back what it held.
LEMMA HoldClosed ==
  ASSUME MoneyInv, NEW h \in DOMAIN holds,
         holds' = [holds EXCEPT ![h].open = FALSE, ![h].back = <<>>],
         GrantRows \subseteq GrantRows'
  PROVE  /\ holds' \in Seq(HoldRow) /\ BacksFresh'
         /\ \A i \in DOMAIN holds' : Grants(holds'[i].back) \subseteq GrantRows'
         /\ SumFunction(Reserves') = SumFunction(Reserves) - Worth(holds[h].back)
         /\ DOMAIN holds \subseteq DOMAIN holds'
         /\ \A i \in DOMAIN holds' : holds'[i].open =>
               i # h /\ i \in DOMAIN holds /\ holds'[i] = holds[i]
<1>1. /\ holds \in Seq(HoldRow) /\ BacksFresh
      /\ \A i \in DOMAIN holds : /\ Grants(holds[i].back) \subseteq GrantRows
                                 /\ Worth(holds[i].back) \in Nat
                                 /\ holds[i] \in HoldRow
      /\ IsFiniteSet(DOMAIN holds)
  BY Typed, Zenon DEF MoneyInv
<1>2. PICK H : H = holds'
  OBVIOUS
<1>3. /\ DOMAIN H = DOMAIN holds /\ \A i \in DOMAIN holds : i # h => H[i] = holds[i]
      /\ H[h] = [holds[h] EXCEPT !.open = FALSE, !.back = <<>>]
  BY <1>2
<1>4. H[h] \in HoldRow /\ H[h].open = FALSE /\ H[h].back = <<>>
  <2>1. FALSE \in BOOLEAN
    OBVIOUS
  <2> QED BY <1>1, <1>3, <2>1, NoLots, Zenon DEF HoldRow
<1>5. H \in Seq(HoldRow)
  <2>1. \A i \in DOMAIN holds : H[i] \in HoldRow
    BY <1>1, <1>3, <1>4, Zenon
  <2>2. DOMAIN holds = 1..Len(holds) /\ Len(holds) \in Nat
    BY <1>1, LotsFinite, Zenon
  <2>3. H = [i \in 1..Len(holds) |-> H[i]]
    BY <1>2, <1>3, <2>2
  <2> QED BY <2>1, <2>2, <2>3, SeqDef
<1>6. \A i \in DOMAIN H : /\ H[i].open => i # h /\ i \in DOMAIN holds /\ H[i] = holds[i]
                          /\ Grants(H[i].back) \subseteq GrantRows'
  <2>1. Grants(H[h].back) = {} 
    BY <1>4, NoLots, Zenon
  <2> QED BY <1>1, <1>3, <1>4, <2>1
<1>7. BacksFresh'
  <2>1. \A i \in DOMAIN H : \A k \in DOMAIN H[i].back : H[i].back[k].expired = 0
    <3>1. ASSUME NEW i \in DOMAIN H, NEW k \in DOMAIN H[i].back
          PROVE  H[i].back[k].expired = 0
      <4>1. CASE i = h
        BY <1>4, <3>1, <4>1, NoLots
      <4>2. CASE i # h
        BY <1>1, <1>3, <3>1, <4>2, Zenon DEF BacksFresh
      <4> QED BY <4>1, <4>2
    <3> QED BY <3>1
  <2>2. holds' = H
    BY <1>2
  <2> QED BY <2>1, <2>2, Zenon DEF BacksFresh
<1>8. SumFunction(Reserves') = SumFunction(Reserves) - Worth(holds[h].back)
  <2>0. PICK n \in Nat : n = Worth(holds[h].back)
    BY <1>1
  <2>1. PICK f, g : f = Reserves /\ g = Reserves'
    OBVIOUS
  <2>2. PICK k \in Int : k = -n
    OBVIOUS
  <2>3. /\ DOMAIN f = DOMAIN holds /\ DOMAIN g = DOMAIN holds
        /\ \A i \in DOMAIN holds : f[i] = Worth(holds[i].back) /\ g[i] = Worth(H[i].back)
    BY <1>2, <1>3, <2>1 DEF Reserves
  <2>4. /\ \A i \in DOMAIN holds : f[i] \in Int
        /\ \A i \in DOMAIN holds : i # h => g[i] = f[i]
        /\ g[h] = f[h] + k
    <3>1. f[h] = n /\ g[h] = 0
      BY <1>4, <2>0, <2>3, NoLots, Zenon
    <3> QED BY <1>1, <1>3, <2>2, <2>3, <3>1
  <2>5. SumFunction(g) = SumFunction(f) + k
    BY <1>1, <2>3, <2>4, SumMoves
  <2>6. SumFunction(f) \in Int
    BY <2>1, Typed, Zenon
  <2> HIDE DEF Reserves
  <2> QED BY <2>0, <2>1, <2>2, <2>5, <2>6
<1> QED BY <1>2, <1>3, <1>5, <1>6, <1>7, <1>8

\* release(), with a lock that may be another wallet's: the hold's wallet gets
\* what the hold held, and the wallet that was locked is swept.
LEMMA ReleaseMoney ==
  ASSUME MoneyInv, NEW p \in Procs, at[p] \in Calls, Release(p)
  PROVE  MoneyStep /\ Carried /\ NothingAnnounced /\ UNCHANGED rows
<1>1. PICK h, w : h = at[p].hold /\ w = at[p].wallet
  OBVIOUS
<1>2. h \in DOMAIN holds /\ w \in Wallets /\ UNCHANGED rows
  BY <1>1, CallsName, Zenon DEF Release
<1>3. CASE ~holds[h].open
  <2>1. UNCHANGED money
    BY <1>1, <1>3, Zenon DEF Release
  <2>2. balance' \in [Wallets -> Nat] /\ UNCHANGED <<lots, debts, holds, ledger>>
    BY <2>1, Typed, Zenon DEF money
  <2> QED BY <1>2, <2>2, Quiet, Zenon
<1>4. CASE holds[h].open
  <2>1. PICK home, back, a, b, c :
          /\ home = holds[h].wallet /\ back = holds[h].back
          /\ a = Sweep(lots, w)
          /\ b = [a EXCEPT ![home] = @ \o back]
          /\ c = Sweep(b, w)
    OBVIOUS
  <2>2. /\ lots' = c /\ SyncBalance(w) /\ UNCHANGED <<debts, ledger>>
        /\ holds' = [holds EXCEPT ![h].open = FALSE, ![h].back = <<>>]
    BY <1>1, <1>4, <2>1, Zenon DEF Release, Sweep
  <2>3. /\ ledger \in Seq(LedgerRow) /\ lots \in [Wallets -> Seq(Lot)]
        /\ debts \in [Wallets -> Seq(Debt)] /\ balance \in [Wallets -> Nat]
        /\ \A x \in Wallets : /\ Worth(lots[x]) \in Nat /\ Billed(debts[x]) \in Nat
                              /\ Grants(lots[x]) \subseteq GrantRows
        /\ home \in Wallets /\ back \in Seq(Lot) /\ Worth(back) \in Nat
        /\ Grants(back) \subseteq GrantRows
        /\ SumFunction(Accounts) \in Int /\ SumFunction(Reserves) \in Int
        /\ Posted(ledger) \in Int
    BY <1>2, <2>1, Typed, Zenon
  <2>4. /\ a \in [Wallets -> Seq(Lot)]
        /\ \A x \in Wallets : Fewer(lots[x], a[x]) /\ Worth(a[x]) = Worth(lots[x])
    <3>1. lots \in [Wallets -> Seq(Lot)] /\ w \in Wallets /\ a = Sweep(lots, w)
      BY <1>2, <2>1, <2>3, Zenon
    <3> QED BY <3>1, SweptWallet
  <2>5. /\ b \in [Wallets -> Seq(Lot)] /\ \A x \in Wallets : x # home => b[x] = a[x]
        /\ Grants(b[home]) = Grants(a[home]) \cup Grants(back)
        /\ Held(b[home]) = Held(a[home]) \cup Held(back)
        /\ Worth(b[home]) = Worth(a[home]) + Worth(back)
    <3>1. PICK ls : ls = a[home] \o back
      OBVIOUS
    <3>2. a[home] \in Seq(Lot)
      BY <2>3, <2>4
    <3>3. /\ ls \in Seq(Lot) /\ Grants(ls) = Grants(a[home]) \cup Grants(back)
          /\ Held(ls) = Held(a[home]) \cup Held(back)
          /\ Worth(ls) = Worth(a[home]) + Worth(back)
      BY <2>3, <3>1, <3>2, Joining, Zenon
    <3>4. b = [a EXCEPT ![home] = ls]
      BY <2>1, <3>1, Zenon
    <3>5. b \in [Wallets -> Seq(Lot)] /\ b[home] = ls
          /\ \A x \in Wallets : x # home => b[x] = a[x]
      BY <2>3, <2>4, <3>3, <3>4
    <3> QED BY <3>3, <3>5, Zenon
  <2>6. /\ c \in [Wallets -> Seq(Lot)]
        /\ \A x \in Wallets : Fewer(b[x], c[x]) /\ Worth(c[x]) = Worth(b[x])
    <3>1. b \in [Wallets -> Seq(Lot)] /\ w \in Wallets /\ c = Sweep(b, w)
      BY <1>2, <2>1, <2>5, Zenon
    <3> QED BY <3>1, SweptWallet
  <2>7. GrantRows' = GrantRows /\ Posted(ledger') = Posted(ledger)
        /\ Alike(ledger, ledger') /\ RowsRight' /\ NothingAnnounced
    <3>1. RowsRight /\ ledger' = ledger
      BY <2>2, Zenon DEF MoneyInv
    <3> QED BY <3>1, Zenon DEF Alike, RowsRight, GrantRows, NothingAnnounced
  <2>8. ASSUME NEW x \in Wallets
        PROVE  /\ Grants(c[x]) \subseteq GrantRows'
               /\ Held(c[x]) \subseteq Held(lots[x]) \cup (IF x = home THEN Held(back) ELSE {})
               /\ Worth(c[x]) = Worth(lots[x]) + (IF x = home THEN Worth(back) ELSE 0)
    <3>1. /\ Grants(c[x]) \subseteq Grants(b[x]) /\ Held(c[x]) \subseteq Held(b[x])
          /\ Grants(a[x]) \subseteq Grants(lots[x]) /\ Held(a[x]) \subseteq Held(lots[x])
          /\ Worth(c[x]) = Worth(b[x]) /\ Worth(a[x]) = Worth(lots[x])
      BY <2>4, <2>6, Zenon DEF Fewer
    <3>2. CASE x = home
      BY <2>3, <2>5, <2>7, <3>1, <3>2
    <3>3. CASE x # home
      <4>1. b[x] = a[x]
        BY <2>5, <3>3, Zenon
      <4>2. Worth(lots[x]) \in Nat /\ Grants(lots[x]) \subseteq GrantRows'
        BY <2>3, <2>7
      <4> QED BY <3>1, <3>3, <4>1, <4>2
    <3> QED BY <3>2, <3>3, Zenon
  <2>9. balance' \in [Wallets -> Nat]
    <3>1. LiveBalance(lots'[w], clock) \in Nat
      <4>1. c[w] \in Seq(Lot)
        BY <1>2, <2>6
      <4> QED BY <2>2, <4>1, LiveBalanceNat, Records, Zenon
    <3> QED BY <2>2, <2>3, <3>1, Zenon DEF SyncBalance
  <2>10. SumFunction(Accounts') = SumFunction(Accounts) + Worth(back)
    <3>1. PICK k \in Int : k = Worth(back)
      BY <2>3
    <3>2. PICK f : f = Accounts'
      OBVIOUS
    <3>3. \A x \in Wallets : /\ f[x] = Worth(c[x]) + Billed(debts[x])
                             /\ Accounts[x] = Worth(lots[x]) + Billed(debts[x])
      BY <2>2, <3>2 DEF Accounts
    <3>4. f[home] = Accounts[home] + k /\ \A x \in Wallets : x # home => f[x] = Accounts[x]
      <4>1. Worth(c[home]) = Worth(lots[home]) + k
        BY <2>3, <2>8, <3>1
      <4>2. f[home] = Accounts[home] + k
        BY <2>3, <3>3, <4>1
      <4>3. ASSUME NEW x \in Wallets, x # home PROVE f[x] = Accounts[x]
        <5>1. Worth(c[x]) = Worth(lots[x])
          BY <2>3, <2>8, <4>3
        <5> QED BY <3>3, <5>1, Zenon
      <4> QED BY <4>2, <4>3, Zenon
    <3>5. SumFunction(Accounts') = SumFunction(Accounts) + k
      BY <2>3, <3>2, <3>4, AccountsMove, Zenon
    <3> QED BY <3>1, <3>5, Zenon
  <2>11. /\ holds' \in Seq(HoldRow) /\ BacksFresh'
         /\ \A i \in DOMAIN holds' : Grants(holds'[i].back) \subseteq GrantRows'
         /\ SumFunction(Reserves') = SumFunction(Reserves) - Worth(back)
         /\ DOMAIN holds \subseteq DOMAIN holds'
         /\ \A i \in DOMAIN holds' : holds'[i].open =>
               i # h /\ i \in DOMAIN holds /\ holds'[i] = holds[i]
    <3>1. GrantRows \subseteq GrantRows'
      BY <2>7
    <3> QED BY <1>2, <2>1, <2>2, <3>1, HoldClosed, Zenon
  <2>12. Kept
    BY <2>3, <2>7, <2>10, <2>11 DEF Kept, Balanced
  <2>13. MoneyInv'
    <3>1. \A x \in Wallets : Grants(lots'[x]) \subseteq GrantRows'
      BY <2>2, <2>8, Zenon
    <3>2. lots' \in [Wallets -> Seq(Lot)] /\ debts' \in [Wallets -> Seq(Debt)]
          /\ ledger' \in Seq(LedgerRow)
      BY <2>2, <2>3, <2>6, Zenon
    <3> QED BY <2>7, <2>9, <2>11, <3>1, <3>2, Zenon DEF MoneyInv, MoneyTyped
  <2>14. Carried
    <3>1. ASSUME NEW x \in Wallets, NEW g, g \in Held(lots'[x])
          PROVE  Has(x, g)
      <4>1. g \in Held(lots[x]) \/ (x = home /\ g \in Held(back))
        BY <2>2, <2>8, <3>1
      <4>2. Held(back) \subseteq Grants(back)
        BY DEF Held, Grants
      <4>3. h \in HoldsIn(home)
        BY <1>2, <2>1 DEF HoldsIn
      <4> QED BY <1>4, <2>1, <4>1, <4>2, <4>3, Zenon DEF Has
    <3>2. ASSUME NEW x \in Wallets, NEW g, NEW i \in HoldsIn(x)',
                 holds'[i].open, g \in Grants(holds'[i].back)
          PROVE  Has(x, g)
      <4>1. i \in DOMAIN holds' /\ holds'[i].wallet = x
        BY DEF HoldsIn
      <4>2. i \in DOMAIN holds /\ holds'[i] = holds[i]
        BY <2>11, <3>2, <4>1, Zenon
      <4> QED BY <3>2, <4>1, <4>2, Zenon DEF Has, HoldsIn
    <3> QED BY <3>1, <3>2, Zenon DEF Carried, Has
  <2> QED BY <1>2, <2>7, <2>11, <2>12, <2>13, <2>14, Zenon DEF MoneyStep
<1> QED BY <1>3, <1>4, Zenon

\* A debt of n credits, opened in a wallet's name.
LEMMA DebtOpened ==
  ASSUME MoneyInv, NEW w \in Wallets, NEW n \in Nat,
         debts' = IF n = 0 THEN debts
                  ELSE [debts EXCEPT ![w] = Append(@,
                         [out |-> n, init |-> n, billed |-> 0, row |-> NextRow])]
  PROVE  /\ debts' \in [Wallets -> Seq(Debt)]
         /\ \A x \in Wallets : Billed(debts'[x]) = Billed(debts[x])
<1>1. debts \in [Wallets -> Seq(Debt)] /\ debts[w] \in Seq(Debt)
  BY Typed, Zenon
<1>2. CASE n = 0
  BY <1>1, <1>2, Zenon
<1>3. CASE n # 0
  <2>1. PICK d, nd : /\ d = [out |-> n, init |-> n, billed |-> 0, row |-> NextRow]
                     /\ nd = Append(debts[w], d)
    OBVIOUS
  <2>2. NextRow \in Nat /\ 0 \in Nat
    <3>1. ledger \in Seq(LedgerRow)
      BY Typed, Zenon
    <3>2. Len(ledger) \in Nat
      BY <3>1, LotsFinite, Zenon
    <3> QED BY <3>2 DEF NextRow
  <2>3. d \in DebtRecords /\ d.billed = 0
    BY <2>1, <2>2, Zenon DEF DebtRecords
  <2>4. nd \in Seq(Debt) /\ Billed(nd) = Billed(debts[w])
    <3>1. debts[w] \in Seq(DebtRecords)
      BY <1>1, Records, Zenon
    <3>2. Append(debts[w], d) \in Seq(DebtRecords)
          /\ Billed(Append(debts[w], d)) = Billed(debts[w])
      BY <2>3, <3>1, AppendAddsBilled, Zenon
    <3> QED BY <2>1, <3>2, Records, Zenon
  <2>5. debts' = [debts EXCEPT ![w] = nd]
    BY <1>3, <2>1, Zenon
  <2>6. debts' \in [Wallets -> Seq(Debt)] /\ debts'[w] = nd
        /\ \A x \in Wallets : x # w => debts'[x] = debts[x]
    BY <1>1, <2>4, <2>5
  <2> QED BY <2>4, <2>6, Zenon
<1> QED BY <1>2, <1>3, Zenon

\* claw_back_grant(): the row says what was taken; what is owed becomes a debt
\* of the wallet that was locked, the lots are those of the grant's wallet.
LEMMA ClawBackMoney ==
  ASSUME MoneyInv, NEW p \in Procs, at[p] \in Calls, ClawBack(p)
  PROVE  MoneyStep /\ Carried /\ NothingAnnounced /\ UNCHANGED rows
<1> DEFINE r == at[p].row
           w == at[p].wallet
<1>2. r \in GrantRows /\ w \in Wallets /\ UNCHANGED rows
  BY CallsName, Zenon DEF ClawBack
<1>3. CASE ledger[r].clawed
  <2>1. UNCHANGED money
    BY <1>3, Zenon DEF ClawBack
  <2>2. balance' \in [Wallets -> Nat] /\ UNCHANGED <<lots, debts, holds, ledger>>
    BY <2>1, Typed, Zenon DEF money
  <2> QED BY <1>2, <2>2, Quiet, Zenon
<1>4. CASE ~ledger[r].clawed
  <2> DEFINE home == ledger[r].wallet
             u == ledger[r].user
             n == ledger[r].delta
             a == [lots EXCEPT ![w] = ExpireDueLots(@, clock)]
             ls == a[home]
             take == Walk(n, Restrict(Remaining(ls), LotsOfGrant(ls, r)),
                          CreationOrder(DOMAIN ls))
             owed == n - SumFunction(take)
             gone == SumFunctionOnSet([i \in DOMAIN ls |-> ls[i].expired],
                                      LotsOfGrant(ls, r))
             debt == owed - Clip(owed, gone)
  <2>1. /\ ledger' = Append([ledger EXCEPT ![r].clawed = TRUE],
                            Entry(w, "refund", -SumFunction(take), u))
        /\ lots' = [a EXCEPT ![home] = TakeFrom(ls, take)]
        /\ debts' = IF debt = 0 THEN debts
                    ELSE [debts EXCEPT ![w] = Append(@,
                           [out |-> debt, init |-> debt, billed |-> 0, row |-> NextRow])]
        /\ SyncBalance(w) /\ UNCHANGED holds
    BY <1>4, Zenon DEF ClawBack
  <2>2. /\ a = Sweep(lots, w) /\ ls = a[home]
        /\ take = Walk(n, Restrict(Remaining(ls), LotsOfGrant(ls, r)),
                       CreationOrder(DOMAIN ls))
        /\ owed = n - SumFunction(take)
        /\ gone = SumFunctionOnSet([i \in DOMAIN ls |-> ls[i].expired],
                                   LotsOfGrant(ls, r))
        /\ debt = owed - Clip(owed, gone)
    BY Zenon DEF Sweep
  <2> HIDE DEF home, u, n, a, ls, take, owed, gone, debt, r, w
  <2>3. /\ ledger \in Seq(LedgerRow) /\ lots \in [Wallets -> Seq(Lot)]
        /\ balance \in [Wallets -> Nat]
        /\ \A x \in Wallets : /\ Worth(lots[x]) \in Nat /\ Billed(debts[x]) \in Nat
                              /\ Grants(lots[x]) \subseteq GrantRows
        /\ SumFunction(Accounts) \in Int /\ SumFunction(Reserves) \in Int
        /\ Posted(ledger) \in Int
    BY Typed, Zenon
  <2>4. r \in DOMAIN ledger /\ home \in Wallets /\ u \in Users /\ n \in Nat
    <3>1. r \in DOMAIN ledger /\ ledger[r].type = "grant"
      BY <1>2 DEF GrantRows
    <3>2. ledger[r] \in LedgerRow /\ ledger[r].delta \in Nat
      BY <3>1, Typed, Zenon DEF MoneyInv, RowsRight
    <3> QED BY <3>1, <3>2, Zenon DEF LedgerRow, home, u, n
  <2>5. /\ a \in [Wallets -> Seq(Lot)]
        /\ \A x \in Wallets : Fewer(lots[x], a[x]) /\ Worth(a[x]) = Worth(lots[x])
    <3>1. lots \in [Wallets -> Seq(Lot)] /\ w \in Wallets /\ a = Sweep(lots, w)
      BY <1>2, <2>2, <2>3, Zenon
    <3> QED BY <3>1, SweptWallet
  <2>6. ls \in Seq(Lot) /\ Fewer(lots[home], ls) /\ Worth(ls) = Worth(lots[home])
    BY <2>2, <2>4, <2>5, Zenon DEF Fewer
  <2>7. PICK new : new = TakeFrom(ls, take)
    OBVIOUS
  <2>8. PICK t \in Nat : t = SumFunction(take) /\ t <= n /\ Fewer(ls, new)
                         /\ Worth(new) = Worth(ls) - t
    <3>1. LotsOfGrant(ls, r) \in SUBSET DOMAIN ls
      BY DEF LotsOfGrant
    <3>2. take = Walk(n, Restrict(Remaining(ls), LotsOfGrant(ls, r)),
                      CreationOrder(DOMAIN ls))
      BY <2>2, Zenon
    <3>3. /\ Fewer(ls, TakeFrom(ls, take))
          /\ SumFunction(take) \in Nat /\ SumFunction(take) <= n
          /\ Worth(TakeFrom(ls, take)) = Worth(ls) - SumFunction(take)
      BY <2>4, <2>6, <3>1, <3>2, Reclaiming
    <3> QED BY <2>7, <3>3, Zenon
  <2>9. debt \in Nat
    <3>1. gone \in Nat
      <4>1. \A i \in DOMAIN ls : ls[i].expired \in Nat
        BY <2>6, Records, LotFields, Zenon
      <4>2. LotsOfGrant(ls, r) \subseteq DOMAIN ls /\ IsFiniteSet(LotsOfGrant(ls, r))
        <5>1. LotsOfGrant(ls, r) \in SUBSET DOMAIN ls
          BY DEF LotsOfGrant
        <5> QED BY <2>6, <5>1, LotsFinite, Zenon
      <4>3. \A i \in LotsOfGrant(ls, r) : [j \in DOMAIN ls |-> ls[j].expired][i] \in Nat
        BY <4>1, <4>2
      <4> QED BY <2>2, <4>2, <4>3, SumNat
    <3>2. owed \in Nat
      BY <2>2, <2>4, <2>8
    <3>3. Clip(owed, gone) \in 0..gone /\ Clip(owed, gone) <= owed
      BY <3>1, <3>2, ClipBounds
    <3> QED BY <2>2, <3>1, <3>2, <3>3
  <2>9b. PICK k \in Int : k = -t
    OBVIOUS
  <2>10. PICK e, rs : /\ k = -t /\ e = Entry(w, "refund", k, u)
                      /\ rs = [ledger EXCEPT ![r].clawed = TRUE]
    BY <2>9b
  <2>11. ledger' = Append(rs, e) /\ lots' = [a EXCEPT ![home] = new]
    BY <2>1, <2>7, <2>8, <2>10, Zenon
  <2>12. /\ e \in LedgerRow /\ e.type = "refund" /\ e.delta = k
         /\ e.merge = <<>> /\ <<>> \notin Merges
    <3>1. "refund" \in {"grant", "charge", "refund", "merge"}
      OBVIOUS
    <3>2. /\ Entry(w, "refund", k, u) \in LedgerRow
          /\ Entry(w, "refund", k, u).type = "refund"
          /\ Entry(w, "refund", k, u).delta = k
          /\ Entry(w, "refund", k, u).merge = <<>> /\ <<>> \notin Merges
      BY <1>2, <2>4, <3>1, Entries
    <3> QED BY <2>10, <3>2, Zenon
  <2>13. rs \in Seq(LedgerRow) /\ DOMAIN rs = DOMAIN ledger /\ Alike(ledger, rs)
    <3>1. ledger[r] \in LedgerRow
      BY <2>4, Typed, Zenon
    <3>2. PICK row : row = [ledger[r] EXCEPT !.clawed = TRUE]
      OBVIOUS
    <3>3. /\ row \in LedgerRow /\ row.type = ledger[r].type /\ row.user = ledger[r].user
          /\ row.delta = ledger[r].delta /\ row.merge = ledger[r].merge
      <4>1. TRUE \in BOOLEAN
        OBVIOUS
      <4> QED BY <3>1, <3>2, <4>1, Zenon DEF LedgerRow
    <3>4. rs = [ledger EXCEPT ![r] = row]
      BY <2>4, <2>10, <3>2, Zenon
    <3>5. rs \in Seq(LedgerRow) /\ DOMAIN rs = DOMAIN ledger /\ rs[r] = row
          /\ \A q \in DOMAIN ledger : q # r => rs[q] = ledger[q]
      BY <2>3, <2>4, <3>3, <3>4
    <3> QED BY <3>3, <3>5, Zenon DEF Alike
  <2>14. /\ ledger' \in Seq(LedgerRow) /\ Alike(ledger, ledger') /\ RowsRight'
         /\ GrantRows \subseteq GrantRows'
         /\ ledger'[NextRow] = e /\ DOMAIN ledger' = DOMAIN ledger \cup {NextRow}
         /\ Posted(ledger') = Posted(ledger) + k
    BY <2>3, <2>10, <2>11, <2>12, <2>13, PostedRow
  <2>15. /\ debts' \in [Wallets -> Seq(Debt)]
         /\ \A x \in Wallets : Billed(debts'[x]) = Billed(debts[x])
    <3>1. debts' = IF debt = 0 THEN debts
                   ELSE [debts EXCEPT ![w] = Append(@,
                          [out |-> debt, init |-> debt, billed |-> 0, row |-> NextRow])]
      BY <2>1, Zenon
    <3> QED BY <1>2, <2>9, <3>1, DebtOpened
  <2>16. /\ lots' \in [Wallets -> Seq(Lot)] /\ lots'[home] = new
         /\ \A x \in Wallets : x # home => lots'[x] = a[x]
    <3>1. new \in Seq(Lot)
      BY <2>8, Zenon DEF Fewer
    <3> QED BY <2>4, <2>5, <2>11, <3>1
  <2>17. ASSUME NEW x \in Wallets
         PROVE  Fewer(lots[x], lots'[x])
    BY <2>5, <2>6, <2>8, <2>16, FewerTransitive, Zenon
  <2>18. SumFunction(Accounts') = SumFunction(Accounts) + k
    <3>1. PICK f : f = Accounts'
      OBVIOUS
    <3>2. \A x \in Wallets : /\ f[x] = Worth(lots'[x]) + Billed(debts'[x])
                             /\ Accounts[x] = Worth(lots[x]) + Billed(debts[x])
      BY <3>1 DEF Accounts
    <3>3. f[home] = Accounts[home] + k
      <4>1. Worth(new) = Worth(lots[home]) + k
        BY <2>3, <2>4, <2>6, <2>8, <2>10
      <4> QED BY <2>3, <2>4, <2>15, <2>16, <3>2, <4>1
    <3>4. ASSUME NEW x \in Wallets, x # home PROVE f[x] = Accounts[x]
      <4>1. Worth(lots'[x]) = Worth(lots[x])
        BY <2>5, <2>16, <3>4, Zenon
      <4> QED BY <2>15, <3>2, <4>1, Zenon
    <3> QED BY <2>4, <3>1, <3>3, <3>4, AccountsMove, Zenon
  <2>19. balance' \in [Wallets -> Nat]
    <3>1. LiveBalance(lots'[w], clock) \in Nat
      <4>1. lots'[w] \in Seq(Lot)
        BY <1>2, <2>16
      <4> QED BY <4>1, LiveBalanceNat, Records, Zenon
    <3> QED BY <2>1, <2>3, <3>1, Zenon DEF SyncBalance
  <2>20. /\ holds' \in Seq(HoldRow) /\ BacksFresh'
         /\ \A h \in DOMAIN holds' : Grants(holds'[h].back) \subseteq GrantRows'
         /\ SumFunction(Reserves') = SumFunction(Reserves)
         /\ DOMAIN holds \subseteq DOMAIN holds' /\ UNCHANGED holds
    BY <2>1, <2>14, HoldsStay, Zenon
  <2>21. \A x \in Wallets : Grants(lots'[x]) \subseteq GrantRows'
                            /\ Held(lots'[x]) \subseteq Held(lots[x])
    <3>1. \A x \in Wallets : Grants(lots'[x]) \subseteq Grants(lots[x])
                             /\ Held(lots'[x]) \subseteq Held(lots[x])
      BY <2>17, Zenon DEF Fewer
    <3> QED BY <2>3, <2>14, <3>1
  <2>22. Kept
    BY <2>3, <2>14, <2>18, <2>20 DEF Kept, Balanced
  <2>23. MoneyInv'
    BY <2>14, <2>15, <2>16, <2>19, <2>20, <2>21, Zenon DEF MoneyInv, MoneyTyped
  <2>24. Carried
    BY <2>20, <2>21, Zenon DEF Carried, Has, HoldsIn
  <2>25. NothingAnnounced
    BY <2>12, <2>14, Zenon DEF NothingAnnounced
  <2> QED BY <1>2, <2>14, <2>20, <2>22, <2>23, <2>24, <2>25, Zenon DEF MoneyStep
<1> QED BY <1>3, <1>4, Zenon

\* What one place gives and another gets leaves the sum.
LEMMA SumShifts ==
  ASSUME NEW S, IsFiniteSet(S), NEW f, NEW g, DOMAIN f = S, DOMAIN g = S,
         \A x \in S : f[x] \in Int, NEW v \in S, NEW w \in S, v # w,
         g[w] = 0, NEW k \in Int, k = f[w], g[v] = f[v] + k,
         \A x \in S : x # v /\ x # w => g[x] = f[x]
  PROVE  SumFunction(g) = SumFunction(f)
<1>1. PICK h : h = [x \in S |-> IF x = v THEN g[x] ELSE f[x]]
  OBVIOUS
<1>2. /\ DOMAIN h = S /\ h[v] = f[v] + k /\ \A x \in S : x # v => h[x] = f[x]
  BY <1>1
<1>3. SumFunction(h) = SumFunction(f) + k
  BY <1>2, SumMoves
<1>4. \A x \in S : h[x] \in Int
  <2>1. f[v] \in Int
    OBVIOUS
  <2>2. h[v] \in Int
    BY <1>2, <2>1
  <2> QED BY <1>2, <2>2, Zenon
<1>5. PICK n \in Int : n = -k
  OBVIOUS
<1>6. /\ g[w] = h[w] + n /\ \A x \in S : x # w => g[x] = h[x]
  BY <1>1, <1>5
<1>7. SumFunction(g) = SumFunction(h) + n
  BY <1>4, <1>2, <1>6, SumMoves
<1>8. SumFunction(f) \in Int
  BY SumOfFunction, SumInt
<1> QED BY <1>3, <1>5, <1>7, <1>8

\* Where there is nothing to spend there may be nothing at all.
LEMMA SpendableIsHeld ==
  ASSUME NEW ls \in Seq(Lot), NEW now, LiveBalance(ls, now) # 0
  PROVE  Held(ls) # {}
<1>1. Live(ls, now) # {}
  BY SumEmpty, Zenon DEF LiveBalance
<1> QED BY <1>1 DEF Live, Held

\* The rows of a closed wallet are the survivor's now, and say what they said.
LEMMA RowsMoved ==
  ASSUME MoneyInv, NEW w \in Wallets, NEW v \in Wallets
  PROVE  /\ MovedRows(w, v) \in Seq(LedgerRow) /\ Alike(ledger, MovedRows(w, v))
         /\ DOMAIN MovedRows(w, v) = DOMAIN ledger
<1>1. ledger \in Seq(LedgerRow) /\ \A r \in DOMAIN ledger : ledger[r] \in LedgerRow
  BY Typed, Zenon
<1>2. PICK rs : rs = MovedRows(w, v)
  OBVIOUS
<1>3. /\ DOMAIN rs = DOMAIN ledger
      /\ \A r \in DOMAIN ledger : \/ rs[r] = ledger[r]
                                  \/ rs[r] = [ledger[r] EXCEPT !.wallet = v]
  BY <1>2 DEF MovedRows
<1>4. ASSUME NEW r \in DOMAIN ledger
      PROVE  /\ rs[r] \in LedgerRow
             /\ rs[r].type = ledger[r].type /\ rs[r].user = ledger[r].user
             /\ rs[r].delta = ledger[r].delta /\ rs[r].merge = ledger[r].merge
  BY <1>1, <1>3, Zenon DEF LedgerRow
<1>5. rs \in Seq(LedgerRow)
  <2>1. DOMAIN ledger = 1..Len(ledger) /\ Len(ledger) \in Nat
    BY <1>1, LotsFinite, Zenon
  <2>2. rs = [r \in 1..Len(ledger) |-> rs[r]]
    BY <1>2, <1>3, <2>1 DEF MovedRows
  <2> QED BY <1>4, <2>1, <2>2, SeqDef
<1> QED BY <1>2, <1>3, <1>4, <1>5, Zenon DEF Alike

\* The holds of a closed wallet are the survivor's now.
LEMMA HoldsMoved ==
  ASSUME MoneyInv, NEW w \in Wallets, NEW v \in Wallets,
         holds' = MovedHolds(w, v), GrantRows \subseteq GrantRows'
  PROVE  /\ holds' \in Seq(HoldRow) /\ BacksFresh'
         /\ \A h \in DOMAIN holds' : Grants(holds'[h].back) \subseteq GrantRows'
         /\ SumFunction(Reserves') = SumFunction(Reserves)
         /\ DOMAIN holds' = DOMAIN holds
         /\ \A h \in DOMAIN holds :
              /\ holds'[h].back = holds[h].back /\ holds'[h].open = holds[h].open
              /\ holds[h].wallet = w => holds'[h].wallet = v
              /\ holds[h].wallet # w => holds'[h].wallet = holds[h].wallet
<1>1. /\ holds \in Seq(HoldRow) /\ BacksFresh
      /\ \A h \in DOMAIN holds : /\ Grants(holds[h].back) \subseteq GrantRows
                                 /\ holds[h] \in HoldRow
  BY Typed, Zenon DEF MoneyInv
<1>2. PICK H : H = MovedHolds(w, v)
  OBVIOUS
<1>3. DOMAIN H = DOMAIN holds
  BY <1>2 DEF MovedHolds
<1>4. ASSUME NEW h \in DOMAIN holds
      PROVE  /\ H[h] \in HoldRow
             /\ H[h].back = holds[h].back /\ H[h].open = holds[h].open
             /\ holds[h].wallet = w => H[h].wallet = v
             /\ holds[h].wallet # w => H[h].wallet = holds[h].wallet
  <2>1. holds[h] \in HoldRow
    BY <1>1
  <2>2. CASE holds[h].wallet = w
    <3>1. PICK key : key = Renamed(h, w, v)
      OBVIOUS
    <3>2. H[h] = [holds[h] EXCEPT !.wallet = v, !.key = key]
      BY <1>2, <2>2, <3>1, Zenon DEF MovedHolds, HoldsIn
    <3>3. key \in Seq(HoldKeys \cup Wallets)
      <4>1. holds[h].key \in Seq(HoldKeys \cup Wallets)
        BY <2>1, Zenon DEF HoldRow
      <4>2. w \in HoldKeys \cup Wallets
        OBVIOUS
      <4>3. Append(holds[h].key, w) \in Seq(HoldKeys \cup Wallets)
        BY <4>1, <4>2, AppendProperties
      <4> QED BY <3>1, <4>1, <4>3, Zenon DEF Renamed
    <3> QED BY <2>1, <2>2, <3>2, <3>3, Zenon DEF HoldRow
  <2>3. CASE holds[h].wallet # w
    <3>1. H[h] = holds[h]
      BY <1>2, <2>3, Zenon DEF MovedHolds, HoldsIn
    <3> QED BY <2>1, <2>3, <3>1, Zenon
  <2> QED BY <2>2, <2>3, Zenon
<1>5. H \in Seq(HoldRow)
  <2>1. DOMAIN holds = 1..Len(holds) /\ Len(holds) \in Nat
    BY <1>1, LotsFinite, Zenon
  <2>2. H = [h \in 1..Len(holds) |-> H[h]]
    BY <1>2, <1>3, <2>1 DEF MovedHolds
  <2> QED BY <1>4, <2>1, <2>2, SeqDef
<1>6. holds' = H
  BY <1>2
<1>7. \A h \in DOMAIN H : Grants(H[h].back) \subseteq GrantRows'
  BY <1>1, <1>3, <1>4
<1>8. BacksFresh'
  BY <1>1, <1>3, <1>4, <1>6, Zenon DEF BacksFresh
<1>9. Reserves' = Reserves
  BY <1>3, <1>4, <1>6, Zenon DEF Reserves
<1> QED BY <1>3, <1>4, <1>5, <1>6, <1>7, <1>8, <1>9, Zenon

\* merge_wallets() under its locks: what the closed wallet had, the survivor
\* has, less what it pays of the debts of both.
LEMMA MergeMoney ==
  ASSUME MoneyInv, NEW p \in Procs, at[p] \in Calls, Merge(p),
         at[p].from # at[p].into
  PROVE  /\ MoneyStep
         /\ \A x \in Wallets : \A g : Has(x, g)' =>
              /\ x # at[p].from
              /\ Has(x, g) \/ (x = at[p].into /\ Has(at[p].from, g))
         /\ DOMAIN ledger' = DOMAIN ledger \cup {NextRow}
         /\ ledger'[NextRow].merge = at[p].merge
         /\ ledger'[NextRow].delta # 0 => \E g : Has(at[p].from, g)
<1> DEFINE w == at[p].from
           v == at[p].into
           m == at[p].merge
           moving == Forfeit(ExpireDueLots(lots[w], clock))
           ls == ExpireDueLots(lots[v] \o moving, clock)
           ds == debts[v] \o debts[w]
           new == LotsAfterSettling(ls, ds, clock)
           nd == SettleDebts(ls, ds, clock)
           e == [Entry(v, "merge", LiveBalance(moving, clock), m[2]) EXCEPT !.merge = m]
           rs == MovedRows(w, v)
<1>1. /\ lots' = [lots EXCEPT ![w] = <<>>, ![v] = new]
      /\ debts' = [debts EXCEPT ![w] = <<>>, ![v] = nd]
      /\ balance' = [balance EXCEPT ![w] = 0, ![v] = LiveBalance(lots'[v], clock)]
      /\ holds' = MovedHolds(w, v) /\ ledger' = Append(rs, e)
  BY Zenon DEF Merge, LotsLeft
<1>2. w \in Wallets /\ v \in Wallets /\ m \in Merges /\ w # v
  BY CallsName, Zenon DEF Merge
<1>3. PICK before : before = ExpireDueLots(lots[w], clock) /\ moving = Forfeit(before)
  OBVIOUS
<1>4. PICK both : both = lots[v] \o moving /\ ls = ExpireDueLots(both, clock)
  OBVIOUS
<1>5. /\ new = LotsAfterSettling(ls, ds, clock) /\ nd = SettleDebts(ls, ds, clock)
      /\ ds = debts[v] \o debts[w] /\ rs = MovedRows(w, v)
      /\ e = [Entry(v, "merge", LiveBalance(moving, clock), m[2]) EXCEPT !.merge = m]
      /\ w = at[p].from /\ v = at[p].into /\ m = at[p].merge
  OBVIOUS
<1> HIDE DEF w, v, m, moving, ls, ds, new, nd, e, rs
<1>6. /\ ledger \in Seq(LedgerRow) /\ lots \in [Wallets -> Seq(Lot)]
      /\ debts \in [Wallets -> Seq(Debt)] /\ balance \in [Wallets -> Nat]
      /\ \A x \in Wallets : /\ Worth(lots[x]) \in Nat /\ Billed(debts[x]) \in Nat
                            /\ lots[x] \in Seq(Lot) /\ debts[x] \in Seq(Debt)
                            /\ Grants(lots[x]) \subseteq GrantRows
      /\ SumFunction(Accounts) \in Int /\ SumFunction(Reserves) \in Int
      /\ Posted(ledger) \in Int
  BY Typed, Zenon
<1>7. /\ Fewer(lots[w], moving) /\ Worth(moving) = Worth(lots[w])
      /\ moving \in Seq(Lot)
  <2>1. Fewer(lots[w], before) /\ Worth(before) = Worth(lots[w])
    BY <1>2, <1>3, <1>6, Sweeping, Zenon
  <2>2. before \in Seq(Lot)
    BY <2>1, Zenon DEF Fewer
  <2>3. Fewer(before, moving) /\ Worth(moving) = Worth(before)
    BY <1>3, <2>2, Forfeiting, Zenon
  <2> QED BY <2>1, <2>3, FewerTransitive, Zenon DEF Fewer
<1>8. /\ both \in Seq(Lot) /\ Grants(both) = Grants(lots[v]) \cup Grants(moving)
      /\ Held(both) = Held(lots[v]) \cup Held(moving)
      /\ Worth(both) = Worth(lots[v]) + Worth(moving)
  BY <1>2, <1>4, <1>6, <1>7, Joining, Zenon
<1>9. /\ Fewer(both, ls) /\ Worth(ls) = Worth(both) /\ ls \in Seq(Lot)
  <2>1. Fewer(both, ls) /\ Worth(ls) = Worth(both)
    BY <1>4, <1>8, Sweeping, Zenon
  <2> QED BY <2>1, Zenon DEF Fewer
<1>10. ds \in Seq(Debt) /\ Billed(ds) = Billed(debts[v]) + Billed(debts[w])
  <2>1. debts[v] \in Seq(DebtRecords) /\ debts[w] \in Seq(DebtRecords)
    BY <1>2, <1>6, Records, Zenon
  <2>2. /\ debts[v] \o debts[w] \in Seq(DebtRecords)
        /\ Billed(debts[v] \o debts[w]) = Billed(debts[v]) + Billed(debts[w])
    BY <2>1, ConcatAddsBilled, Zenon
  <2> QED BY <1>5, <2>2, Records, Zenon
<1>11. /\ Fewer(ls, new) /\ nd \in Seq(Debt) /\ new \in Seq(Lot)
       /\ Worth(new) + Billed(nd) = Worth(ls) + Billed(ds)
  <2>1. /\ Fewer(ls, LotsAfterSettling(ls, ds, clock))
        /\ SettleDebts(ls, ds, clock) \in Seq(Debt)
        /\ Worth(LotsAfterSettling(ls, ds, clock)) + Billed(SettleDebts(ls, ds, clock))
             = Worth(ls) + Billed(ds)
    BY <1>9, <1>10, Settling, Zenon
  <2> QED BY <1>5, <2>1, Zenon DEF Fewer
<1>12. /\ Grants(new) \subseteq GrantRows
       /\ Held(new) \subseteq Held(lots[v]) \cup Held(lots[w])
  <2>1. /\ Grants(new) \subseteq Grants(both) /\ Held(new) \subseteq Held(both)
        /\ Grants(moving) \subseteq Grants(lots[w])
        /\ Held(moving) \subseteq Held(lots[w])
    BY <1>7, <1>9, <1>11, FewerTransitive, Zenon DEF Fewer
  <2>2. Grants(lots[v]) \subseteq GrantRows /\ Grants(lots[w]) \subseteq GrantRows
    BY <1>2, <1>6, Zenon
  <2> QED BY <1>8, <2>1, <2>2
<1>13. PICK n \in Nat : n = LiveBalance(moving, clock)
  BY <1>7, LiveBalanceNat, Records, Zenon
<1>14. /\ e \in LedgerRow /\ e.type = "merge" /\ e.merge = m /\ e.delta = n
  <2>1. PICK row, u : row = Entry(v, "merge", n, u) /\ u = m[2]
    OBVIOUS
  <2>2. u \in Users
    BY <1>2, <2>1, AccountsAssumption
  <2>3. row \in LedgerRow /\ row.type = "merge" /\ row.delta = n
    <3>1. "merge" \in {"grant", "charge", "refund", "merge"} /\ n \in Int
      OBVIOUS
    <3>2. /\ Entry(v, "merge", n, u) \in LedgerRow
          /\ Entry(v, "merge", n, u).type = "merge" /\ Entry(v, "merge", n, u).delta = n
      BY <1>2, <2>2, <3>1, Entries
    <3> QED BY <2>1, <3>2, Zenon
  <2>4. e = [row EXCEPT !.merge = m] /\ m \in Merges \cup {<<>>}
    BY <1>2, <1>5, <1>13, <2>1, Zenon
  <2> QED BY <2>3, <2>4, Zenon DEF LedgerRow
<1>15. rs \in Seq(LedgerRow) /\ Alike(ledger, rs) /\ DOMAIN rs = DOMAIN ledger
  BY <1>2, <1>5, RowsMoved, Zenon
<1>16. /\ ledger' \in Seq(LedgerRow) /\ Alike(ledger, ledger') /\ RowsRight'
       /\ GrantRows \subseteq GrantRows'
       /\ ledger'[NextRow] = e /\ DOMAIN ledger' = DOMAIN ledger \cup {NextRow}
       /\ Posted(ledger') = Posted(ledger)
  <2>1. /\ e.type = "grant" => e.delta \in Nat
        /\ e.type = "merge" <=> e.merge \in Merges
    BY <1>2, <1>14
  <2>2. /\ ledger' \in Seq(LedgerRow) /\ Alike(ledger, ledger') /\ RowsRight'
        /\ GrantRows \subseteq GrantRows'
        /\ ledger'[NextRow] = e /\ DOMAIN ledger' = DOMAIN ledger \cup {NextRow}
        /\ Posted(ledger') = Posted(ledger) + (IF e.type = "merge" THEN 0 ELSE e.delta)
    BY <1>1, <1>14, <1>15, <2>1, PostedRow
  <2> QED BY <1>6, <1>14, <2>2
<1>17. /\ lots' \in [Wallets -> Seq(Lot)] /\ debts' \in [Wallets -> Seq(Debt)]
       /\ lots'[w] = <<>> /\ lots'[v] = new /\ debts'[w] = <<>> /\ debts'[v] = nd
       /\ \A x \in Wallets : x # v /\ x # w =>
            lots'[x] = lots[x] /\ debts'[x] = debts[x]
  <2>1. <<>> \in Seq(Lot) /\ <<>> \in Seq(Debt)
    OBVIOUS
  <2> QED BY <1>1, <1>2, <1>6, <1>11, <2>1
<1>18. \A x \in Wallets : Grants(lots'[x]) \subseteq GrantRows'
  BY <1>6, <1>12, <1>16, <1>17, NoLots
<1>19. balance' \in [Wallets -> Nat]
  <2>1. PICK b \in Nat : b = LiveBalance(lots'[v], clock)
    BY <1>11, <1>17, LiveBalanceNat, Records, Zenon
  <2>2. balance' = [balance EXCEPT ![w] = 0, ![v] = b]
    BY <1>1, <2>1, Zenon
  <2> QED BY <1>6, <2>2
<1>20. SumFunction(Accounts') = SumFunction(Accounts)
  <2>1. PICK f, g : f = Accounts /\ g = Accounts'
    OBVIOUS
  <2>2. /\ DOMAIN f = Wallets /\ DOMAIN g = Wallets
        /\ \A x \in Wallets : /\ f[x] = Worth(lots[x]) + Billed(debts[x])
                              /\ g[x] = Worth(lots'[x]) + Billed(debts'[x])
    BY <2>1 DEF Accounts
  <2>3. \A x \in Wallets : f[x] \in Int
    BY <1>6, <2>2
  <2>4. PICK k \in Int : k = f[w]
    BY <1>2, <2>3
  <2>5. g[w] = 0
    <3>1. Billed(<<>>) = 0
      BY SumEmpty, SumOfFunction DEF Billed, Billings
    <3> QED BY <1>2, <1>17, <2>2, <3>1, NoLots
  <2>6. g[v] = f[v] + k
    <3>1. /\ g[v] = Worth(new) + Billed(nd)
          /\ f[v] = Worth(lots[v]) + Billed(debts[v])
          /\ f[w] = Worth(lots[w]) + Billed(debts[w])
      BY <1>2, <1>17, <2>2, Zenon
    <3>2. /\ Worth(lots[v]) \in Nat /\ Billed(debts[v]) \in Nat
          /\ Worth(lots[w]) \in Nat /\ Billed(debts[w]) \in Nat
      BY <1>2, <1>6, Zenon
    <3>3. /\ Worth(new) + Billed(nd) = Worth(ls) + Billed(ds)
          /\ Worth(ls) = Worth(lots[v]) + Worth(lots[w])
          /\ Billed(ds) = Billed(debts[v]) + Billed(debts[w])
      BY <1>7, <1>8, <1>9, <1>10, <1>11, Zenon
    <3> QED BY <2>4, <3>1, <3>2, <3>3
  <2>7. \A x \in Wallets : x # v /\ x # w => g[x] = f[x]
    BY <1>17, <2>2, Zenon
  <2>8. SumFunction(g) = SumFunction(f)
    <3>1. IsFiniteSet(Wallets) /\ v # w /\ DOMAIN f = Wallets /\ DOMAIN g = Wallets
      BY <1>2, <2>2, Records, Zenon
    <3> QED BY <1>2, <2>3, <2>4, <2>5, <2>6, <2>7, <3>1, SumShifts
  <2> QED BY <2>1, <2>8, Zenon
<1>21. /\ holds' \in Seq(HoldRow) /\ BacksFresh'
       /\ \A h \in DOMAIN holds' : Grants(holds'[h].back) \subseteq GrantRows'
       /\ SumFunction(Reserves') = SumFunction(Reserves)
       /\ DOMAIN holds' = DOMAIN holds
       /\ \A h \in DOMAIN holds :
            /\ holds'[h].back = holds[h].back /\ holds'[h].open = holds[h].open
            /\ holds[h].wallet = w => holds'[h].wallet = v
            /\ holds[h].wallet # w => holds'[h].wallet = holds[h].wallet
  BY <1>1, <1>2, <1>16, HoldsMoved, Zenon
<1>22. MoneyStep
  <2>1. Kept
    BY <1>16, <1>20, <1>21 DEF Kept, Balanced
  <2>2. MoneyInv'
    BY <1>16, <1>17, <1>18, <1>19, <1>21, Zenon DEF MoneyInv, MoneyTyped
  <2> QED BY <1>16, <1>21, <2>1, <2>2, Zenon DEF MoneyStep
<1>23. ASSUME NEW x \in Wallets, NEW g, Has(x, g)'
       PROVE  x # w /\ (Has(x, g) \/ (x = v /\ Has(w, g)))
  <2>1. CASE g \in Held(lots'[x])
    <3>1. x # w
      BY <1>17, <2>1 DEF Held
    <3>2. CASE x = v
      BY <1>12, <1>17, <2>1, <3>1, <3>2 DEF Has
    <3>3. CASE x # v
      BY <1>17, <2>1, <3>1, <3>3, Zenon DEF Has
    <3> QED BY <3>1, <3>2, <3>3, Zenon
  <2>2. ASSUME NEW h \in HoldsIn(x)', holds'[h].open, g \in Grants(holds'[h].back)
        PROVE  x # w /\ (Has(x, g) \/ (x = v /\ Has(w, g)))
    <3>1. h \in DOMAIN holds /\ holds'[h].wallet = x
      BY <1>21, Zenon DEF HoldsIn
    <3>2. holds[h].open /\ g \in Grants(holds[h].back)
      BY <1>21, <2>2, <3>1, Zenon
    <3>3. CASE holds[h].wallet = w
      BY <1>2, <1>21, <3>1, <3>2, <3>3, Zenon DEF Has, HoldsIn
    <3>4. CASE holds[h].wallet # w
      BY <1>2, <1>21, <3>1, <3>2, <3>4, Zenon DEF Has, HoldsIn
    <3> QED BY <3>3, <3>4, Zenon
  <2> QED BY <1>23, <2>1, <2>2, Zenon DEF Has
<1>24. e.delta # 0 => \E g : Has(w, g)
  <2>1. SUFFICES ASSUME LiveBalance(moving, clock) # 0
                 PROVE  \E g : Has(w, g)
    BY <1>13, <1>14, Zenon
  <2>2. Held(moving) # {}
    BY <1>7, <2>1, SpendableIsHeld, Zenon
  <2>3. Held(lots[w]) # {}
    BY <1>7, <2>2 DEF Fewer
  <2> QED BY <2>3 DEF Has
<1> QED BY <1>5, <1>14, <1>16, <1>22, <1>23, <1>24, Zenon

-------------------------------------------------------------------------------
\* Whether a pair's credits have been announced.
Announced(m) ==
  \E r \in DOMAIN ledger : ledger[r].merge = m /\ ledger[r].delta > 0

\* Where a call believes its wallets are: the survivor's is still the
\* survivor's; the guest's is still the guest's or closed, and closed when the
\* pair's credits have been announced; nobody else got the wallet that is saved.
Placed(call) ==
  /\ call.step = "merge" =>
       /\ call.from # call.into /\ owner[call.into] = call.merge[2]
       /\ \/ owner[call.from] = call.merge[1]
          \/ owner[call.from] = NoUser /\ merged[call.from] # NoWallet
       /\ Announced(call.merge) => owner[call.from] = NoUser
  /\ call.step = "patch" => owner[call.wallet] = call.owner

AllPlaced == \A p \in Procs : Placed(at[p])

OneWallet == \A w, v \in Wallets : owner[w] = owner[v] /\ owner[w] # NoUser => w = v

\* EveryCreditHasItsHeir, for lots and reservations together.
WithHeirs == \A w \in Wallets : \A g : Has(w, g) => owner[w] \in Heirs(ledger[g].user)

Homes ==
  /\ owner \in [Wallets -> Users \cup {NoUser}]
  /\ merged \in [Wallets -> Wallets \cup {NoWallet}]
  /\ \A w \in Wallets : merged[w] # NoWallet => owner[w] = NoUser

\* What TypeOK says of everything but the credits.
Seated ==
  /\ Homes
  /\ clock \in 0..MaxClock
  /\ subs \in [Subs -> Users \cup {NoUser}]
  /\ at \in [Procs -> Calls]

MergeInv ==
  /\ Seated /\ MoneyInv /\ Balanced
  /\ AllPlaced /\ OneWallet /\ WithHeirs /\ MovedOnce

\* A merge is of two different users; a guest is nobody's survivor and changes
\* no settings; nobody is nobody's heir.
LEMMA MergesName ==
  /\ \A m \in Merges : /\ m[1] \in Users /\ m[2] \in Users /\ m[1] # m[2]
                       /\ m = <<m[1], m[2]>> /\ m[1] \notin Patchers
  /\ \A m, n \in Merges : m[1] # n[2]
  /\ Patchers \subseteq Users /\ NoUser \notin Users
<1>1. \A m \in Merges : /\ m[1] \in Users /\ m[2] \in Users /\ m[1] # m[2]
                        /\ m = <<m[1], m[2]>>
  BY AccountsAssumption
<1>2. \A m \in Merges : m[1] \notin Patchers /\ \A n \in Merges : m[1] # n[2]
  BY GuestsAssumption
<1> QED BY <1>1, <1>2, AccountsAssumption

\* The grants a wallet has credits of are rows of the ledger, given to users.
LEMMA HasGrants ==
  ASSUME MoneyInv, NEW w \in Wallets, NEW g, Has(w, g)
  PROVE  g \in GrantRows /\ g \in DOMAIN ledger /\ ledger[g].user \in Users
<1>1. g \in GrantRows
  <2>1. CASE g \in Held(lots[w])
    <3>1. Held(lots[w]) \subseteq Grants(lots[w]) /\ Grants(lots[w]) \subseteq GrantRows
      BY Typed DEF Held, Grants
    <3> QED BY <2>1, <3>1
  <2>2. CASE \E h \in HoldsIn(w) : holds[h].open /\ g \in Grants(holds[h].back)
    <3>1. \A h \in DOMAIN holds : Grants(holds[h].back) \subseteq GrantRows
      BY Typed, Zenon
    <3> QED BY <2>2, <3>1 DEF HoldsIn
  <2> QED BY <2>1, <2>2 DEF Has
<1>2. g \in DOMAIN ledger /\ ledger[g] \in LedgerRow
  BY <1>1, Typed, Zenon DEF GrantRows
<1> QED BY <1>1, <1>2, Zenon DEF LedgerRow

\* Nobody is nobody's heir: a wallet without an owner has no credits.
LEMMA OwnedIfAny ==
  ASSUME MoneyInv, WithHeirs, NEW w \in Wallets, NEW g, Has(w, g)
  PROVE  owner[w] # NoUser
<1>1. ledger[g].user \in Users /\ owner[w] \in Heirs(ledger[g].user)
  BY HasGrants, Zenon DEF WithHeirs
<1>2. \A x \in Heirs(ledger[g].user) : x \in Users
  BY <1>1, MergesName, Zenon DEF Heirs
<1> QED BY <1>1, <1>2, MergesName, Zenon

\* Heirs stay heirs.
LEMMA HeirsStay ==
  ASSUME MoneyInv, Alike(ledger, ledger'), NEW w \in Wallets, NEW g, Has(w, g),
         NEW x, x \in Heirs(ledger[g].user)
  PROVE  x \in Heirs(ledger[g].user)'
<1>1. ledger'[g].user = ledger[g].user
  BY HasGrants, Zenon DEF Alike
<1>2. ASSUME NEW m, Applied(m) PROVE Applied(m)'
  BY <1>2, Zenon DEF Applied, Alike
<1>3. Heirs(ledger[g].user)' = {ledger[g].user} \cup
        {m[2] : m \in {n \in Merges : n[1] = ledger[g].user /\ Applied(n)'}}
  BY <1>1, Zenon DEF Heirs
<1> QED BY <1>2, <1>3 DEF Heirs

\* Calls stay calls.
LEMMA CallsStay ==
  ASSUME Alike(ledger, ledger'), DOMAIN holds \subseteq DOMAIN holds'
  PROVE  Calls \subseteq Calls'
<1>1. GrantRows \subseteq GrantRows'
  BY Zenon DEF Alike, GrantRows
<1>2. ASSUME NEW c \in Calls PROVE c \in Calls'
  <2>1. CASE c = Idle
    BY <2>1 DEF Calls
  <2>2. CASE c \in [step : {"release"}, hold : DOMAIN holds, wallet : Wallets]
    <3>1. c \in [step : {"release"}, hold : DOMAIN holds', wallet : Wallets]
      BY <2>2
    <3> QED BY <3>1 DEF Calls
  <2>3. CASE c \in [step : {"clawback"}, row : GrantRows, wallet : Wallets]
    <3>1. c \in [step : {"clawback"}, row : GrantRows', wallet : Wallets]
      BY <1>1, <2>3
    <3> QED BY <3>1 DEF Calls
  <2>4. CASE \/ c \in [step : {"patch"}, wallet : Wallets, owner : Patchers,
                       merged : {NoWallet}, balance : Nat]
             \/ c \in [step : {"merge"}, merge : Merges, from : Wallets, into : Wallets]
    BY <2>4 DEF Calls
  <2> QED BY <2>1, <2>2, <2>3, <2>4 DEF Calls
<1> QED BY <1>2

\* A row that announces no merge announces nothing new.
LEMMA AnnouncedBefore ==
  ASSUME NothingAnnounced, Alike(ledger, ledger'), NEW m \in Merges, Announced(m)'
  PROVE  Announced(m)
<1>1. PICK r \in DOMAIN ledger' : ledger'[r].merge = m /\ ledger'[r].delta > 0
  BY DEF Announced
<1>2. r \in DOMAIN ledger
  BY <1>1, Zenon DEF NothingAnnounced
<1> QED BY <1>1, <1>2, Zenon DEF Announced, Alike

\* ... and no pair's credits are announced again.
LEMMA MovedOnceStays ==
  ASSUME MoneyStep, NothingAnnounced, MovedOnce
  PROVE  MovedOnce'
<1>1. RowsRight' /\ Alike(ledger, ledger')
  BY Zenon DEF MoneyStep, MoneyInv
<1>2. ASSUME NEW q \in DOMAIN ledger', NEW r \in DOMAIN ledger',
             ledger'[q].type = "merge", ledger'[q].merge = ledger'[r].merge,
             ledger'[q].delta > 0, ledger'[r].delta > 0
      PROVE  q = r
  <2>1. q \in DOMAIN ledger /\ r \in DOMAIN ledger
    BY <1>1, <1>2, Zenon DEF RowsRight, NothingAnnounced
  <2> QED BY <1>1, <1>2, <2>1, Zenon DEF MovedOnce, Alike
<1> QED BY <1>2, Zenon DEF MovedOnce

\* The calls a step leaves or begins are idle, need no place, or are placed.
PlacesKept ==
  \A p \in Procs : \/ at'[p] = at[p]
                   \/ at'[p].step \notin {"merge", "patch"}
                   \/ at'[p].step = "patch" /\ owner[at'[p].wallet] = at'[p].owner

SeatedStep ==
  /\ clock' \in 0..MaxClock /\ subs' \in [Subs -> Users \cup {NoUser}]
  /\ at' \in [Procs -> Calls']

\* A step that changes no owner, announces nothing and carries nothing along.
LEMMA StayingHome ==
  ASSUME MergeInv, MoneyStep, Carried, NothingAnnounced, UNCHANGED rows,
         SeatedStep, PlacesKept
  PROVE  MergeInv'
<1>1. owner' = owner /\ merged' = merged
  BY DEF rows
<1>2. Seated' /\ MoneyInv' /\ Balanced' /\ MovedOnce' /\ Alike(ledger, ledger')
  <2>1. Homes'
    BY <1>1, Zenon DEF MergeInv, Seated, Homes
  <2> QED BY <2>1, MovedOnceStays, Zenon DEF MergeInv, MoneyStep, Kept, Seated, SeatedStep
<1>3. OneWallet'
  BY <1>1, Zenon DEF MergeInv, OneWallet
<1>4. WithHeirs'
  <2>1. ASSUME NEW w \in Wallets, NEW g, Has(w, g)'
        PROVE  owner[w] \in Heirs(ledger[g].user)'
    <3>1. Has(w, g)
      BY <2>1, Zenon DEF Carried
    <3>2. owner[w] \in Heirs(ledger[g].user)
      BY <3>1, Zenon DEF MergeInv, WithHeirs
    <3> QED BY <1>2, <3>1, <3>2, HeirsStay, Zenon DEF MergeInv
  <2> QED BY <1>1, <2>1, Zenon DEF WithHeirs
<1>5. AllPlaced'
  <2>1. SUFFICES ASSUME NEW p \in Procs PROVE Placed(at[p])'
    BY Zenon DEF AllPlaced
  <2>2. Placed(at[p]) /\ at'[p] \in Calls'
    BY Zenon DEF MergeInv, AllPlaced, SeatedStep
  <2>3. CASE at'[p] = at[p]
    <3>1. at[p].step = "merge" => at[p].merge \in Merges
      BY CallsName, Zenon DEF MergeInv, Seated
    <3> QED BY <1>1, <1>2, <2>2, <2>3, <3>1, AnnouncedBefore, Zenon DEF Placed
  <2>4. CASE at'[p].step \notin {"merge", "patch"}
    <3>1. at'[p].step # "merge" /\ at'[p].step # "patch"
      BY <2>4
    <3> QED BY <3>1, Zenon DEF Placed
  <2>5. CASE at'[p].step = "patch" /\ owner[at'[p].wallet] = at'[p].owner
    <3>1. at'[p].step # "merge"
      BY <2>5
    <3> QED BY <1>1, <2>5, <3>1, Zenon DEF Placed
  <2> QED BY <2>3, <2>4, <2>5, Zenon DEF PlacesKept
<1> QED BY <1>2, <1>3, <1>4, <1>5, Zenon DEF MergeInv

\* get_or_create() gives a wallet to a user who had none: one that is new.
LEMMA WalletOpened ==
  ASSUME Homes, OneWallet, NEW u \in Users, NEW w \in WalletFor(u),
         owner' = [owner EXCEPT ![w] = u], merged' = merged
  PROVE  /\ Homes' /\ OneWallet'
         /\ w \in Wallets /\ owner'[w] = u
         /\ \A x \in Wallets : \/ owner'[x] = owner[x]
                               \/ owner[x] = NoUser /\ merged[x] = NoWallet
<1>1. /\ w \in Wallets
      /\ owner[w] = u \/ (owner[w] = NoUser /\ merged[w] = NoWallet
                          /\ \A x \in Wallets : owner[x] # u)
  <2>1. CASE WalletsOf(u) # {}
    BY <2>1 DEF WalletFor, WalletsOf
  <2>2. CASE WalletsOf(u) = {}
    BY <2>2 DEF WalletFor, WalletsOf, Unused
  <2> QED BY <2>1, <2>2
<1>2. owner'[w] = u /\ \A x \in Wallets : x # w => owner'[x] = owner[x]
  BY <1>1 DEF Homes
<1>3. u # NoUser
  BY MergesName
<1>4. Homes'
  <2>1. owner' \in [Wallets -> Users \cup {NoUser}]
    BY <1>1 DEF Homes
  <2>2. ASSUME NEW x \in Wallets, merged'[x] # NoWallet PROVE owner'[x] = NoUser
    <3>1. merged[x] # NoWallet /\ owner[x] = NoUser
      BY <2>2, Zenon DEF Homes
    <3>2. x # w
      BY <1>1, <1>3, <3>1, Zenon
    <3> QED BY <1>2, <3>1, <3>2, Zenon
  <2> QED BY <2>1, <2>2, Zenon DEF Homes
<1>5. OneWallet'
  <2>1. ASSUME NEW x \in Wallets, NEW y \in Wallets,
               owner'[x] = owner'[y], owner'[x] # NoUser
        PROVE  x = y
    <3>1. CASE x = w /\ y # w
      BY <1>1, <1>2, <1>3, <2>1, <3>1, Zenon DEF OneWallet
    <3>2. CASE x # w /\ y = w
      BY <1>1, <1>2, <1>3, <2>1, <3>2, Zenon DEF OneWallet
    <3>3. CASE x # w /\ y # w
      BY <1>2, <2>1, <3>3, Zenon DEF OneWallet
    <3> QED BY <3>1, <3>2, <3>3, Zenon
  <2> QED BY <2>1, Zenon DEF OneWallet
<1>6. \A x \in Wallets : \/ owner'[x] = owner[x]
                         \/ owner[x] = NoUser /\ merged[x] = NoWallet
  BY <1>1, <1>2, Zenon
<1> QED BY <1>1, <1>2, <1>4, <1>5, <1>6, Zenon

\* The calls under way know nothing of a wallet that is new.
LEMMA PlacedStays ==
  ASSUME AllPlaced, NEW p \in Procs, at[p] \in Calls, merged' = merged,
         \A x \in Wallets : \/ owner'[x] = owner[x]
                            \/ owner[x] = NoUser /\ merged[x] = NoWallet,
         NothingAnnounced, Alike(ledger, ledger'), at'[p] = at[p]
  PROVE  Placed(at[p])'
<1>1. Placed(at[p])
  BY Zenon DEF AllPlaced
<1>2. ASSUME at[p].step = "merge"
      PROVE  /\ at[p].from # at[p].into /\ owner'[at[p].into] = at[p].merge[2]
             /\ \/ owner'[at[p].from] = at[p].merge[1]
                \/ owner'[at[p].from] = NoUser /\ merged'[at[p].from] # NoWallet
             /\ Announced(at[p].merge)' => owner'[at[p].from] = NoUser
  <2>1. at[p].merge \in Merges /\ at[p].from \in Wallets /\ at[p].into \in Wallets
    BY <1>2, CallsName, Zenon
  <2>2. at[p].merge[1] \in Users /\ at[p].merge[2] \in Users /\ NoUser \notin Users
    BY <2>1, MergesName, Zenon
  <2>3. owner'[at[p].into] = owner[at[p].into]
    BY <1>1, <1>2, <2>1, <2>2, Zenon DEF Placed
  <2>4. owner'[at[p].from] = owner[at[p].from]
    BY <1>1, <1>2, <2>1, <2>2, Zenon DEF Placed
  <2>5. Announced(at[p].merge)' => Announced(at[p].merge)
    <3>1. PICK m \in Merges : m = at[p].merge
      BY <2>1
    <3>2. Announced(m)' => Announced(m)
      BY AnnouncedBefore, Zenon
    <3> QED BY <3>1, <3>2, Zenon DEF Announced
  <2> QED BY <1>1, <1>2, <2>3, <2>4, <2>5, Zenon DEF Placed
<1>3. ASSUME at[p].step = "patch"
      PROVE  owner'[at[p].wallet] = at[p].owner
  <2>1. at[p].wallet \in Wallets /\ at[p].owner \in Patchers
    BY <1>3, CallsName, Zenon
  <2>2. at[p].owner \in Users /\ NoUser \notin Users
    BY <2>1, MergesName, Zenon
  <2> QED BY <1>1, <1>3, <2>1, <2>2, Zenon DEF Placed
<1> QED BY <1>2, <1>3, Zenon DEF Placed, Announced

\* credit(): the credits go to a wallet of the user they are given to.
LEMMA CreditStays ==
  ASSUME MergeInv, NEW u \in Users, NEW c \in Amounts, NEW exp \in Deadlines,
         NEW bound \in BOOLEAN, Credit(u, c, exp, bound)
  PROVE  MergeInv'
<1>1. MoneyInv /\ Seated /\ Homes /\ OneWallet /\ UNCHANGED <<clock, merged, subs, at>>
  BY Zenon DEF MergeInv, Seated, Credit
<1>2. /\ MoneyStep
      /\ \E w \in WalletFor(u) :
           /\ owner' = [owner EXCEPT ![w] = u]
           /\ ledger'[NextRow].user = u /\ ledger'[NextRow].merge \notin Merges
           /\ DOMAIN ledger' = DOMAIN ledger \cup {NextRow}
           /\ \A x \in Wallets : \A g : Has(x, g)' =>
                Has(x, g) \/ (x = w /\ g = NextRow)
  BY <1>1, CreditMoney
<1>0. PICK w \in WalletFor(u) :
        /\ owner' = [owner EXCEPT ![w] = u]
        /\ ledger'[NextRow].user = u /\ ledger'[NextRow].merge \notin Merges
        /\ DOMAIN ledger' = DOMAIN ledger \cup {NextRow}
        /\ \A x \in Wallets : \A g : Has(x, g)' => Has(x, g) \/ (x = w /\ g = NextRow)
  BY <1>2, Zenon
<1>3. merged' = merged
  BY <1>1, Zenon
<1>4. /\ Homes' /\ OneWallet' /\ w \in Wallets /\ owner'[w] = u
      /\ \A x \in Wallets : \/ owner'[x] = owner[x]
                            \/ owner[x] = NoUser /\ merged[x] = NoWallet
  BY <1>1, <1>2, <1>0, <1>3, WalletOpened, Zenon
<1>5. NothingAnnounced /\ Alike(ledger, ledger') /\ DOMAIN holds \subseteq DOMAIN holds'
  <2>1. NothingAnnounced
    BY <1>0 DEF NothingAnnounced
  <2> QED BY <1>2, <1>0, <2>1, Zenon DEF MoneyStep
<1>6. Seated' /\ MoneyInv' /\ Balanced' /\ MovedOnce'
  <2>1. at' \in [Procs -> Calls']
    <3>1. at \in [Procs -> Calls] /\ at' = at
      BY <1>1, Zenon DEF Seated
    <3>2. Calls \subseteq Calls'
      BY <1>5, CallsStay, Zenon
    <3> QED BY <3>1, <3>2
  <2> QED BY <1>1, <1>2, <1>0, <1>4, <1>5, <2>1, MovedOnceStays, Zenon
          DEF MergeInv, MoneyStep, Kept, Seated
<1>7. WithHeirs'
  <2>1. ASSUME NEW x \in Wallets, NEW g, Has(x, g)'
        PROVE  owner'[x] \in Heirs(ledger[g].user)'
    <3>1. CASE Has(x, g)
      <4>1. owner[x] \in Heirs(ledger[g].user) /\ owner[x] # NoUser
        BY <3>1, OwnedIfAny, Zenon DEF MergeInv, WithHeirs
      <4>2. owner'[x] = owner[x]
        BY <1>4, <4>1, Zenon
      <4> QED BY <1>1, <1>5, <3>1, <4>1, <4>2, HeirsStay, Zenon
    <3>2. CASE x = w /\ g = NextRow
      <4>1. owner'[x] = ledger'[g].user
        BY <1>2, <1>0, <1>4, <3>2, Zenon
      <4> QED BY <4>1 DEF Heirs
    <3> QED BY <1>2, <1>0, <2>1, <3>1, <3>2, Zenon
  <2> QED BY <2>1, Zenon DEF WithHeirs
<1>8. AllPlaced'
  <2>1. ASSUME NEW p \in Procs PROVE Placed(at[p])'
    <3>1. at[p] \in Calls /\ at'[p] = at[p]
      BY <1>1, Zenon DEF Seated
    <3> QED BY <1>3, <1>4, <1>5, <3>1, PlacedStays, Zenon DEF MergeInv
  <2> QED BY <2>1, Zenon DEF AllPlaced
<1> QED BY <1>4, <1>6, <1>7, <1>8, Zenon DEF MergeInv

\* merge_wallets() up to its locks: it finds the guest's wallet, and the
\* survivor's or a new one.
LEMMA BeginMergeStays ==
  ASSUME MergeInv, NEW p \in Procs, NEW m \in Merges, BeginMerge(p, m)
  PROVE  MergeInv'
<1>1. /\ MoneyInv /\ Seated /\ Homes /\ OneWallet
      /\ UNCHANGED <<clock, merged, money, subs>> /\ ~Applied(m)
  BY Zenon DEF MergeInv, Seated, BeginMerge
<1>2. PICK w \in WalletsOf(m[1]), v \in WalletFor(m[2]) :
        /\ at' = [at EXCEPT ![p] = [step |-> "merge", merge |-> m,
                                    from |-> w, into |-> v]]
        /\ owner' = [owner EXCEPT ![v] = m[2]]
  BY Zenon DEF BeginMerge, Begin
<1>3. merged' = merged /\ at \in [Procs -> Calls] /\ m[1] \in Users /\ m[2] \in Users
      /\ m[1] # m[2] /\ NoUser \notin Users
  BY <1>1, MergesName, Zenon DEF Seated
<1>4. /\ Homes' /\ OneWallet' /\ v \in Wallets /\ owner'[v] = m[2]
      /\ \A x \in Wallets : \/ owner'[x] = owner[x]
                            \/ owner[x] = NoUser /\ merged[x] = NoWallet
  BY <1>1, <1>2, <1>3, WalletOpened, Zenon
<1>5. MoneyStep /\ Carried /\ NothingAnnounced
  <2>1. UNCHANGED <<lots, debts, holds, ledger>> /\ balance' \in [Wallets -> Nat]
    BY <1>1, Typed, Zenon DEF money
  <2> QED BY <1>1, <2>1, Quiet, Zenon
<1>6. Alike(ledger, ledger') /\ DOMAIN holds \subseteq DOMAIN holds' /\ ledger' = ledger
  BY <1>1, <1>5, Zenon DEF MoneyStep, money
<1>7. w \in Wallets /\ owner[w] = m[1] /\ owner'[w] = m[1] /\ w # v
  <2>1. w \in Wallets /\ owner[w] = m[1]
    BY <1>2 DEF WalletsOf
  <2> QED BY <1>3, <1>4, <2>1, Zenon
<1>8. Seated' /\ MoneyInv' /\ Balanced' /\ MovedOnce'
  <2>1. at' \in [Procs -> Calls']
    <3>1. PICK call : call = [step |-> "merge", merge |-> m, from |-> w, into |-> v]
      OBVIOUS
    <3>2. call \in Calls
      BY <1>4, <1>7, <3>1 DEF Calls
    <3>3. Calls \subseteq Calls'
      BY <1>6, CallsStay, Zenon
    <3>4. at' = [at EXCEPT ![p] = call]
      BY <1>2, <3>1, Zenon
    <3> QED BY <1>3, <3>2, <3>3, <3>4
  <2> QED BY <1>1, <1>4, <1>5, <2>1, MovedOnceStays, Zenon
          DEF MergeInv, MoneyStep, Kept, Seated
<1>9. WithHeirs'
  <2>1. ASSUME NEW x \in Wallets, NEW g, Has(x, g)'
        PROVE  owner'[x] \in Heirs(ledger[g].user)'
    <3>1. Has(x, g)
      BY <1>5, <2>1, Zenon DEF Carried
    <3>2. owner[x] \in Heirs(ledger[g].user) /\ owner[x] # NoUser
      BY <3>1, OwnedIfAny, Zenon DEF MergeInv, WithHeirs
    <3>3. owner'[x] = owner[x]
      BY <1>4, <3>2, Zenon
    <3> QED BY <1>1, <1>6, <3>1, <3>2, <3>3, HeirsStay, Zenon
  <2> QED BY <2>1, Zenon DEF WithHeirs
<1>10. AllPlaced'
  <2>1. ASSUME NEW q \in Procs PROVE Placed(at[q])'
    <3>1. CASE q # p
      <4>1. at[q] \in Calls /\ at'[q] = at[q]
        BY <1>2, <1>3, <3>1
      <4> QED BY <1>3, <1>4, <1>5, <1>6, <4>1, PlacedStays, Zenon DEF MergeInv
    <3>2. CASE q = p
      <4>1. /\ at'[q].step = "merge" /\ at'[q].merge = m
            /\ at'[q].from = w /\ at'[q].into = v
        BY <1>2, <1>3, <3>2
      <4>2. at'[q].step # "patch"
        BY <4>1
      <4>3. ~Announced(at[q].merge)'
        BY <1>1, <1>6, <4>1, Zenon DEF Announced, Applied
      <4> QED BY <1>4, <1>7, <4>1, <4>2, <4>3, Zenon DEF Placed
    <3> QED BY <3>1, <3>2
  <2> QED BY <2>1, Zenon DEF AllPlaced
<1> QED BY <1>4, <1>8, <1>9, <1>10, Zenon DEF MergeInv

\* What _merge_subscription() leaves.
LEMMA SubscriptionsTyped ==
  ASSUME subs \in [Subs -> Users \cup {NoUser}], NEW m \in Merges, MergeSubscription(m)
  PROVE  subs' \in [Subs -> Users \cup {NoUser}]
<1>1. m[2] \in Users
  BY MergesName
<1> QED BY <1>1 DEF MergeSubscription

\* A merge: what the guest had is the survivor's, who is the guest's heir now.
LEMMA MergeStays ==
  ASSUME MergeInv, NEW p \in Procs, Merge(p)
  PROVE  MergeInv'
<1>1. PICK w, v, m : w = at[p].from /\ v = at[p].into /\ m = at[p].merge
  OBVIOUS
<1>2. /\ MoneyInv /\ Seated /\ Homes /\ OneWallet /\ WithHeirs
      /\ at \in [Procs -> Calls] /\ at[p] \in Calls
  BY DEF MergeInv, Seated
<1>3. /\ w \in Wallets /\ v \in Wallets /\ m \in Merges /\ w # v
      /\ owner[v] = m[2] /\ (owner[w] = m[1] \/ owner[w] = NoUser)
      /\ Announced(m) => owner[w] = NoUser
  <2>1. Placed(at[p]) /\ at[p].step = "merge"
    BY Zenon DEF MergeInv, AllPlaced, Merge
  <2> QED BY <1>1, <1>2, <2>1, CallsName, Zenon DEF Placed, Announced
<1>4. /\ m[1] \in Users /\ m[2] \in Users /\ m[1] # m[2] /\ NoUser \notin Users
      /\ m[1] \notin Patchers /\ \A n \in Merges : m[1] # n[2]
  BY <1>3, MergesName, Zenon
<1>5. /\ owner' = [owner EXCEPT ![w] = NoUser] /\ merged' = [merged EXCEPT ![w] = v]
      /\ at' = [at EXCEPT ![p] = Idle] /\ MergeSubscription(m) /\ clock' = clock
  BY <1>1, Zenon DEF Merge, Done
<1>6. /\ owner'[w] = NoUser /\ merged'[w] = v /\ merged'[w] # NoWallet
      /\ \A x \in Wallets : x # w => owner'[x] = owner[x] /\ merged'[x] = merged[x]
  BY <1>2, <1>3, <1>5, Records DEF Homes
<1>7. /\ MoneyStep
      /\ \A x \in Wallets : \A g : Has(x, g)' =>
           x # w /\ (Has(x, g) \/ (x = v /\ Has(w, g)))
      /\ DOMAIN ledger' = DOMAIN ledger \cup {NextRow}
      /\ ledger'[NextRow].merge = m
      /\ ledger'[NextRow].delta # 0 => \E g : Has(w, g)
  <2>1. at[p].from # at[p].into
    BY <1>1, <1>3, Zenon
  <2> QED BY <1>1, <1>2, <2>1, MergeMoney, Zenon
<1>8. /\ Alike(ledger, ledger') /\ DOMAIN holds \subseteq DOMAIN holds'
      /\ MoneyInv' /\ Balanced' /\ RowsRight'
  BY <1>7, Zenon DEF MoneyStep, MoneyInv, MergeInv, Kept
<1>9. ledger'[NextRow].delta # 0 => owner[w] = m[1] /\ ~Announced(m)
  <2>1. ASSUME NEW g, Has(w, g) PROVE owner[w] # NoUser
    BY <1>2, <1>3, <2>1, OwnedIfAny, Zenon
  <2> QED BY <1>3, <1>7, <2>1, Zenon
<1>10. Homes' /\ OneWallet'
  <2>1. Homes'
    <3>1. /\ owner' \in [Wallets -> Users \cup {NoUser}]
          /\ merged' \in [Wallets -> Wallets \cup {NoWallet}]
      BY <1>2, <1>3, <1>5 DEF Homes
    <3> QED BY <1>2, <1>6, <3>1, Zenon DEF Homes
  <2>2. OneWallet'
    BY <1>2, <1>6, Zenon DEF OneWallet
  <2> QED BY <2>1, <2>2
<1>11. Seated'
  <2>1. at' \in [Procs -> Calls']
    <3>1. Calls \subseteq Calls' /\ Idle \in Calls
      BY <1>8, CallsStay, Zenon DEF Calls
    <3> QED BY <1>2, <1>5, <3>1
  <2>2. subs' \in [Subs -> Users \cup {NoUser}]
    BY <1>2, <1>3, <1>5, SubscriptionsTyped, Zenon DEF Seated
  <2> QED BY <1>2, <1>5, <1>10, <2>1, <2>2, Zenon DEF Seated
<1>12. MovedOnce'
  <2>1. ASSUME NEW q \in DOMAIN ledger', NEW r \in DOMAIN ledger',
               ledger'[q].type = "merge", ledger'[q].merge = ledger'[r].merge,
               ledger'[q].delta > 0, ledger'[r].delta > 0, q # r
        PROVE  FALSE
    <3>1. CASE q \in DOMAIN ledger /\ r \in DOMAIN ledger
      BY <1>8, <2>1, <3>1, Zenon DEF MergeInv, MovedOnce, Alike
    <3>2. CASE q = NextRow /\ r \in DOMAIN ledger
      <4>1. ledger[r].merge = m /\ ledger[r].delta > 0
        BY <1>7, <1>8, <2>1, <3>2, Zenon DEF Alike
      <4>2. ledger'[NextRow].delta # 0
        BY <2>1, <3>2
      <4> QED BY <1>9, <3>2, <4>1, <4>2, Zenon DEF Announced
    <3>3. CASE r = NextRow /\ q \in DOMAIN ledger
      <4>1. ledger[q].merge = m /\ ledger[q].delta > 0
        BY <1>7, <1>8, <2>1, <3>3, Zenon DEF Alike
      <4>2. ledger'[NextRow].delta # 0
        BY <2>1, <3>3
      <4> QED BY <1>9, <3>3, <4>1, <4>2, Zenon DEF Announced
    <3> QED BY <1>7, <2>1, <3>1, <3>2, <3>3
  <2> QED BY <2>1, Zenon DEF MovedOnce
<1>13. WithHeirs'
  <2>1. ASSUME NEW x \in Wallets, NEW g, Has(x, g)'
        PROVE  owner'[x] \in Heirs(ledger[g].user)'
    <3>1. x # w
      BY <1>7, <2>1, Zenon
    <3>2. CASE Has(x, g)
      <4>1. owner[x] \in Heirs(ledger[g].user)
        BY <1>2, <3>2, Zenon DEF WithHeirs
      <4>2. owner'[x] = owner[x]
        BY <1>6, <3>1, Zenon
      <4> QED BY <1>2, <1>8, <3>2, <4>1, <4>2, HeirsStay, Zenon
    <3>3. CASE x = v /\ Has(w, g)
      <4>1. owner[w] = m[1] /\ m[1] \in Heirs(ledger[g].user)
        BY <1>2, <1>3, <3>3, OwnedIfAny, Zenon DEF WithHeirs
      <4>2. ledger[g].user = m[1] /\ ledger'[g].user = m[1]
        <5>1. ledger[g].user = m[1]
          BY <1>4, <4>1 DEF Heirs
        <5>2. g \in DOMAIN ledger
          BY <1>2, <1>3, <3>3, HasGrants, Zenon
        <5> QED BY <1>8, <5>1, <5>2, Zenon DEF Alike
      <4>3. Applied(m)'
        BY <1>7, Zenon DEF Applied
      <4>4. owner'[x] = m[2]
        BY <1>3, <1>6, <3>1, <3>3, Zenon
      <4> QED BY <1>3, <4>2, <4>3, <4>4 DEF Heirs
    <3> QED BY <1>7, <2>1, <3>2, <3>3, Zenon
  <2> QED BY <2>1, Zenon DEF WithHeirs
<1>14. AllPlaced'
  <2>1. ASSUME NEW q \in Procs, q # p PROVE Placed(at[q])'
    <3>1. Placed(at[q]) /\ at'[q] = at[q] /\ at[q] \in Calls
      BY <1>2, <1>5, <2>1 DEF MergeInv, AllPlaced
    <3>2. ASSUME at[q].step = "merge"
          PROVE  /\ at[q].from # at[q].into /\ owner'[at[q].into] = at[q].merge[2]
                 /\ \/ owner'[at[q].from] = at[q].merge[1]
                    \/ owner'[at[q].from] = NoUser /\ merged'[at[q].from] # NoWallet
                 /\ Announced(at[q].merge)' => owner'[at[q].from] = NoUser
      <4>1. PICK a, b, n : a = at[q].from /\ b = at[q].into /\ n = at[q].merge
        OBVIOUS
      <4>2. a \in Wallets /\ b \in Wallets /\ n \in Merges
        BY <3>1, <3>2, <4>1, CallsName, Zenon
      <4>3. /\ a # b /\ owner[b] = n[2]
            /\ owner[a] = n[1] \/ (owner[a] = NoUser /\ merged[a] # NoWallet)
            /\ Announced(n) => owner[a] = NoUser
        BY <3>1, <3>2, <4>1, Zenon DEF Placed, Announced
      <4>4. n[2] \in Users /\ m[1] # n[2]
        BY <1>4, <4>2, MergesName, Zenon
      <4>5. owner'[b] = n[2]
        BY <1>3, <1>4, <1>6, <4>2, <4>3, <4>4, Zenon
      <4>6. owner'[a] = n[1] \/ (owner'[a] = NoUser /\ merged'[a] # NoWallet)
        BY <1>6, <4>2, <4>3, Zenon
      <4>7. Announced(n)' => owner'[a] = NoUser
        <5>1. SUFFICES ASSUME Announced(n)' PROVE owner'[a] = NoUser
          OBVIOUS
        <5>2. CASE owner[a] = NoUser
          BY <1>6, <4>2, <5>2, Zenon
        <5>3. CASE owner[a] # NoUser
          <6>1. ~Announced(n) /\ owner[a] = n[1]
            BY <4>3, <5>3, Zenon
          <6>2. PICK r \in DOMAIN ledger' :
                  ledger'[r].merge = n /\ ledger'[r].delta > 0
            BY <5>1, Zenon DEF Announced
          <6>3. r \notin DOMAIN ledger
            BY <1>8, <6>1, <6>2, Zenon DEF Announced, Alike
          <6>4. r = NextRow /\ m = n
            BY <1>7, <6>2, <6>3, Zenon
          <6>5. ledger'[NextRow].delta # 0
            BY <6>2, <6>4
          <6>6. owner[w] = owner[a]
            BY <1>9, <6>1, <6>4, <6>5, Zenon
          <6> QED BY <1>2, <1>3, <1>6, <4>2, <5>3, <6>6, Zenon DEF OneWallet
        <5> QED BY <5>2, <5>3
      <4> QED BY <3>1, <4>1, <4>3, <4>5, <4>6, <4>7, Zenon DEF Announced
    <3>3. ASSUME at[q].step = "patch"
          PROVE  owner'[at[q].wallet] = at[q].owner
      <4>1. at[q].wallet \in Wallets /\ at[q].owner \in Patchers
        BY <3>1, <3>3, CallsName, Zenon
      <4>2. owner[at[q].wallet] = at[q].owner /\ at[q].owner \in Users
        BY <3>1, <3>3, <4>1, MergesName, Zenon DEF Placed
      <4> QED BY <1>3, <1>4, <1>6, <4>1, <4>2, Zenon
    <3> QED BY <3>1, <3>2, <3>3, Zenon DEF Placed, Announced
  <2>2. Placed(at[p])'
    <3>1. at'[p] = Idle /\ Idle.step # "merge" /\ Idle.step # "patch"
      BY <1>2, <1>5 DEF Idle
    <3> QED BY <3>1, Zenon DEF Placed
  <2> QED BY <2>1, <2>2, Zenon DEF AllPlaced
<1> QED BY <1>8, <1>10, <1>11, <1>12, <1>13, <1>14, Zenon DEF MergeInv

\* The services that know their wallet when they lock it.
LEMMA OwnStays ==
  ASSUME MergeInv, MoneyStep, Carried, NothingAnnounced, UNCHANGED rows,
         clock' \in 0..MaxClock, subs' \in [Subs -> Users \cup {NoUser}], at' = at
  PROVE  MergeInv'
<1>1. Calls \subseteq Calls'
  BY CallsStay, Zenon DEF MoneyStep
<1>2. SeatedStep
  BY <1>1 DEF SeatedStep, MergeInv, Seated
<1>3. PlacesKept
  BY Zenon DEF PlacesKept
<1> QED BY <1>2, <1>3, StayingHome, Zenon

\* A call ends.
LEMMA DoneStays ==
  ASSUME MergeInv, NEW p \in Procs, Done(p), MoneyStep, Carried, NothingAnnounced,
         UNCHANGED rows, UNCHANGED <<clock, subs>>
  PROVE  MergeInv'
<1>1. Calls \subseteq Calls' /\ Idle \in Calls
  BY CallsStay, Zenon DEF MoneyStep, Calls
<1>2. /\ at \in [Procs -> Calls] /\ at' = [at EXCEPT ![p] = Idle]
      /\ clock' \in 0..MaxClock /\ subs' \in [Subs -> Users \cup {NoUser}]
  BY Zenon DEF MergeInv, Seated, Done
<1>3. SeatedStep
  BY <1>1, <1>2 DEF SeatedStep
<1>4. PlacesKept
  <2>1. ASSUME NEW q \in Procs PROVE at'[q] = at[q] \/ at'[q].step \notin {"merge", "patch"}
    <3>1. CASE q = p
      BY <1>2, <3>1 DEF Idle
    <3>2. CASE q # p
      BY <1>2, <3>2
    <3> QED BY <3>1, <3>2
  <2> QED BY <2>1, Zenon DEF PlacesKept
<1> QED BY <1>3, <1>4, StayingHome, Zenon

\* A call begins with what it reads.
LEMMA BeginStays ==
  ASSUME MergeInv, NEW p \in Procs, NEW call \in Calls, Begin(p, call),
         UNCHANGED <<clock, rows, money, subs>>,
         \/ call.step \notin {"merge", "patch"}
         \/ call.step = "patch" /\ owner[call.wallet] = call.owner
  PROVE  MergeInv'
<1>1. /\ MoneyInv /\ at \in [Procs -> Calls] /\ at' = [at EXCEPT ![p] = call]
      /\ clock' \in 0..MaxClock /\ subs' \in [Subs -> Users \cup {NoUser}]
      /\ UNCHANGED rows
  BY Zenon DEF MergeInv, Seated, Begin
<1>2. MoneyStep /\ Carried /\ NothingAnnounced
  <2>1. UNCHANGED <<lots, debts, holds, ledger>> /\ balance' \in [Wallets -> Nat]
    BY <1>1, Typed, Zenon DEF money
  <2> QED BY <1>1, <2>1, Quiet, Zenon
<1>3. Calls \subseteq Calls'
  BY <1>2, CallsStay, Zenon DEF MoneyStep
<1>4. SeatedStep
  BY <1>1, <1>3 DEF SeatedStep
<1>5. PlacesKept
  <2>1. ASSUME NEW q \in Procs PROVE at'[q] = at[q] \/ (q = p /\ at'[q] = call)
    BY <1>1
  <2> QED BY <2>1, Zenon DEF PlacesKept
<1> QED BY <1>1, <1>2, <1>4, <1>5, StayingHome, Zenon

\* release(), claw_back_grant(): they read a row, then lock what it named.
LEMMA LoadHoldStays ==
  ASSUME MergeInv, NEW p \in Procs, NEW h \in DOMAIN holds, LoadHold(p, h)
  PROVE  MergeInv'
<1>1. PICK call : call = [step |-> "release", hold |-> h, wallet |-> holds[h].wallet]
  OBVIOUS
<1>2. Begin(p, call) /\ UNCHANGED <<clock, rows, money, subs>>
  BY <1>1, Zenon DEF LoadHold
<1>3. holds[h].wallet \in Wallets
  BY Typed, Zenon DEF MergeInv
<1>4. call \in Calls /\ call.step \notin {"merge", "patch"}
  BY <1>1, <1>3 DEF Calls
<1> QED BY <1>2, <1>4, BeginStays, Zenon

\* ... a refund reads the row of the grant it takes back.
LEMMA LoadGrantStays ==
  ASSUME MergeInv, NEW p \in Procs, NEW r \in DOMAIN ledger, LoadGrant(p, r)
  PROVE  MergeInv'
<1>1. PICK call : call = [step |-> "clawback", row |-> r, wallet |-> ledger[r].wallet]
  OBVIOUS
<1>2. /\ Begin(p, call) /\ UNCHANGED <<clock, rows, money, subs>>
      /\ ledger[r].type = "grant"
  BY <1>1, Zenon DEF LoadGrant
<1>3. ledger[r] \in LedgerRow
  BY Typed, Zenon DEF MergeInv
<1>4. ledger[r].wallet \in Wallets
  BY <1>3 DEF LedgerRow
<1>5. call \in Calls /\ call.step \notin {"merge", "patch"}
  BY <1>1, <1>2, <1>4 DEF Calls, GrantRows
<1> QED BY <1>2, <1>5, BeginStays, Zenon

\* WalletView.patch() reads the wallet of the user who changes it.
LEMMA ReadWalletStays ==
  ASSUME MergeInv, NEW p \in Procs, NEW u \in Patchers, ReadWallet(p, u)
  PROVE  MergeInv'
<1>1. PICK w \in WalletsOf(u) :
        /\ Begin(p, [step |-> "patch", wallet |-> w, owner |-> owner[w],
                     merged |-> merged[w], balance |-> balance[w]])
        /\ UNCHANGED <<clock, rows, money, subs>>
  BY Zenon DEF ReadWallet
<1>2. PICK call : call = [step |-> "patch", wallet |-> w, owner |-> owner[w],
                          merged |-> merged[w], balance |-> balance[w]]
  OBVIOUS
<1>3. w \in Wallets /\ owner[w] = u
  BY DEF WalletsOf
<1>4. merged[w] = NoWallet
  BY <1>3, MergesName, Zenon DEF MergeInv, Seated, Homes
<1>5. balance[w] \in Nat
  BY <1>3, Typed DEF MergeInv
<1>6. call \in Calls
  BY <1>2, <1>3, <1>4, <1>5 DEF Calls
<1>7. call.step = "patch" /\ owner[call.wallet] = call.owner
  BY <1>2
<1> QED BY <1>1, <1>2, <1>6, <1>7, BeginStays, Zenon

\* ... and saves what it read: owner and survivor are still what they were.
LEMMA SaveWalletStays ==
  ASSUME MergeInv, NEW p \in Procs, SaveWallet(p)
  PROVE  MergeInv'
<1>1. PICK w, u, m, b : w = at[p].wallet /\ u = at[p].owner /\ m = at[p].merged
                        /\ b = at[p].balance
  OBVIOUS
<1>2. /\ at[p].step = "patch" /\ Done(p)
      /\ owner' = [owner EXCEPT ![w] = u] /\ merged' = [merged EXCEPT ![w] = m]
      /\ balance' = [balance EXCEPT ![w] = b]
      /\ UNCHANGED <<clock, lots, debts, holds, ledger, subs>>
  BY <1>1, Zenon DEF SaveWallet
<1>3. MoneyInv /\ Homes /\ Placed(at[p]) /\ at[p] \in Calls
  BY Zenon DEF MergeInv, Seated, AllPlaced
<1>4. w \in Wallets /\ u \in Patchers /\ m = NoWallet /\ b \in Nat /\ owner[w] = u
  BY <1>1, <1>2, <1>3, CallsName, Zenon DEF Placed
<1>5. merged[w] = NoWallet
  BY <1>3, <1>4, MergesName, Zenon DEF Homes
<1>6. UNCHANGED rows
  BY <1>2, <1>3, <1>4, <1>5 DEF Homes, rows
<1>7. balance' \in [Wallets -> Nat]
  BY <1>2, <1>3, <1>4 DEF MoneyInv, MoneyTyped
<1> QED BY <1>2, <1>3, <1>6, <1>7, Quiet, DoneStays, Zenon

\* merge_wallets() of an account without a wallet moves no credits.
LEMMA SubscriptionOnlyStays ==
  ASSUME MergeInv, NEW m \in Merges, MergeSubscriptionOnly(m)
  PROVE  MergeInv'
<1>1. MergeSubscription(m) /\ UNCHANGED <<clock, rows, money, at>> /\ MoneyInv
  BY Zenon DEF MergeSubscriptionOnly, MergeInv
<1>2. UNCHANGED <<lots, debts, holds, ledger>> /\ balance' \in [Wallets -> Nat]
  BY <1>1, Typed, Zenon DEF money
<1>3. clock' \in 0..MaxClock /\ subs' \in [Subs -> Users \cup {NoUser}]
  BY <1>1, SubscriptionsTyped, Zenon DEF MergeInv, Seated
<1> QED BY <1>1, <1>2, <1>3, Quiet, OwnStays, Zenon

\* Time passes, or nothing happens.
LEMMA TickStays ==
  ASSUME MergeInv, Tick \/ UNCHANGED vars
  PROVE  MergeInv'
<1>1. UNCHANGED <<rows, money, subs, at>> /\ MoneyInv
  BY Zenon DEF Tick, vars, MergeInv
<1>2. clock' \in 0..MaxClock
  <2>1. clock \in 0..MaxClock /\ MaxClock \in Nat
    BY Records, Zenon DEF MergeInv, Seated
  <2>2. CASE Tick
    BY <2>1, <2>2 DEF Tick
  <2>3. CASE UNCHANGED vars
    BY <2>1, <2>3 DEF vars
  <2> QED BY <2>2, <2>3
<1>3. UNCHANGED <<lots, debts, holds, ledger>> /\ balance' \in [Wallets -> Nat]
  BY <1>1, Typed, Zenon DEF money
<1>4. subs' \in [Subs -> Users \cup {NoUser}]
  BY <1>1, Zenon DEF MergeInv, Seated
<1> QED BY <1>1, <1>2, <1>3, <1>4, Quiet, OwnStays, Zenon

\* At first there are no wallets, no credits and no calls.
LEMMA InitMergeInv == Init => MergeInv
<1> SUFFICES ASSUME Init PROVE MergeInv
  OBVIOUS
<1>1. /\ clock = 0 /\ holds = <<>> /\ ledger = <<>> /\ subs \in InitialSubs
      /\ owner = [w \in Wallets |-> NoUser] /\ merged = [w \in Wallets |-> NoWallet]
      /\ balance = [w \in Wallets |-> 0]
      /\ lots = [w \in Wallets |-> <<>>] /\ debts = [w \in Wallets |-> <<>>]
      /\ at = [p \in Procs |-> Idle]
  BY Zenon DEF Init
<1>2. /\ DOMAIN holds = {} /\ DOMAIN ledger = {}
      /\ \A w \in Wallets : lots[w] = <<>> /\ debts[w] = <<>>
      /\ \A w \in Wallets : owner[w] = NoUser /\ merged[w] = NoWallet
      /\ \A p \in Procs : at[p] = Idle
  BY <1>1
<1>3. Seated
  <2>1. Homes
    BY <1>1, <1>2 DEF Homes
  <2>2. clock \in 0..MaxClock
    BY <1>1, Records
  <2>3. subs \in [Subs -> Users \cup {NoUser}]
    BY <1>1, AccountsAssumption
  <2>4. at \in [Procs -> Calls]
    BY <1>1 DEF Calls
  <2> QED BY <2>1, <2>2, <2>3, <2>4, Zenon DEF Seated
<1>4. MoneyInv
  <2>1. /\ balance \in [Wallets -> Nat]
        /\ lots \in [Wallets -> Seq(Lot)] /\ debts \in [Wallets -> Seq(Debt)]
        /\ holds \in Seq(HoldRow) /\ ledger \in Seq(LedgerRow)
    BY <1>1
  <2>2. \A w \in Wallets : Grants(lots[w]) \subseteq GrantRows
    BY <1>2, NoLots
  <2>3. /\ RowsRight /\ BacksFresh
        /\ \A h \in DOMAIN holds : Grants(holds[h].back) \subseteq GrantRows
    BY <1>2 DEF RowsRight, BacksFresh
  <2> QED BY <2>1, <2>2, <2>3, Zenon DEF MoneyInv, MoneyTyped
<1>5. Balanced
  <2>1. Billed(<<>>) = 0
    BY SumEmpty, SumOfFunction DEF Billed, Billings
  <2>2. \A w \in Wallets : Accounts[w] = 0
    BY <1>2, <2>1, NoLots DEF Accounts
  <2>3. SumFunctionOnSet(Accounts, Wallets) = 0
    BY <2>2, Records, SumZeros, Zenon
  <2>4. DOMAIN Accounts = Wallets /\ DOMAIN Reserves = {} /\ DOMAIN Posts(ledger) = {}
    BY <1>2 DEF Accounts, Reserves, Posts
  <2>5. SumFunction(Accounts) = 0 /\ SumFunction(Reserves) = 0 /\ Posted(ledger) = 0
    BY <2>3, <2>4, SumOfFunction, SumEmpty, Zenon DEF Posted
  <2> QED BY <2>5 DEF Balanced
<1>6. AllPlaced
  <2>1. Idle.step # "merge" /\ Idle.step # "patch"
    BY DEF Idle
  <2> QED BY <1>2, <2>1, Zenon DEF AllPlaced, Placed
<1>7. OneWallet /\ MovedOnce
  BY <1>2, Zenon DEF OneWallet, MovedOnce
<1>8. WithHeirs
  <2>1. ASSUME NEW w \in Wallets, NEW g PROVE ~Has(w, g)
    <3>1. Held(lots[w]) = {} /\ HoldsIn(w) = {}
      BY <1>2, NoLots DEF Held, HoldsIn
    <3> QED BY <3>1 DEF Has
  <2> QED BY <2>1, Zenon DEF WithHeirs
<1> QED BY <1>3, <1>4, <1>5, <1>6, <1>7, <1>8, Zenon DEF MergeInv

\* Every action keeps the invariant.
LEMMA NextMergeInv == MergeInv /\ [Next]_vars => MergeInv'
<1> SUFFICES ASSUME MergeInv, [Next]_vars PROVE MergeInv'
  OBVIOUS
<1>0. MoneyInv /\ \A p \in Procs : at[p] \in Calls
  BY DEF MergeInv, Seated
<1>1. CASE Tick \/ UNCHANGED vars
  BY <1>1, TickStays, Zenon
<1>2. CASE Own
  <2>1. PICK u \in Users, c \in Amounts :
          \/ \E exp \in Deadlines, bound \in BOOLEAN : Credit(u, c, exp, bound)
          \/ Debit(u, c)
          \/ \E k \in HoldKeys : Hold(u, k, c)
    BY <1>2, Zenon DEF Own
  <2>2. CASE \E exp \in Deadlines, bound \in BOOLEAN : Credit(u, c, exp, bound)
    BY <2>2, CreditStays
  <2>3. /\ clock \in 0..MaxClock /\ subs \in [Subs -> Users \cup {NoUser}]
    BY Zenon DEF MergeInv, Seated
  <2>4. CASE Debit(u, c)
    <3>1. UNCHANGED <<clock, subs, at>>
      BY <2>4, Zenon DEF Debit
    <3> QED BY <1>0, <2>3, <2>4, <3>1, DebitMoney, OwnStays, Zenon
  <2>5. CASE \E k \in HoldKeys : Hold(u, k, c)
    <3>1. PICK k \in HoldKeys : Hold(u, k, c)
      BY <2>5, Zenon
    <3>2. UNCHANGED <<clock, subs, at>>
      BY <3>1, Zenon DEF Hold
    <3> QED BY <1>0, <2>3, <3>1, <3>2, HoldMoney, OwnStays, Zenon
  <2> QED BY <2>1, <2>2, <2>4, <2>5, Zenon
<1>3. CASE \E p \in Procs : Call(p)
  <2>1. PICK p \in Procs : Call(p)
    BY <1>3, Zenon
  <2>2. CASE Release(p)
    <3>1. Done(p) /\ UNCHANGED <<clock, subs>>
      BY <2>2, Zenon DEF Release
    <3> QED BY <1>0, <2>2, <3>1, ReleaseMoney, DoneStays, Zenon
  <2>3. CASE ClawBack(p)
    <3>1. Done(p) /\ UNCHANGED <<clock, subs>>
      BY <2>3, Zenon DEF ClawBack
    <3> QED BY <1>0, <2>3, <3>1, ClawBackMoney, DoneStays, Zenon
  <2>4. CASE SaveWallet(p)
    BY <2>4, SaveWalletStays, Zenon
  <2>5. CASE Merge(p)
    BY <2>5, MergeStays, Zenon
  <2> QED BY <2>1, <2>2, <2>3, <2>4, <2>5, LoadHoldStays, LoadGrantStays,
             ReadWalletStays, BeginMergeStays, Zenon DEF Call
<1>4. CASE \E m \in Merges : MergeSubscriptionOnly(m)
  BY <1>4, SubscriptionOnlyStays, Zenon
<1> QED BY <1>1, <1>2, <1>3, <1>4, Zenon DEF Next

\* The invariant the theorems rest on.
LEMMA MergeInvHolds == Spec => []MergeInv
BY InitMergeInv, NextMergeInv, PTL DEF Spec

\* Types: a lot names the ledger row that granted it, a closed wallet has no
\* owner, a call under way names rows that exist.
THEOREM TypesHold == Spec => []TypeOK
<1>1. MergeInv => TypeOK
  <2> SUFFICES ASSUME MergeInv PROVE TypeOK
    OBVIOUS
  <2>1. \A w \in Wallets : \A i \in DOMAIN lots[w] : lots[w][i].grant \in GrantRows
    <3>1. \A w \in Wallets : Grants(lots[w]) \subseteq GrantRows
      BY Zenon DEF MergeInv, MoneyInv, MoneyTyped
    <3> QED BY <3>1 DEF Grants
  <2>2. \A h \in DOMAIN holds : \A i \in DOMAIN holds[h].back :
          holds[h].back[i].grant \in GrantRows
    <3>1. \A h \in DOMAIN holds : Grants(holds[h].back) \subseteq GrantRows
      BY Zenon DEF MergeInv, MoneyInv, MoneyTyped
    <3> QED BY <3>1 DEF Grants
  <2> QED BY <2>1, <2>2, Zenon
          DEF MergeInv, MoneyInv, MoneyTyped, Seated, Homes, TypeOK
<1> QED BY <1>1, MergeInvHolds, PTL

\* user.merged is delivered at least once: however often and however close
\* together, a pair's credits are announced in the survivor's ledger once.
THEOREM MovedOnceHolds == Spec => []MovedOnce
<1>1. MergeInv => MovedOnce
  BY DEF MergeInv
<1> QED BY <1>1, MergeInvHolds, PTL

\* "Every row that named it belongs to into_user_id now": credits, in lots or
\* in reservations, are with the account they were given to or its heir.
THEOREM HeirsHold == Spec => []EveryCreditHasItsHeir
<1>1. MergeInv => EveryCreditHasItsHeir
  <2> SUFFICES ASSUME MergeInv PROVE EveryCreditHasItsHeir
    OBVIOUS
  <2>0. \A w \in Wallets : \A g : Has(w, g) => owner[w] \in Heirs(ledger[g].user)
    BY Zenon DEF MergeInv, WithHeirs
  <2>1. ASSUME NEW w \in Wallets, NEW i \in DOMAIN lots[w], lots[w][i].rem > 0
        PROVE  owner[w] \in Heirs(ledger[lots[w][i].grant].user)
    <3>1. lots[w][i].grant \in Held(lots[w])
      BY <2>1, Zenon DEF Held
    <3> QED BY <2>0, <3>1, Zenon DEF Has
  <2>2. ASSUME NEW h \in DOMAIN holds, holds[h].open, NEW i \in DOMAIN holds[h].back
        PROVE  owner[holds[h].wallet] \in Heirs(ledger[holds[h].back[i].grant].user)
    <3>1. holds[h].wallet \in Wallets
      BY Typed, Zenon DEF MergeInv
    <3>2. h \in HoldsIn(holds[h].wallet)
      BY Zenon DEF HoldsIn
    <3>3. holds[h].back[i].grant \in Grants(holds[h].back)
      BY Zenon DEF Grants
    <3> QED BY <2>0, <2>2, <3>1, <3>2, <3>3, Zenon DEF Has
  <2> QED BY <2>1, <2>2, Zenon DEF EveryCreditHasItsHeir
<1> QED BY <1>1, MergeInvHolds, PTL

\* A plan someone pays for does not evaporate: only a merge leaves a
\* subscription without an account, and only when the survivor had one.
THEOREM PlansKeptHolds == Spec => PlansKept
<1> DEFINE KeptPlan ==
      \A s \in Subs :
        subs[s] # NoUser /\ subs'[s] = NoUser =>
          \E t \in Subs : <<subs[s], subs[t]>> \in Merges /\ subs'[t] = subs[t]
<1>1. ASSUME NEW m \in Merges, MergeSubscription(m)
      PROVE  KeptPlan
  <2>1. m = <<m[1], m[2]>> /\ m[2] # NoUser /\ m[1] # m[2]
    BY MergesName, Zenon
  <2>2. SUFFICES ASSUME NEW s \in Subs, subs[s] # NoUser, subs'[s] = NoUser
                 PROVE  \E t \in Subs : <<subs[s], subs[t]>> \in Merges /\ subs'[t] = subs[t]
    BY Zenon
  <2>3. \A t \in Subs : t \notin SubsOf(m[1]) => subs'[t] = subs[t]
    BY <1>1 DEF MergeSubscription
  <2>4. s \in SubsOf(m[1]) /\ SubsOf(m[2]) # {}
    BY <1>1, <2>1, <2>2 DEF MergeSubscription
  <2>5. PICK t \in Subs : subs[t] = m[2]
    BY <2>4 DEF SubsOf
  <2>6. subs[s] = m[1] /\ t \notin SubsOf(m[1])
    BY <2>1, <2>4, <2>5 DEF SubsOf
  <2>7. <<subs[s], subs[t]>> \in Merges /\ subs'[t] = subs[t]
    BY <2>1, <2>3, <2>5, <2>6, Zenon
  <2> QED BY <2>7, Zenon
<1>2. ASSUME subs' = subs PROVE KeptPlan
  BY <1>2
<1>3. MergeInv /\ [Next]_vars => [KeptPlan]_vars
  <2> SUFFICES ASSUME MergeInv, Next PROVE KeptPlan
    OBVIOUS
  <2>1. CASE \E p \in Procs : Merge(p)
    <3>1. PICK p \in Procs : Merge(p)
      BY <2>1
    <3>2. at[p] \in Calls /\ at[p].step = "merge" /\ MergeSubscription(at[p].merge)
      BY <3>1, Zenon DEF Merge, MergeInv, Seated
    <3>3. PICK m : m = at[p].merge
      OBVIOUS
    <3>4. m \in Merges /\ MergeSubscription(m)
      BY <3>2, <3>3, CallsName, Zenon
    <3> QED BY <1>1, <3>4, Zenon
  <2>2. CASE \E m \in Merges : MergeSubscriptionOnly(m)
    BY <1>1, <2>2, Zenon DEF MergeSubscriptionOnly
  <2>3. subs' = subs \/ (\E p \in Procs : Merge(p))
          \/ (\E m \in Merges : MergeSubscriptionOnly(m))
    BY Zenon DEF Next, Own, Call, Tick, Credit, Debit, Hold, LoadHold, Release,
         LoadGrant, ClawBack, ReadWallet, SaveWallet, BeginMerge
  <2> QED BY <1>2, <2>1, <2>2, <2>3, Zenon
<1> QED BY <1>3, MergeInvHolds, PTL DEF Spec, PlansKept

\* Sums of sums are sums.
LEMMA TotalIsSum ==
  ASSUME NEW f, NEW g, NEW S, IsFiniteSet(S), DOMAIN f = S, DOMAIN g = S,
         \A x \in S : g[x] = SumFunction(f[x])
  PROVE  Total(f) = SumFunctionOnSet(g, S)
<1> DEFINE F == [x \in DOMAIN f |-> SumFunction(f[x])]
<1>1. DOMAIN F = S /\ \A x \in S : F[x] = g[x]
  OBVIOUS
<1>2. Total(f) = SumFunction(F)
  BY Zenon DEF Total
<1>3. SumFunction(F) = SumFunctionOnSet(F, S)
  BY <1>1, SumOfFunction, Zenon
<1> HIDE DEF F
<1>4. SumFunctionOnSet(F, S) = SumFunctionOnSet(g, S)
  BY <1>1, SumEqual, Zenon
<1> QED BY <1>2, <1>3, <1>4, Zenon

\* Wallets hold what remains and what expired of their lots; debts bill.
LEMMA AccountsSplit ==
  ASSUME MoneyInv
  PROVE  /\ Total([w \in Wallets |-> Remaining(lots[w])]) \in Int
         /\ Total([w \in Wallets |-> Expirations(lots[w])]) \in Int
         /\ Total([w \in Wallets |-> Billings(debts[w])]) \in Int
         /\ SumFunction(Accounts)
              = Total([w \in Wallets |-> Remaining(lots[w])])
                  + Total([w \in Wallets |-> Expirations(lots[w])])
                  + Total([w \in Wallets |-> Billings(debts[w])])
<1> DEFINE R == [w \in Wallets |-> SumFunction(Remaining(lots[w]))]
           E == [w \in Wallets |-> SumFunction(Expirations(lots[w]))]
           B == [w \in Wallets |-> SumFunction(Billings(debts[w]))]
           RE == [w \in Wallets |-> R[w] + E[w]]
           A == Accounts
<1>1. IsFiniteSet(Wallets)
  BY Records
<1>2. \A w \in Wallets : R[w] \in Int /\ E[w] \in Int /\ R[w] + E[w] = Worth(lots[w])
  <2>1. ASSUME NEW w \in Wallets
        PROVE  R[w] \in Int /\ E[w] \in Int /\ R[w] + E[w] = Worth(lots[w])
    <3>1. lots[w] \in Seq(LotWith(0..Never))
      BY Typed, Records
    <3> QED BY <3>1, WorthSplits
  <2> QED BY <2>1, Zenon
<1>3. \A w \in Wallets : B[w] \in Int /\ B[w] = Billed(debts[w])
  BY Typed DEF Billed
<1>4. \A w \in Wallets : RE[w] \in Int /\ A[w] = RE[w] + B[w]
  BY <1>2, <1>3 DEF Accounts
<1>5. DOMAIN A = Wallets
  BY DEF Accounts
<1>6. /\ Total([w \in Wallets |-> Remaining(lots[w])]) = SumFunctionOnSet(R, Wallets)
      /\ Total([w \in Wallets |-> Expirations(lots[w])]) = SumFunctionOnSet(E, Wallets)
      /\ Total([w \in Wallets |-> Billings(debts[w])]) = SumFunctionOnSet(B, Wallets)
  BY <1>1, TotalIsSum
<1>7. \A w \in Wallets : RE[w] = R[w] + E[w]
  OBVIOUS
<1> HIDE DEF R, E, B, RE, A
<1>8. SumFunctionOnSet(RE, Wallets)
        = SumFunctionOnSet(R, Wallets) + SumFunctionOnSet(E, Wallets)
  BY <1>1, <1>2, <1>7, SumPlus
<1>9. SumFunctionOnSet(A, Wallets)
        = SumFunctionOnSet(RE, Wallets) + SumFunctionOnSet(B, Wallets)
  BY <1>1, <1>3, <1>4, SumPlus
<1>10. SumFunction(A) = SumFunctionOnSet(A, Wallets)
  BY <1>5, SumOfFunction, Zenon
<1>11. /\ SumFunctionOnSet(R, Wallets) \in Int /\ SumFunctionOnSet(E, Wallets) \in Int
       /\ SumFunctionOnSet(B, Wallets) \in Int
  BY <1>1, <1>2, <1>3, SumInt
<1> QED BY <1>6, <1>8, <1>9, <1>10, <1>11 DEF A

\* Nothing of a reservation has expired.
LEMMA ReservesRemain ==
  ASSUME MoneyInv
  PROVE  SumFunction(Reserves) = Total([h \in DOMAIN holds |-> Remaining(holds[h].back)])
<1>1. ASSUME NEW h \in DOMAIN holds
      PROVE  Reserves[h] = SumFunction(Remaining(holds[h].back))
  <2>1. PICK ls : ls = holds[h].back
    OBVIOUS
  <2>2. ls \in Seq(Lot) /\ \A i \in DOMAIN ls : ls[i].expired = 0
    BY <2>1, Typed, Zenon DEF MoneyInv, BacksFresh
  <2>3. \A i \in DOMAIN ls : Face(ls)[i] = Remaining(ls)[i]
    <3>1. \A i \in DOMAIN ls : ls[i] \in Lot
      BY <2>2
    <3>2. \A i \in DOMAIN ls : ls[i].rem \in Nat
      BY <3>1, Zenon DEF Lot
    <3> QED BY <2>2, <3>2 DEF Face, Remaining
  <2>4. DOMAIN Remaining(ls) = DOMAIN ls /\ IsFiniteSet(DOMAIN ls)
    <3>1. IsFiniteSet(DOMAIN ls)
      BY <2>2, LotsFinite, Zenon
    <3>2. DOMAIN Remaining(ls) = DOMAIN ls
      BY DEF Remaining
    <3> QED BY <3>1, <3>2
  <2>5. Worth(ls) = SumFunction(Remaining(ls))
    <3>1. SumFunctionOnSet(Face(ls), DOMAIN ls) = SumFunctionOnSet(Remaining(ls), DOMAIN ls)
      BY <2>3, <2>4, SumEqual
    <3>2. SumFunction(Remaining(ls)) = SumFunctionOnSet(Remaining(ls), DOMAIN ls)
      BY <2>4, SumOfFunction
    <3> QED BY <3>1, <3>2 DEF Worth
  <2> QED BY <2>1, <2>5 DEF Reserves
<1>2. DOMAIN Reserves = DOMAIN holds /\ IsFiniteSet(DOMAIN holds)
  BY Typed DEF Reserves
<1>3. SumFunction(Reserves) = SumFunctionOnSet(Reserves, DOMAIN holds)
  BY <1>2, SumOfFunction, Zenon
<1> DEFINE f == [h \in DOMAIN holds |-> Remaining(holds[h].back)]
<1>4. DOMAIN f = DOMAIN holds /\ \A h \in DOMAIN holds : Reserves[h] = SumFunction(f[h])
  BY <1>1
<1> HIDE DEF f
<1>5. Total(f) = SumFunctionOnSet(Reserves, DOMAIN holds)
  BY <1>2, <1>4, TotalIsSum, Zenon
<1> QED BY <1>3, <1>5 DEF f

\* A merge row posts nothing.
LEMMA PostedElsewhere ==
  ASSUME MoneyInv
  PROVE  /\ Posted(ledger) \in Int
         /\ Posted(ledger)
              = SumFunctionOnSet([r \in DOMAIN ledger |-> ledger[r].delta],
                                 {r \in DOMAIN ledger : ledger[r].type # "merge"})
<1> DEFINE D == DOMAIN ledger
           S == {r \in D : ledger[r].type # "merge"}
           f == Posts(ledger)
           g == [r \in D |-> ledger[r].delta]
<1>1. IsFiniteSet(D) /\ S \in SUBSET D /\ IsFiniteSet(S)
  BY Typed, FS_Subset
<1>2. \A r \in D : ledger[r].delta \in Int
  BY Typed DEF LedgerRow
<1>3. /\ DOMAIN f = D /\ \A r \in D : f[r] \in Int
      /\ \A r \in D \ S : f[r] = 0
      /\ \A r \in S : f[r] = g[r]
  BY <1>2 DEF Posts
<1>4. Posted(ledger) = SumFunctionOnSet(f, D)
  BY <1>3, SumOfFunction, Zenon DEF Posted
<1> HIDE DEF D, S, f, g
<1>5. SumFunctionOnSet(f, D) = SumFunctionOnSet(f, S)
  BY <1>1, <1>3, SumSupport, Zenon
<1>6. SumFunctionOnSet(f, S) = SumFunctionOnSet(g, S)
  BY <1>1, <1>3, SumEqual, Zenon
<1>7. SumFunctionOnSet(f, D) \in Int
  BY <1>1, <1>3, SumInt, Zenon
<1> QED BY <1>4, <1>5, <1>6, <1>7 DEF D, S, g

\* Credits are moved, never copied or dropped: over all wallets, whatever
\* merges, stale locks and stale saves come in between, lots and reservations
\* hold what was granted less what was charged, taken back, expired, forfeited
\* and collected.
THEOREM ConservationHolds == Spec => []Conservation
<1>1. MergeInv => Conservation
  <2> SUFFICES ASSUME MergeInv PROVE Conservation
    OBVIOUS
  <2>1. MoneyInv /\ Balanced
    BY DEF MergeInv
  <2>2. PICK r, e, b, h, p :
          /\ r = Total([w \in Wallets |-> Remaining(lots[w])])
          /\ e = Total([w \in Wallets |-> Expirations(lots[w])])
          /\ b = Total([w \in Wallets |-> Billings(debts[w])])
          /\ h = Total([k \in DOMAIN holds |-> Remaining(holds[k].back)])
          /\ p = SumFunctionOnSet([q \in DOMAIN ledger |-> ledger[q].delta],
                                  {q \in DOMAIN ledger : ledger[q].type # "merge"})
    OBVIOUS
  <2>3. r \in Int /\ e \in Int /\ b \in Int /\ SumFunction(Accounts) = r + e + b
    BY <2>1, <2>2, AccountsSplit, Zenon
  <2>4. SumFunction(Reserves) = h /\ Posted(ledger) = p
    BY <2>1, <2>2, ReservesRemain, PostedElsewhere, Zenon
  <2>5. h \in Int
    <3>1. \A k \in DOMAIN holds : Reserves[k] \in Int
      BY <2>1, Typed DEF Reserves
    <3>2. DOMAIN Reserves = DOMAIN holds /\ IsFiniteSet(DOMAIN holds)
      BY <2>1, Typed DEF Reserves
    <3>3. SumFunctionOnSet(Reserves, DOMAIN holds) \in Int
      BY <3>1, <3>2, SumInt, Zenon
    <3> QED BY <2>4, <3>2, <3>3, SumOfFunction, Zenon
  <2>6. r + h = p - e - b
    BY <2>1, <2>3, <2>4, <2>5 DEF Balanced
  <2> QED BY <2>2, <2>6, Zenon DEF Conservation, Expirations, Billings
<1> QED BY <1>1, MergeInvHolds, PTL

===============================================================================
