------------------------------ MODULE CreditLots ------------------------------
(***************************************************************************)
(* The lot arithmetic of stapel-billing (src/services.py): a wallet's      *)
(* credits are lots, each with a deadline; every spend walks them in a     *)
(* fixed order, and every walk in the module has the same shape.           *)
(*                                                                         *)
(* A lot is a record                                                       *)
(*   rem      CreditLot.credits_remaining                                  *)
(*   exp      CreditLot.expires_at; a lot without an expiry carries a      *)
(*            deadline no clock reading reaches (nulls last)               *)
(*   grant    CreditLot.granting_transaction, an index of the ledger       *)
(*   expired  what the lot's EXPIRATION row took (0 before it is written;  *)
(*            a lot never goes up again, so it has at most one such row)   *)
(* and lots are indexed in order of creation.                              *)
(***************************************************************************)
EXTENDS Integers, Sequences, FiniteSets, Functions

\* Mutant of Clip: the walk does not stop once nothing is wanted any more.
ClipWithoutFloor(m, hi) == IF m <= hi THEN m ELSE hi

\* What a walk takes at one stop where hi is there and m is still wanted.
Clip(m, hi) == IF m <= 0 THEN 0 ELSE IF m <= hi THEN m ELSE hi

(***************************************************************************)
(* The walk: n is taken out of the stops f (stop -> what it holds) in the  *)
(* order R, from each stop whatever the earlier ones left wanting.         *)
(***************************************************************************)
Walk(n, f, R) ==
  [i \in DOMAIN f |->
     Clip(n - SumFunctionOnSet(f, {j \in DOMAIN f : <<j, i>> \in R}), f[i])]

\* The elements of the finite set S as a sequence, in the order R.
InOrder(S, R) ==
  CHOOSE s \in [1..Cardinality(S) -> S] :
    \A i, j \in 1..Cardinality(S) : i < j => <<s[i], s[j]>> \in R

\* The order of creation (created_at, id).
CreationOrder(S) == {p \in S \X S : p[1] < p[2]}

\* Mutant of SpendOrder: oldest first, whatever the deadline.
OldestFirst(ls) == CreationOrder(DOMAIN ls)

\* The order in which lots are spent: expiring soonest first, then oldest.
SpendOrder(ls) ==
  {p \in (DOMAIN ls) \X (DOMAIN ls) :
     \/ ls[p[1]].exp < ls[p[2]].exp
     \/ ls[p[1]].exp = ls[p[2]].exp /\ p[1] < p[2]}

\* Reservations are refunded newest allocation first: the same walk, reversed.
RefundOrder(ls) ==
  {p \in (DOMAIN ls) \X (DOMAIN ls) : <<p[2], p[1]>> \in SpendOrder(ls)}

Remaining(ls) == [i \in DOMAIN ls |-> ls[i].rem]

\* Lots that can still be spent: unspent and not past their expiry.
Live(ls, now) == {i \in DOMAIN ls : ls[i].rem > 0 /\ ls[i].exp > now}

Due(ls, now) == {i \in DOMAIN ls : ls[i].rem > 0 /\ ls[i].exp <= now}

LiveBalance(ls, now) == SumFunctionOnSet(Remaining(ls), Live(ls, now))

\* Zero the expired lots, one EXPIRATION row each.
ExpireDueLots(ls, now) ==
  [i \in DOMAIN ls |->
     IF i \in Due(ls, now)
       THEN [ls[i] EXCEPT !.rem = 0, !.expired = @ + ls[i].rem]
       ELSE ls[i]]

\* What each live lot gives up to a spend of n credits.
Consumption(ls, n, now) ==
  Walk(n, Restrict(Remaining(ls), Live(ls, now)), SpendOrder(ls))

\* Mutant of TakeFrom: the decrement is applied twice.
TakeTwiceFrom(ls, take) ==
  [i \in DOMAIN ls |->
     IF i \in DOMAIN take THEN [ls[i] EXCEPT !.rem = @ - 2 * take[i]] ELSE ls[i]]

\* The lots once each lot i of DOMAIN take has given up take[i].
TakeFrom(ls, take) ==
  [i \in DOMAIN ls |->
     IF i \in DOMAIN take THEN [ls[i] EXCEPT !.rem = @ - take[i]] ELSE ls[i]]

ConsumeLots(ls, n, now) == TakeFrom(ls, Consumption(ls, n, now))

\* What a reservation holds after a walk: only the stops that gave something.
Positive(take) == Restrict(take, {i \in DOMAIN take : take[i] > 0})

\* What a refund of n credits takes back out of a reservation's allocations.
Refund(ls, alloc, n) == Walk(n, alloc, RefundOrder(ls))

\* Mutant of HoldReleaseLots: the lots handed back never expire.
UndatedReleaseLots(ls, back) ==
  LET s == InOrder(DOMAIN Positive(back), RefundOrder(ls))
      last == CHOOSE e \in {ls[i].exp : i \in DOMAIN ls} :
                \A i \in DOMAIN ls : ls[i].exp <= e
  IN  [k \in DOMAIN s |->
         [rem |-> back[s[k]], exp |-> last,
          grant |-> ls[s[k]].grant, expired |-> 0]]

\* Fresh lots for the credits handed back, with the expiry and the grant of
\* the lot each came from, in the order the refund walks the allocations.
HoldReleaseLots(ls, back) ==
  LET s == InOrder(DOMAIN Positive(back), RefundOrder(ls))
  IN  [k \in DOMAIN s |->
         [rem |-> back[s[k]], exp |-> ls[s[k]].exp,
          grant |-> ls[s[k]].grant, expired |-> 0]]

(***************************************************************************)
(* Debts: out is CreditDebt.credits_outstanding, init credits_initial, row *)
(* the ledger row that opened it, billed the sum of the settlement rows    *)
(* written for it.  They are indexed in order of creation.                 *)
(***************************************************************************)
OpenDebts(ds) == {d \in DOMAIN ds : ds[d].out > 0}

Outstanding(ds) == [d \in OpenDebts(ds) |-> ds[d].out]

\* Mutant of Collection: only the oldest open debt is collected.
CollectionOfOldest(ls, ds, now) ==
  LET oldest == {d \in OpenDebts(ds) : \A e \in OpenDebts(ds) : d <= e}
  IN  Walk(LiveBalance(ls, now), Restrict(Outstanding(ds), oldest),
           CreationOrder(DOMAIN ds))

\* What each open debt collects when the lots ls come in: oldest debt first.
Collection(ls, ds, now) ==
  Walk(LiveBalance(ls, now), Outstanding(ds), CreationOrder(DOMAIN ds))

SettleDebts(ls, ds, now) ==
  LET pay == Collection(ls, ds, now)
  IN  [d \in DOMAIN ds |->
         IF d \in DOMAIN pay
           THEN [ds[d] EXCEPT !.out = @ - pay[d], !.billed = @ + pay[d]]
           ELSE ds[d]]

\* The lots that leaves: consecutive walks in one order are one longer walk.
LotsAfterSettling(ls, ds, now) ==
  ConsumeLots(ls, SumFunction(Collection(ls, ds, now)), now)

===============================================================================
