----------------------------- MODULE CreditWallet -----------------------------
(***************************************************************************)
(* One wallet of stapel-billing and everything that moves its credits      *)
(* (src/services.py, the expiry workers of src/tasks.py).                  *)
(*                                                                         *)
(* Every service is one transaction under the wallet's row lock, so each   *)
(* is one action here.  Two things happen outside the lock and are kept    *)
(* apart: most services read now before they wait for the lock (Readings)  *)
(* and the worker that expires holds lists them first and releases them    *)
(* one by one later (sweep).  A call that raises rolls its transaction     *)
(* back and a call answered from its idempotency key writes nothing: both  *)
(* leave the state as it is, and are the actions' guards.                  *)
(***************************************************************************)
EXTENDS CreditLots

CONSTANTS
  Keys,       \* idempotency keys of credit() and debit()
  NoKey,      \* the row of a call without one
  HoldKeys,   \* idempotency keys of hold(), unique per wallet
  NoHold,     \* a ledger row that is not the charge of a hold
  Amounts,    \* credits a caller asks for
  Deadlines,  \* expires_at of grants and holds, Never included
  Waivers,    \* what internal.meter_only answers
  Reasons,    \* why a grant is clawed back
  MaxClock,   \* bound: the last clock reading
  MaxLag,     \* bound: how long a call waits for the wallet's lock
  MaxLots,    \* bound: lots a wallet gets
  MaxRows     \* bound: ledger rows a wallet gets

\* A deadline no clock reading reaches: expires_at IS NULL.
Never == MaxClock + 1

ASSUME KeysAssumption == NoKey \notin Keys /\ NoHold \notin HoldKeys
ASSUME HoldKeysAssumption == IsFiniteSet(HoldKeys)
ASSUME AmountsAssumption == Amounts \subseteq Nat \ {0}
ASSUME DeadlinesAssumption == Deadlines \subseteq 0..Never
ASSUME PolicyAssumption ==
  Waivers \subseteq BOOLEAN /\ Reasons \subseteq {"refund", "dispute"}
ASSUME BoundsAssumption ==
  MaxClock \in Nat /\ MaxLag \in Nat /\ MaxLots \in Nat /\ MaxRows \in Nat

VARIABLES
  clock,    \* the wall clock
  lots,     \* CreditLot, in order of creation
  balance,  \* Wallet.balance: a cache of the live lots
  asOf,     \* history: the clock reading that cache was last computed with
  holds,    \* CreditHold with its HoldAllocations, by idempotency key
  debts,    \* CreditDebt, in order of creation
  ledger,   \* Transaction, in order of creation; EXPIRATION rows are the
            \* lots' expired, settlement rows the debts' billed
  sweep     \* the holds a running expire_holds() listed and has yet to release

vars == <<clock, lots, balance, asOf, holds, debts, ledger, sweep>>

HoldStatus == {"none", "held", "captured", "released", "expired"}
RowType == {"grant", "charge", "capture", "refund", "dispute", "restored"}

Lot == [rem : Nat, exp : 0..Never, grant : Nat, expired : Nat]
Debt == [out : Nat, init : Nat, billed : Nat, row : Nat]

\* of: the grant a clawback takes back, or the clawback a restoration undoes.
Row == [type : RowType, delta : Int, key : Keys \cup {NoKey},
        hold : HoldKeys \cup {NoHold}, of : Nat, requested : Nat,
        reversed : BOOLEAN]

NoAlloc == [i \in {} |-> 0]

\* alloc: the allocations, as what each lot gave to the reservation.
NewHold == [status |-> "none", credits |-> 0, alloc |-> NoAlloc,
            exp |-> Never, waived |-> FALSE]

Open(h) == holds[h].status = "held"

\* A call reads now, then waits for the lock.
Readings == {t \in 0..clock : t + MaxLag >= clock}

\* Mutant of Unused: only grants are looked up by key.
UnusedByGrants(key) ==
  \A r \in DOMAIN ledger :
    ledger[r].type = "grant" => key = NoKey \/ ledger[r].key # key

\* _transaction_by_idempotency_key() finds nothing.
Unused(key) == \A r \in DOMAIN ledger : key = NoKey \/ ledger[r].key # key

Entry(type, delta) ==
  [type |-> type, delta |-> delta, key |-> NoKey, hold |-> NoHold,
   of |-> 0, requested |-> 0, reversed |-> FALSE]

NextRow == Len(ledger) + 1

Post(row) == NextRow <= MaxRows /\ ledger' = Append(ledger, row)

OpenDebt(ds, credits, row) ==
  Append(ds, [out |-> credits, init |-> credits, billed |-> 0, row |-> row])

\* Mutant of SyncBalance: the cache is computed before the lots move.
SyncBalanceEarly(now) == balance' = LiveBalance(lots, now) /\ asOf' = now

SyncBalance(now) == balance' = LiveBalance(lots', now) /\ asOf' = now

\* The lots a wallet has, and those its open reservations may yet hand back.
LotsDue(ls, hs) ==
  Len(ls) + Cardinality({p \in HoldKeys \X (1..Len(ls)) :
                           hs[p[1]].status = "held" /\ p[2] \in DOMAIN hs[p[1]].alloc})

\* Bound: no call that adds lots, now or when a hold is resolved, goes past it.
LotsBounded == LotsDue(lots', holds') <= MaxLots

-------------------------------------------------------------------------------
Init ==
  /\ clock = 0 /\ asOf = 0 /\ balance = 0
  /\ lots = <<>> /\ debts = <<>> /\ ledger = <<>>
  /\ holds = [h \in HoldKeys |-> NewHold]
  /\ sweep = {}

Tick ==
  /\ clock < MaxClock /\ clock' = clock + 1
  /\ UNCHANGED <<lots, balance, asOf, holds, debts, ledger, sweep>>

\* credit(): one lot and its grant row; the debts take their share first.
Credit(key, c, exp, settle) ==
  \E now \in Readings :
    LET granted == Append(ExpireDueLots(lots, now),
                     [rem |-> c, exp |-> exp, grant |-> NextRow, expired |-> 0])
    IN  /\ exp > now /\ Unused(key)
        /\ Post([Entry("grant", c) EXCEPT !.key = key])
        /\ lots' = IF settle THEN LotsAfterSettling(granted, debts, now) ELSE granted
        /\ debts' = IF settle THEN SettleDebts(granted, debts, now) ELSE debts
        /\ SyncBalance(now)
        /\ UNCHANGED <<clock, holds, sweep>>
        /\ LotsBounded

\* debit(): all or nothing, or what there is and the rest as a debt.
Debit(key, c, partial) ==
  \E now \in Readings :
    LET ls == ExpireDueLots(lots, now)
        charged == IF partial THEN Clip(c, LiveBalance(ls, now)) ELSE c
    IN  /\ Unused(key) /\ charged <= LiveBalance(ls, now)
        /\ Post([Entry("charge", -charged) EXCEPT !.key = key,
                                                  !.requested = c])
        /\ lots' = ConsumeLots(ls, charged, now)
        /\ debts' = IF charged < c THEN OpenDebt(debts, c - charged, NextRow)
                                   ELSE debts
        /\ SyncBalance(now)
        /\ UNCHANGED <<clock, holds, sweep>>

\* _meter_only_debit(): a row at zero; only the expiry sweep touches the cache.
MeterOnlyDebit(key) ==
  \E now \in Readings :
    /\ TRUE \in Waivers /\ Unused(key)
    /\ Post([Entry("charge", 0) EXCEPT !.key = key])
    /\ lots' = ExpireDueLots(lots, now)
    /\ IF Due(lots, now) # {} THEN SyncBalance(now) ELSE UNCHANGED <<balance, asOf>>
    /\ UNCHANGED <<clock, holds, debts, sweep>>

\* Mutant of Reservable: a captured hold is re-armed like a released one.
ReservableUnlessHeld(h) == holds[h].status # "held"

\* The key has no hold, or one that was given back; otherwise hold() answers
\* with the open one or raises HoldKeyResolvedError.
Reservable(h) == holds[h].status \notin {"held", "captured"}

\* hold(): reserve; the key of a released or expired hold is re-armed in place.
Hold(h, c, exp, waived) ==
  \E now \in Readings :
    LET ls == ExpireDueLots(lots, now)
        credits == IF waived THEN 0 ELSE c
    IN  /\ Reservable(h)
        /\ credits <= LiveBalance(ls, now)
        /\ lots' = ConsumeLots(ls, credits, now)
        /\ holds' = [holds EXCEPT ![h] =
             [status |-> "held", credits |-> credits, exp |-> exp,
              alloc |-> Positive(Consumption(ls, credits, now)),
              waived |-> waived]]
        /\ SyncBalance(now)
        /\ UNCHANGED <<clock, debts, ledger, sweep>>
        /\ LotsBounded

\* Mutants of HandBack: what came back dead stays; nothing comes back at all.
HandBackAlive(ls, back, now) == ls \o HoldReleaseLots(ls, back)
HandBackNothing(ls, back, now) == ExpireDueLots(ls, now)

\* The lots once back has been handed back, what came back dead expired again.
HandBack(ls, back, now) ==
  ExpireDueLots(ls \o HoldReleaseLots(ls, back), now)

\* What is left of, or added to, a reservation.
LessBack(alloc, back) == Positive([i \in DOMAIN alloc |-> alloc[i] - back[i]])

PlusExtra(alloc, extra) ==
  Positive([i \in DOMAIN alloc \cup DOMAIN extra |->
              (IF i \in DOMAIN alloc THEN alloc[i] ELSE 0)
              + (IF i \in DOMAIN extra THEN extra[i] ELSE 0)])

\* Mutant of ChargeHold: the charge is written and the hold stays open.
ChargeHoldUnsettled(h, actual, alloc) ==
  /\ Post([Entry("capture", -actual) EXCEPT !.hold = h])
  /\ holds' = [holds EXCEPT ![h].alloc = alloc]

ChargeHold(h, actual, alloc) ==
  /\ Post([Entry("capture", -actual) EXCEPT !.hold = h])
  /\ holds' = [holds EXCEPT ![h].status = "captured", ![h].alloc = alloc]

\* capture() for the reserved amount or less: the difference is handed back.
CaptureWithin(h, actual) ==
  \E now \in Readings :
    LET ls == ExpireDueLots(lots, now)
        back == Refund(ls, holds[h].alloc, holds[h].credits - actual)
    IN  /\ Open(h) /\ ~holds[h].waived /\ actual <= holds[h].credits
        /\ lots' = HandBack(ls, back, now)
        /\ ChargeHold(h, actual, LessBack(holds[h].alloc, back))
        /\ SyncBalance(now)
        /\ UNCHANGED <<clock, debts, sweep>>

\* capture() for more: the extra comes out of the live lots, or it raises.
CaptureBeyond(h, actual) ==
  \E now \in Readings :
    LET ls == ExpireDueLots(lots, now)
        extra == actual - holds[h].credits
    IN  /\ Open(h) /\ ~holds[h].waived
        /\ extra > 0 /\ extra <= LiveBalance(ls, now)
        /\ lots' = ConsumeLots(ls, extra, now)
        /\ ChargeHold(h, actual,
             PlusExtra(holds[h].alloc, Consumption(ls, extra, now)))
        /\ SyncBalance(now)
        /\ UNCHANGED <<clock, debts, sweep>>

\* _meter_only_capture(): a charge of nothing; it does not expire lots first.
MeterOnlyCapture(h) ==
  \E now \in Readings :
    /\ Open(h) /\ holds[h].waived
    /\ ChargeHold(h, 0, holds[h].alloc)
    /\ UNCHANGED lots
    /\ SyncBalance(now)
    /\ UNCHANGED <<clock, debts, sweep>>

\* The body of release(): every allocation goes back with its own expiry.
GiveBack(h, status) ==
  \E now \in Readings :
    /\ lots' = HandBack(ExpireDueLots(lots, now), holds[h].alloc, now)
    /\ holds' = [holds EXCEPT ![h].status = status, ![h].alloc = NoAlloc]
    /\ SyncBalance(now)
    /\ UNCHANGED <<clock, debts, ledger>>

Release(h) == Open(h) /\ GiveBack(h, "released") /\ UNCHANGED sweep

-------------------------------------------------------------------------------
\* Mutants of the workers' queries: past the deadline, not at it.
ListHoldsPastDeadline ==
  /\ sweep = {}
  /\ sweep' = {h \in HoldKeys : Open(h) /\ holds[h].exp < clock}
  /\ sweep' # {}
  /\ UNCHANGED <<clock, lots, balance, asOf, holds, debts, ledger>>

ExpireLotsPastDeadline ==
  /\ Due(lots, clock - 1) # {}
  /\ lots' = ExpireDueLots(lots, clock)
  /\ SyncBalance(clock)
  /\ UNCHANGED <<clock, holds, debts, ledger, sweep>>

\* expire_holds(): list the reservations past their deadline, no lock taken ...
ListStaleHolds ==
  /\ sweep = {}
  /\ sweep' = {h \in HoldKeys : Open(h) /\ holds[h].exp <= clock}
  /\ sweep' # {}
  /\ UNCHANGED <<clock, lots, balance, asOf, holds, debts, ledger>>

\* ... then release them one by one; release() only asks whether it is held.
ExpireHold(h) ==
  /\ h \in sweep /\ sweep' = sweep \ {h}
  /\ IF Open(h) THEN GiveBack(h, "expired")
     ELSE UNCHANGED <<clock, lots, balance, asOf, holds, debts, ledger>>

\* expire_credit_lots(): reads now again once it has the wallet's lock.
ExpireCreditLots ==
  /\ Due(lots, clock) # {}
  /\ lots' = ExpireDueLots(lots, clock)
  /\ SyncBalance(clock)
  /\ UNCHANGED <<clock, holds, debts, ledger, sweep>>

-------------------------------------------------------------------------------
IsClawback(r) == ledger[r].type \in {"refund", "dispute"}

\* Mutant of ClawbacksOf: a refund does not count the disputes before it.
RefundsOf(g) ==
  {r \in DOMAIN ledger : ledger[r].type = "refund" /\ ledger[r].of = g}

\* _already_clawed_back(): what was requested of a grant, net of reversals.
ClawbacksOf(g) ==
  {r \in DOMAIN ledger : IsClawback(r) /\ ledger[r].of = g /\ ~ledger[r].reversed}

AlreadyClawedBack(g) ==
  SumFunctionOnSet([r \in DOMAIN ledger |-> ledger[r].requested], ClawbacksOf(g))

\* The lots a grant's credits are in, and what a clawback takes out of each.
GrantedLots(ls, g) == {i \in DOMAIN ls : ls[i].grant = g}

Reclaim(ls, g, credits) ==
  Walk(credits, Restrict(Remaining(ls), GrantedLots(ls, g)),
       CreationOrder(DOMAIN ls))

ExpiredOf(ls, g) ==
  SumFunctionOnSet([i \in DOMAIN ls |-> ls[i].expired], GrantedLots(ls, g))

(***************************************************************************)
(* A refund of a grant up to target credits (a dispute: all of it).  What  *)
(* the grant's lots still hold is reclaimed, what expired in them is       *)
(* forgiven, the rest becomes a debt.                                      *)
(***************************************************************************)
ClawBackGrant(g, target, reason) ==
  LET ls == ExpireDueLots(lots, clock)
      credits == target - AlreadyClawedBack(g)
      take == Reclaim(ls, g, credits)
      reclaimed == SumFunction(take)
      owed == credits - reclaimed
      outstanding == owed - Clip(owed, ExpiredOf(ls, g))
  IN  /\ ledger[g].type = "grant"
      /\ target \in 1..ledger[g].delta
      /\ reason = "dispute" => target = ledger[g].delta
      /\ credits > 0
      /\ Post([Entry(reason, -reclaimed) EXCEPT !.of = g, !.requested = credits])
      /\ lots' = TakeFrom(ls, take)
      /\ debts' = IF outstanding > 0 THEN OpenDebt(debts, outstanding, NextRow)
                                     ELSE debts
      /\ SyncBalance(clock)
      /\ UNCHANGED <<clock, holds, sweep>>

\* The debt a ledger row opened (a set of at most one).
DebtsOf(r) == {d \in DOMAIN debts : debts[d].row = r}

\* Mutant of Collected: only what was reclaimed comes back.
CollectedNothing(r) == 0

\* What that debt has collected so far; nothing when there is none.
Collected(r) ==
  SumFunctionOnSet([d \in DOMAIN debts |-> debts[d].init - debts[d].out],
                   DebtsOf(r))

CancelDebts(r) ==
  [d \in DOMAIN debts |->
     IF d \in DebtsOf(r) THEN [debts[d] EXCEPT !.out = 0] ELSE debts[d]]

Reversed(r) == [ledger EXCEPT ![r].reversed = TRUE]

(***************************************************************************)
(* _reverse_clawback(): a won dispute closes the debt it opened and gives  *)
(* back what was reclaimed and what that debt collected, as one lot with   *)
(* the deadline of the grant's first lot.                                  *)
(***************************************************************************)
ReverseClawback(r) ==
  \E now \in Readings :
    LET given == Collected(r) - ledger[r].delta
        g == ledger[r].of
        template == CHOOSE i \in GrantedLots(lots, g) :
                      \A j \in GrantedLots(lots, g) : i <= j
        restored == ExpireDueLots(Append(lots,
          [rem |-> given, exp |-> lots[template].exp, grant |-> g,
           expired |-> 0]), now)
    IN  /\ ledger[r].type = "dispute" /\ ~ledger[r].reversed
        /\ IF given > 0
             THEN /\ NextRow <= MaxRows
                  /\ ledger' = Append(Reversed(r),
                       [Entry("restored", given) EXCEPT !.of = r])
                  /\ lots' = LotsAfterSettling(restored, CancelDebts(r), now)
                  /\ debts' = SettleDebts(restored, CancelDebts(r), now)
                  /\ SyncBalance(now)
             ELSE /\ ledger' = Reversed(r)
                  /\ debts' = CancelDebts(r)
                  /\ UNCHANGED <<lots, balance, asOf>>
        /\ UNCHANGED <<clock, holds, sweep>>
        /\ LotsBounded

-------------------------------------------------------------------------------
Spend ==
  \E key \in Keys \cup {NoKey} :
    \/ \E c \in Amounts, exp \in Deadlines, settle \in BOOLEAN :
         Credit(key, c, exp, settle)
    \/ \E c \in Amounts, partial \in BOOLEAN : Debit(key, c, partial)
    \/ MeterOnlyDebit(key)

Reserve ==
  \E h \in HoldKeys :
    \/ \E c \in Amounts, exp \in Deadlines, waived \in Waivers :
         Hold(h, c, exp, waived)
    \/ \E actual \in Amounts \cup {0} :
         CaptureWithin(h, actual) \/ CaptureBeyond(h, actual)
    \/ MeterOnlyCapture(h)
    \/ Release(h)

Workers == ListStaleHolds \/ (\E h \in HoldKeys : ExpireHold(h)) \/ ExpireCreditLots

MoneyBack ==
  \/ \E g \in DOMAIN ledger, reason \in Reasons :
       \E target \in 1..ledger[g].delta : ClawBackGrant(g, target, reason)
  \/ \E r \in DOMAIN ledger : ReverseClawback(r)

Next == Tick \/ Spend \/ Reserve \/ Workers \/ MoneyBack

Spec == Init /\ [][Next]_vars

-------------------------------------------------------------------------------
HoldRecord(hd) ==
  /\ DOMAIN hd = {"status", "credits", "alloc", "exp", "waived"}
  /\ hd.status \in HoldStatus /\ hd.credits \in Nat
  /\ hd.exp \in 0..Never /\ hd.waived \in BOOLEAN
  /\ DOMAIN hd.alloc \subseteq DOMAIN lots
  /\ \A i \in DOMAIN hd.alloc : hd.alloc[i] \in Nat \ {0}

\* Types: allocations name lots of the wallet, grants and debts name rows.
TypeOK ==
  /\ clock \in 0..MaxClock /\ asOf \in 0..clock /\ balance \in Nat
  /\ lots \in Seq(Lot)
  /\ \A i \in DOMAIN lots : lots[i].grant \in DOMAIN ledger
  /\ debts \in Seq(Debt)
  /\ \A d \in DOMAIN debts : debts[d].row \in DOMAIN ledger
  /\ ledger \in Seq(Row)
  /\ DOMAIN holds = HoldKeys
  /\ \A h \in HoldKeys : HoldRecord(holds[h])
  /\ sweep \subseteq HoldKeys

\* Wallet.balance is what the lots could be spent for when it was last
\* computed: no service moves a lot and forgets _sync_balance, before or after
\* the debts have been collected or dead credits handed back.
BalanceIsLiveLots == balance = LiveBalance(lots, asOf)

Sum(f) == SumFunction(f)

Reserved(h) == IF Open(h) THEN Sum(holds[h].alloc) ELSE 0

\* Credits neither appear nor vanish: what is in the lots and in open
\* reservations is what the ledger granted less what it charged, expired
\* (EXPIRATION rows) and collected (settlement rows).
Conservation ==
  Sum(Remaining(lots)) + Sum([h \in HoldKeys |-> Reserved(h)])
    = Sum([r \in DOMAIN ledger |-> ledger[r].delta])
      - Sum([i \in DOMAIN lots |-> lots[i].expired])
      - Sum([d \in DOMAIN debts |-> debts[d].billed])

ChargesOf(h) == {r \in DOMAIN ledger : ledger[r].hold = h}

\* An open hold is backed by exactly the credits it names; a captured one has
\* one charge row, for what its allocations add up to; a hold that was given
\* back has neither, so its key can be reserved again.
HoldsAccountedFor ==
  \A h \in HoldKeys :
    /\ Open(h) => Sum(holds[h].alloc) = holds[h].credits
    /\ holds[h].status = "captured" =>
         \E r \in DOMAIN ledger : /\ ChargesOf(h) = {r}
                                  /\ ledger[r].delta = -Sum(holds[h].alloc)
    /\ holds[h].status # "captured" => ChargesOf(h) = {}
    /\ holds[h].status \in {"none", "released", "expired"} =>
         DOMAIN holds[h].alloc = {}

\* A retried credit() or debit() does not happen twice: one row per key.
KeysUsedOnce ==
  \A r, s \in DOMAIN ledger :
    ledger[r].key = ledger[s].key /\ r # s => ledger[r].key = NoKey

\* A debt is owed until it is collected; once its dispute is won it is closed,
\* and what it had collected came back together with what was reclaimed.
DebtsAccountedFor ==
  \A d \in DOMAIN debts :
    LET r == debts[d].row
    IN  IF ledger[r].reversed
          THEN /\ debts[d].out = 0
               /\ debts[d].billed - ledger[r].delta > 0 =>
                    \E s \in DOMAIN ledger :
                      /\ ledger[s].type = "restored" /\ ledger[s].of = r
                      /\ ledger[s].delta = debts[d].billed - ledger[r].delta
          ELSE debts[d].out + debts[d].billed = debts[d].init

\* Refunds and disputes of one grant, however they are mixed and reversed,
\* never ask for more than it granted.
ClawbacksWithinGrant ==
  \A g \in DOMAIN ledger :
    ledger[g].type = "grant" =>
      SumFunctionOnSet([r \in DOMAIN ledger |-> ledger[r].requested],
                       {r \in DOMAIN ledger : /\ ledger[r].of = g /\ IsClawback(r)
                                              /\ ~ledger[r].reversed})
        <= ledger[g].delta

\* Credits die when the grant they came from does: reserving them, handing
\* them back or winning a dispute about them never moves the deadline.
GrantDeadlineKept ==
  \A i, j \in DOMAIN lots :
    lots[i].grant = lots[j].grant => lots[i].exp = lots[j].exp

\* Credits that ran out the clock while they were reserved or disputed are
\* gone: a lot a step creates is not left alive past its deadline.
HandedBackDead ==
  [][\A i \in DOMAIN lots' \ DOMAIN lots :
       lots'[i].rem > 0 => lots'[i].exp > asOf']_vars

\* A lot never goes up again, so it stays a record of what was alive when.
LotsOnlyShrink ==
  [][\A i \in DOMAIN lots :
       /\ lots'[i].rem <= lots[i].rem /\ lots'[i].expired >= lots[i].expired
       /\ lots'[i].exp = lots[i].exp /\ lots'[i].grant = lots[i].grant]_vars

\* A captured hold is billed and final: no retry, release, sweep or re-arm
\* touches it again.
CapturedIsFinal ==
  [][\A h \in HoldKeys :
       holds[h].status = "captured" => holds'[h] = holds[h]]_vars

Restores(r) == ReverseClawback(r) /\ Len(ledger') > Len(ledger)

\* A top-up of a wallet that owes is repayment before it is spending money:
\* credits are left over only once nothing is owed.
DebtsCollectedFirst ==
  [][ \/ \E key \in Keys \cup {NoKey}, c \in Amounts, exp \in Deadlines :
           Credit(key, c, exp, TRUE)
      \/ \E r \in DOMAIN ledger : Restores(r)
      => balance' = 0 \/ OpenDebts(debts') = {}]_vars

-------------------------------------------------------------------------------
\* The beat schedule: expire_credit_lots and expire_holds run again and again,
\* and a run of expire_holds releases everything it listed.
Fairness ==
  /\ WF_vars(ExpireCreditLots)
  /\ WF_vars(ListStaleHolds)
  /\ \A h \in HoldKeys : WF_vars(ExpireHold(h))

FairSpec == Spec /\ Fairness

Abandoned(h) == Open(h) /\ holds[h].exp <= clock

\* A pipeline that dies between hold and answer does not lock the credits up
\* for ever: a hold past its deadline does not stay held.
AbandonedHoldsResolved == \A h \in HoldKeys : Abandoned(h) ~> ~Abandoned(h)

\* Credits past their deadline do not stay in a lot, even on a wallet nobody
\* uses any more.
DueLotsExpired ==
  \A i \in 1..MaxLots : (i \in Due(lots, clock)) ~> (i \notin Due(lots, clock))

-------------------------------------------------------------------------------
(***************************************************************************)
(* What the documentation says and the code does not do (see the README).  *)
(***************************************************************************)

\* MODULE.md: "expire_holds (expires_at passed)": a hold is swept only once
\* its deadline has passed.
SweptOnlyPastDeadline ==
  [][\A h \in HoldKeys :
       Open(h) /\ holds'[h].status = "expired" => holds[h].exp <= clock]_vars

Forgiven(r) ==
  ledger[r].requested + ledger[r].delta
    - SumFunctionOnSet([d \in DOMAIN debts |-> debts[d].init], DebtsOf(r))

\* claw_back_grant(): what is forgiven "had already expired unspent", so the
\* clawbacks of a grant together forgive no more than expired of it.
ForgivenHadExpired ==
  \A g \in DOMAIN ledger :
    ledger[g].type = "grant" =>
      SumFunctionOnSet([r \in DOMAIN ledger |-> Forgiven(r)], ClawbacksOf(g))
        <= ExpiredOf(lots, g)

\* MODULE.md: outstanding is "already spent": no debt is opened for credits
\* of the grant that an open reservation still holds.
OwedWasSpent ==
  [][\A r \in DOMAIN ledger' \ DOMAIN ledger :
       ledger'[r].type \in {"refund", "dispute"} /\ Len(debts') > Len(debts) =>
         \A h \in HoldKeys : Open(h) =>
           \A i \in DOMAIN holds[h].alloc : lots[i].grant # ledger'[r].of]_vars

===============================================================================
