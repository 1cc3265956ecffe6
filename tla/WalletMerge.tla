----------------------------- MODULE WalletMerge -----------------------------
(***************************************************************************)
(* Several accounts of stapel-billing while one is folded into another:    *)
(* merge_wallets() and what runs next to it (src/services.py,              *)
(* src/actions.py, WalletView of src/views.py).                            *)
(*                                                                         *)
(* merge_wallets(), release() and claw_back_grant() learn which wallet to  *)
(* lock before they lock it, and WalletView.patch() writes back a row it   *)
(* read without a lock: each is two steps of a process, and a merge may    *)
(* commit between them.  credit(), debit() and hold() find the wallet by   *)
(* its owner with the lock already on it and are one step.  How lots are   *)
(* walked is CreditLots' business; here a lot also belongs to a wallet.    *)
(***************************************************************************)
EXTENDS CreditLots

CONSTANTS
  Users,
  NoUser,      \* the owner of a closed wallet
  Merges,      \* the user.merged events: <<from_user_id, into_user_id>>
  Procs,       \* bound: calls under way at once
  Patchers,    \* the users who change their wallet's settings
  HoldKeys,    \* idempotency keys callers use for hold()
  Subs,        \* subscriptions
  InitialSubs, \* who may have them at first: functions from Subs to accounts
  Amounts,
  Deadlines,
  MaxClock,    \* bound: the last clock reading
  MaxWallets,  \* bound: the wallets there may ever be
  MaxRows,     \* bound: ledger rows
  MaxHolds     \* bound: holds

Never == MaxClock + 1
Wallets == 1..MaxWallets
NoWallet == 0

ASSUME AccountsAssumption ==
  /\ NoUser \notin Users
  /\ Merges \subseteq {m \in Users \X Users : m[1] # m[2]}
  /\ Patchers \subseteq Users
  /\ InitialSubs \subseteq [Subs -> Users \cup {NoUser}]
\* "a guest account was folded into an account that already existed": a guest is
\* nobody's survivor, and GuestDeniedMixin keeps guests away from the settings.
ASSUME GuestsAssumption ==
  \A m \in Merges : m[1] \notin Patchers \cup {n[2] : n \in Merges}
ASSUME CreditsAssumption ==
  /\ Amounts \subseteq Nat \ {0} /\ Deadlines \subseteq 0..Never
  /\ {MaxClock, MaxWallets, MaxRows, MaxHolds} \subseteq Nat

VARIABLES
  clock,
  owner,     \* Wallet.user
  merged,    \* Wallet.merged_into
  balance,   \* Wallet.balance
  lots,      \* each wallet's lots
  debts,     \* each wallet's debts
  holds,     \* CreditHold, in order of creation
  ledger,    \* Transaction, in order of creation
  subs,      \* Subscription.user
  at         \* what each process is doing

money == <<balance, lots, debts, holds, ledger>>
rows == <<owner, merged>>
vars == <<clock, rows, money, subs, at>>

\* bound: granted from a source in MERGE_FORFEIT_LOT_SOURCES.  user: history,
\* whose account the credits were given to.
Entry(wallet, type, delta, user) ==
  [wallet |-> wallet, type |-> type, delta |-> delta, user |-> user,
   bound |-> FALSE, merge |-> <<>>, clawed |-> FALSE]

NextRow == Len(ledger) + 1
Post(entry) == NextRow <= MaxRows /\ ledger' = Append(ledger, entry)

Idle == [step |-> "idle"]

WalletsOf(u) == {w \in Wallets : owner[w] = u}
Unused == {w \in Wallets : owner[w] = NoUser /\ merged[w] = NoWallet}

\* get_or_create(): the wallet of a user, a new one if there is none.
WalletFor(u) ==
  IF WalletsOf(u) # {} THEN WalletsOf(u) ELSE {w \in Unused : \A v \in Unused : w <= v}

SyncBalance(w) == balance' = [balance EXCEPT ![w] = LiveBalance(lots'[w], clock)]

Init ==
  /\ clock = 0
  /\ owner = [w \in Wallets |-> NoUser] /\ merged = [w \in Wallets |-> NoWallet]
  /\ balance = [w \in Wallets |-> 0]
  /\ lots = [w \in Wallets |-> <<>>] /\ debts = [w \in Wallets |-> <<>>]
  /\ holds = <<>> /\ ledger = <<>>
  /\ subs \in InitialSubs
  /\ at = [p \in Procs |-> Idle]

Tick ==
  /\ clock < MaxClock /\ clock' = clock + 1
  /\ UNCHANGED <<rows, money, subs, at>>

-------------------------------------------------------------------------------
(***************************************************************************)
(* What the wallet's owner does, each one transaction under its lock.      *)
(***************************************************************************)
Granted(c, exp) == [rem |-> c, exp |-> exp, grant |-> NextRow, expired |-> 0]

\* credit(), to an account whose wallet may have just been closed or not exist.
Credit(u, c, exp, bound) ==
  \E w \in WalletFor(u) :
    LET ls == Append(ExpireDueLots(lots[w], clock), Granted(c, exp))
    IN  /\ exp > clock
        /\ Post([Entry(w, "grant", c, u) EXCEPT !.bound = bound])
        /\ owner' = [owner EXCEPT ![w] = u]
        /\ lots' = [lots EXCEPT ![w] = LotsAfterSettling(ls, debts[w], clock)]
        /\ debts' = [debts EXCEPT ![w] = SettleDebts(ls, @, clock)]
        /\ SyncBalance(w)
        /\ UNCHANGED <<clock, merged, holds, subs, at>>

\* debit() of what there is, the rest as a debt.
Debit(u, c) ==
  \E w \in WalletsOf(u) :
    LET ls == ExpireDueLots(lots[w], clock)
        charged == Clip(c, LiveBalance(ls, clock))
    IN  /\ Post(Entry(w, "charge", -charged, u))
        /\ lots' = [lots EXCEPT ![w] = ConsumeLots(ls, charged, clock)]
        /\ debts' = IF charged = c THEN debts
                    ELSE [debts EXCEPT ![w] = Append(@,
                      [out |-> c - charged, init |-> c - charged, billed |-> 0,
                       row |-> NextRow])]
        /\ SyncBalance(w)
        /\ UNCHANGED <<clock, rows, holds, subs, at>>

\* The idempotency key of a hold; a second part names the wallet it left.
Key(k) == <<k>>
HoldsIn(w) == {h \in DOMAIN holds : holds[h].wallet = w}
KeysIn(w) == {holds[h].key : h \in HoldsIn(w)}

\* hold() under a key its wallet has not used: back is what would be returned.
Hold(u, k, c) ==
  \E w \in WalletsOf(u) :
    LET ls == ExpireDueLots(lots[w], clock)
    IN  /\ Key(k) \notin KeysIn(w) /\ c <= LiveBalance(ls, clock)
        /\ Len(holds) < MaxHolds
        /\ holds' = Append(holds,
             [wallet |-> w, key |-> Key(k), open |-> TRUE,
              back |-> HoldReleaseLots(ls, Consumption(ls, c, clock))])
        /\ lots' = [lots EXCEPT ![w] = ConsumeLots(ls, c, clock)]
        /\ SyncBalance(w)
        /\ UNCHANGED <<clock, rows, debts, ledger, subs, at>>

-------------------------------------------------------------------------------
(***************************************************************************)
(* Calls that look up the wallet before they lock it.                      *)
(***************************************************************************)
Begin(p, call) == at[p] = Idle /\ at' = [at EXCEPT ![p] = call]
Done(p) == at' = [at EXCEPT ![p] = Idle]

\* release() and expire_holds() read the hold to learn its wallet ...
LoadHold(p, h) ==
  /\ holds[h].open
  /\ Begin(p, [step |-> "release", hold |-> h, wallet |-> holds[h].wallet])
  /\ UNCHANGED <<clock, rows, money, subs>>

\* ... and then lock that wallet, which may not be the hold's any more: the
\* credits go to the hold's wallet, the sweep and the cache are the other's.
Release(p) ==
  LET h == at[p].hold
      w == at[p].wallet
      home == holds[h].wallet
      swept == [lots EXCEPT ![w] = ExpireDueLots(@, clock)]
      refunded == [swept EXCEPT ![home] = @ \o holds[h].back]
  IN  /\ at[p].step = "release" /\ Done(p)
      /\ IF holds[h].open
           THEN /\ lots' = [refunded EXCEPT ![w] = ExpireDueLots(@, clock)]
                /\ holds' = [holds EXCEPT ![h].open = FALSE, ![h].back = <<>>]
                /\ SyncBalance(w)
                /\ UNCHANGED <<debts, ledger>>
           ELSE UNCHANGED money
      /\ UNCHANGED <<clock, rows, subs>>

\* A refund of a grant has read the ledger row that made it ...
LoadGrant(p, r) ==
  /\ ledger[r].type = "grant" /\ ~ledger[r].clawed
  /\ Begin(p, [step |-> "clawback", row |-> r, wallet |-> ledger[r].wallet])
  /\ UNCHANGED <<clock, rows, money, subs>>

LotsOfGrant(ls, r) == {i \in DOMAIN ls : ls[i].grant = r}

\* ... and locks the wallet that row named: claw_back_grant() of all of it.
ClawBack(p) ==
  LET r == at[p].row
      w == at[p].wallet
      home == ledger[r].wallet
      swept == [lots EXCEPT ![w] = ExpireDueLots(@, clock)]
      ls == swept[home]
      take == Walk(ledger[r].delta, Restrict(Remaining(ls), LotsOfGrant(ls, r)),
                   CreationOrder(DOMAIN ls))
      owed == ledger[r].delta - SumFunction(take)
      gone == SumFunctionOnSet([i \in DOMAIN ls |-> ls[i].expired], LotsOfGrant(ls, r))
      debt == owed - Clip(owed, gone)
  IN  /\ at[p].step = "clawback" /\ Done(p)
      /\ IF ledger[r].clawed THEN UNCHANGED money
         ELSE /\ NextRow <= MaxRows
              /\ ledger' = Append([ledger EXCEPT ![r].clawed = TRUE],
                   Entry(w, "refund", -SumFunction(take), ledger[r].user))
              /\ lots' = [swept EXCEPT ![home] = TakeFrom(ls, take)]
              /\ debts' = IF debt = 0 THEN debts
                          ELSE [debts EXCEPT ![w] = Append(@,
                            [out |-> debt, init |-> debt, billed |-> 0, row |-> NextRow])]
              /\ SyncBalance(w)
              /\ UNCHANGED holds
      /\ UNCHANGED <<clock, rows, subs>>

\* WalletView.patch() reads the wallet without a lock ...
ReadWallet(p, u) ==
  \E w \in WalletsOf(u) :
    /\ Begin(p, [step |-> "patch", wallet |-> w, owner |-> owner[w],
                 merged |-> merged[w], balance |-> balance[w]])
    /\ UNCHANGED <<clock, rows, money, subs>>

\* ... and saves every column of it.
SaveWallet(p) ==
  LET w == at[p].wallet
  IN  /\ at[p].step = "patch" /\ Done(p)
      /\ owner' = [owner EXCEPT ![w] = at[p].owner]
      /\ merged' = [merged EXCEPT ![w] = at[p].merged]
      /\ balance' = [balance EXCEPT ![w] = at[p].balance]
      /\ UNCHANGED <<clock, lots, debts, holds, ledger, subs>>

-------------------------------------------------------------------------------
Applied(m) == \E r \in DOMAIN ledger : ledger[r].merge = m

SubsOf(u) == {s \in Subs : subs[s] = u}

\* Mutant of MergeSubscription: the merged account's plan is always dropped.
DropSubscription(m) ==
  subs' = [s \in Subs |-> IF s \in SubsOf(m[1]) THEN NoUser ELSE subs[s]]

\* _merge_subscription(): the survivor's own plan wins; otherwise it moves.
MergeSubscription(m) ==
  subs' = [s \in Subs |->
             IF s \notin SubsOf(m[1]) THEN subs[s]
             ELSE IF SubsOf(m[2]) # {} THEN NoUser ELSE m[2]]

\* merge_wallets() of an account without a wallet.
MergeSubscriptionOnly(m) ==
  /\ ~Applied(m) /\ WalletsOf(m[1]) = {}
  /\ MergeSubscription(m) /\ subs' # subs
  /\ UNCHANGED <<clock, rows, money, at>>

\* merge_wallets() up to its locks: has this pair been merged, which wallets.
BeginMerge(p, m) ==
  \E w \in WalletsOf(m[1]), v \in WalletFor(m[2]) :
    /\ ~Applied(m)
    /\ Begin(p, [step |-> "merge", merge |-> m, from |-> w, into |-> v])
    /\ owner' = [owner EXCEPT ![v] = m[2]]
    /\ UNCHANGED <<clock, merged, money, subs>>

\* Mutant of Forfeit: the lots are emptied and no expiry is written down.
ForfeitUnrecorded(ls) ==
  [i \in DOMAIN ls |->
     IF ledger[ls[i].grant].bound THEN [ls[i] EXCEPT !.rem = 0] ELSE ls[i]]

\* _forfeit_lots_on_merge(): what was given to the merged account as a gift,
\* and what releases handed back of it, does not move.
Forfeit(ls) ==
  [i \in DOMAIN ls |->
     IF ledger[ls[i].grant].bound
       THEN [ls[i] EXCEPT !.rem = 0, !.expired = @ + ls[i].rem]
       ELSE ls[i]]

\* The key a moved hold gets when the survivor has used its own.
Renamed(h, w, v) ==
  IF holds[h].key \in KeysIn(v) THEN Append(holds[h].key, w) ELSE holds[h].key

\* Mutant of MovedHolds: the reservations stay on the closed wallet.
HoldsLeft(w, v) == holds

MovedHolds(w, v) ==
  [h \in DOMAIN holds |->
     IF h \in HoldsIn(w) THEN [holds[h] EXCEPT !.wallet = v, !.key = Renamed(h, w, v)]
                         ELSE holds[h]]

MovedRows(w, v) ==
  [r \in DOMAIN ledger |->
     IF ledger[r].wallet = w THEN [ledger[r] EXCEPT !.wallet = v] ELSE ledger[r]]

\* Mutant of LotsLeft: the survivor gets copies.
LotsCopied(w) == lots[w]

\* The lots that stay on the closed wallet: all of them change hands.
LotsLeft(w) == <<>>

\* merge_wallets() under the locks, taken in primary-key order: sweep, forfeit,
\* move everything, close the wallet, say so in the ledger, collect debts.
Merge(p) ==
  LET w == at[p].from
      v == at[p].into
      m == at[p].merge
      moving == Forfeit(ExpireDueLots(lots[w], clock))
      ls == ExpireDueLots(lots[v] \o moving, clock)
      ds == debts[v] \o debts[w]
  IN  /\ at[p].step = "merge" /\ Done(p) /\ NextRow <= MaxRows
      /\ lots' = [lots EXCEPT ![w] = LotsLeft(w), ![v] = LotsAfterSettling(ls, ds, clock)]
      /\ debts' = [debts EXCEPT ![w] = <<>>, ![v] = SettleDebts(ls, ds, clock)]
      /\ holds' = MovedHolds(w, v)
      /\ ledger' = Append(MovedRows(w, v),
           [Entry(v, "merge", LiveBalance(moving, clock), m[2]) EXCEPT !.merge = m])
      /\ owner' = [owner EXCEPT ![w] = NoUser]
      /\ merged' = [merged EXCEPT ![w] = v]
      /\ balance' = [balance EXCEPT ![w] = 0, ![v] = LiveBalance(lots'[v], clock)]
      /\ MergeSubscription(m)
      /\ UNCHANGED <<clock>>

\* reconcile_wallet_balances(): the wallets whose cache is not what their
\* live lots add up to; reported, never corrected.
Drifted == {w \in Wallets : balance[w] # LiveBalance(lots[w], clock)}

-------------------------------------------------------------------------------
Own ==
  \E u \in Users, c \in Amounts :
    \/ \E exp \in Deadlines, bound \in BOOLEAN : Credit(u, c, exp, bound)
    \/ Debit(u, c)
    \/ \E k \in HoldKeys : Hold(u, k, c)

Call(p) ==
  \/ \E h \in DOMAIN holds : LoadHold(p, h)
  \/ \E r \in DOMAIN ledger : LoadGrant(p, r)
  \/ \E u \in Patchers : ReadWallet(p, u)
  \/ \E m \in Merges : BeginMerge(p, m)
  \/ Release(p) \/ ClawBack(p) \/ SaveWallet(p) \/ Merge(p)

Next ==
  \/ Tick \/ Own
  \/ \E p \in Procs : Call(p)
  \/ \E m \in Merges : MergeSubscriptionOnly(m)

Spec == Init /\ [][Next]_vars

-------------------------------------------------------------------------------
Lot == [rem : Nat, exp : 0..Never, grant : Nat, expired : Nat]
Debt == [out : Nat, init : Nat, billed : Nat, row : Nat]
HoldRow == [wallet : Wallets, key : Seq(HoldKeys \cup Wallets), open : BOOLEAN,
            back : Seq(Lot)]
LedgerRow == [wallet : Wallets, type : {"grant", "charge", "refund", "merge"},
              delta : Int, user : Users, bound : BOOLEAN,
              merge : Merges \cup {<<>>}, clawed : BOOLEAN]

GrantRows == {r \in DOMAIN ledger : ledger[r].type = "grant"}

Calls ==
  {Idle}
  \cup [step : {"release"}, hold : DOMAIN holds, wallet : Wallets]
  \cup [step : {"clawback"}, row : GrantRows, wallet : Wallets]
  \cup [step : {"patch"}, wallet : Wallets, owner : Patchers,
        merged : {NoWallet}, balance : Nat]
  \cup [step : {"merge"}, merge : Merges, from : Wallets, into : Wallets]

\* Types: a lot names the ledger row that granted it, a closed wallet has no
\* owner, a call under way names rows that exist.
TypeOK ==
  /\ clock \in 0..MaxClock
  /\ owner \in [Wallets -> Users \cup {NoUser}]
  /\ merged \in [Wallets -> Wallets \cup {NoWallet}]
  /\ \A w \in Wallets : merged[w] # NoWallet => owner[w] = NoUser
  /\ balance \in [Wallets -> Nat]
  /\ lots \in [Wallets -> Seq(Lot)] /\ debts \in [Wallets -> Seq(Debt)]
  /\ holds \in Seq(HoldRow) /\ ledger \in Seq(LedgerRow)
  /\ \A w \in Wallets : \A i \in DOMAIN lots[w] : lots[w][i].grant \in GrantRows
  /\ \A h \in DOMAIN holds : \A i \in DOMAIN holds[h].back :
       holds[h].back[i].grant \in GrantRows
  /\ subs \in [Subs -> Users \cup {NoUser}]
  /\ at \in [Procs -> Calls]

Total(f) == SumFunction([x \in DOMAIN f |-> SumFunction(f[x])])

\* Credits are moved, never copied or dropped: over all wallets, whatever
\* merges, stale locks and stale saves come in between, lots and reservations
\* hold what was granted less what was charged, taken back, expired, forfeited
\* and collected.  A merge row moves credits, it does not make any.
Conservation ==
  Total([w \in Wallets |-> Remaining(lots[w])])
    + Total([h \in DOMAIN holds |-> Remaining(holds[h].back)])
  = SumFunctionOnSet([r \in DOMAIN ledger |-> ledger[r].delta],
                     {r \in DOMAIN ledger : ledger[r].type # "merge"})
    - Total([w \in Wallets |-> [i \in DOMAIN lots[w] |-> lots[w][i].expired]])
    - Total([w \in Wallets |-> [d \in DOMAIN debts[w] |-> debts[w][d].billed]])

\* Who may hold what was given to u: u, and who u was folded into.
Heirs(u) == {u} \cup {m[2] : m \in {n \in Merges : n[1] = u /\ Applied(n)}}

\* user.merged: "every row that named it belongs to into_user_id now".  Credits,
\* in lots or in reservations, are in the wallet of the account they were given
\* to or of the one it was folded into: none are left on a wallet nobody can
\* sign in to, however the merge interleaves with releases and redeliveries.
EveryCreditHasItsHeir ==
  /\ \A w \in Wallets : \A i \in DOMAIN lots[w] :
       lots[w][i].rem > 0 => owner[w] \in Heirs(ledger[lots[w][i].grant].user)
  /\ \A h \in DOMAIN holds : holds[h].open =>
       \A i \in DOMAIN holds[h].back :
         owner[holds[h].wallet] \in Heirs(ledger[holds[h].back[i].grant].user)

\* user.merged is delivered at least once: however often and however close
\* together, one pair's credits are announced in the survivor's ledger once.
MovedOnce ==
  \A q, r \in DOMAIN ledger :
    /\ ledger[q].type = "merge" /\ ledger[q].merge = ledger[r].merge
    /\ ledger[q].delta > 0 /\ ledger[r].delta > 0
    => q = r

\* Keys of holds are unique per wallet in the database: a merge that brings a
\* second one would be refused for ever.
HoldKeysUnique ==
  \A g, h \in DOMAIN holds :
    holds[g].wallet = holds[h].wallet /\ holds[g].key = holds[h].key => g = h

\* A plan someone pays for does not evaporate: a subscription is left without
\* an account only when the survivor of its merge had one of its own.
PlansKept ==
  [][\A s \in Subs :
       subs[s] # NoUser /\ subs'[s] = NoUser =>
         \E t \in Subs : <<subs[s], subs[t]>> \in Merges /\ subs'[t] = subs[t]]_vars

-------------------------------------------------------------------------------
(***************************************************************************)
(* What the documentation says and the code does not do (see the README).  *)
(***************************************************************************)

\* Wallet.balance: "Maintained cache of SUM(credit_lot.credits_remaining) over live
\* lots; write it only through stapel_billing.services".  Whatever commits, the
\* cached balance of a wallet with no lot waiting for the expiry sweep is what
\* its lots add up to.
CacheMaintained ==
  \A w \in Drifted : \E i \in DOMAIN lots[w] : lots[w][i].rem > 0 /\ lots[w][i].exp <= clock

\* "transactions, holds and debts move with them": none stays behind.
DebtsMove ==
  \A w \in Wallets : merged[w] # NoWallet => OpenDebts(debts[w]) = {}

===============================================================================
