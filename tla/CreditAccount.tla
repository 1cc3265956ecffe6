----------------------------- MODULE CreditAccount -----------------------------
(***************************************************************************)
(* What a wallet promises its callers, with no lots, no ledger and no      *)
(* cache: an account of dated credits.  Credits with the same deadline are *)
(* alike.  Spending takes those that die soonest; what a reservation did   *)
(* not need is given back with the deadlines it was taken with, latest     *)
(* first; credits past their deadline are gone the next time the account   *)
(* is touched, wherever they have been meanwhile.  CreditWallet implements *)
(* this (CreditWalletRefinement).                                          *)
(***************************************************************************)
EXTENDS Integers, Functions

CONSTANTS
  HoldKeys,  \* names of reservations
  Amounts,   \* credits a caller asks for
  Never,     \* a deadline no clock reading reaches
  MaxLag     \* how long a call waits between its reading and its turn

VARIABLES
  clock,     \* the wall clock
  funds,     \* deadline -> credits that can be spent
  reserved,  \* reservation -> deadline -> credits set aside
  state,     \* reservation -> free, open or charged
  owed       \* credits served and not yet paid for

vars == <<clock, funds, reserved, state, owed>>

Dates == 0..Never
Nothing == [d \in Dates |-> 0]

Total(f) == SumFunction(f)
Plus(f, g) == [d \in Dates |-> f[d] + g[d]]
Less(f, g) == [d \in Dates |-> f[d] - g[d]]
Dated(c, exp) == [Nothing EXCEPT ![exp] = c]
Alive(f, now) == [d \in Dates |-> IF d > now THEN f[d] ELSE 0]

\* What is left to take at a date with f[d] there, of n, after before.
Left(n, before, there) ==
  IF n <= before THEN 0 ELSE IF n - before <= there THEN n - before ELSE there

\* n credits of f: those that die soonest, those that die latest.
Soonest(n, f) ==
  [d \in Dates |-> Left(n, SumFunctionOnSet(f, {e \in Dates : e < d}), f[d])]
Latest(n, f) ==
  [d \in Dates |-> Left(n, SumFunctionOnSet(f, {e \in Dates : e > d}), f[d])]

Spent(f, n) == Less(f, Soonest(n, f))

Readings == {t \in 0..clock : t + MaxLag >= clock}

\* The funds f, of which debt is paid as far as they go.
Settled(f, debt) ==
  LET paid == Left(debt, 0, Total(f))
  IN  funds' = Spent(f, paid) /\ owed' = debt - paid

Init ==
  /\ clock = 0 /\ owed = 0 /\ funds = Nothing
  /\ reserved = [h \in HoldKeys |-> Nothing]
  /\ state = [h \in HoldKeys |-> "free"]

Tick ==
  clock' = clock + 1 /\ UNCHANGED <<funds, reserved, state, owed>>

\* Credits come in; what is owed may be collected from them at once.
Grant(c, exp) ==
  \E now \in Readings :
    LET f == Plus(Alive(funds, now), Dated(c, exp))
    IN  /\ exp > now
        /\ Settled(f, owed) \/ (funds' = f /\ UNCHANGED owed)
        /\ UNCHANGED <<clock, reserved, state>>

\* c credits of service: paid for in full, or as far as the funds go and owed.
Serve(c) ==
  \E now \in Readings :
    LET f == Alive(funds, now)
        paid == Left(c, 0, Total(f))
    IN  /\ funds' = Spent(f, paid) /\ owed' = owed + (c - paid)
        /\ UNCHANGED <<clock, reserved, state>>

\* A waived reservation sets nothing aside.
Reserve(h, c) ==
  \E now \in Readings :
    LET f == Alive(funds, now)
    IN  /\ state[h] = "free" /\ c <= Total(f)
        /\ state' = [state EXCEPT ![h] = "open"]
        /\ reserved' = [reserved EXCEPT ![h] = Soonest(c, f)]
        /\ funds' = Spent(f, c)
        /\ UNCHANGED <<clock, owed>>

\* A reservation is closed: charged for what it kept, or free again.
Close(h, to) ==
  /\ state[h] = "open" /\ state' = [state EXCEPT ![h] = to]
  /\ reserved' = [reserved EXCEPT ![h] = Nothing]
  /\ UNCHANGED <<clock, owed>>

\* Service that cost what was reserved or less ...
ChargeWithin(h, actual) ==
  \E now \in Readings :
    LET back == Latest(Total(reserved[h]) - actual, reserved[h])
    IN  /\ actual <= Total(reserved[h])
        /\ Close(h, "charged")
        /\ funds' = Alive(Plus(funds, back), now)

\* ... or more: the difference must be there.
ChargeBeyond(h, actual) ==
  \E now \in Readings :
    LET extra == actual - Total(reserved[h])
    IN  /\ extra > 0 /\ extra <= Total(Alive(funds, now))
        /\ Close(h, "charged")
        /\ funds' = Spent(Alive(funds, now), extra)

\* Waived: nothing was reserved and nothing is charged.
ChargeNothing(h) ==
  /\ Close(h, "charged")
  /\ reserved[h] = Nothing /\ UNCHANGED funds

GiveBack(h) ==
  \E now \in Readings :
    /\ Close(h, "free")
    /\ funds' = Alive(Plus(funds, reserved[h]), now)

\* Dead credits are dropped.
Lapse ==
  \E now \in Readings :
    funds' = Alive(funds, now) /\ UNCHANGED <<clock, reserved, state, owed>>

\* Money is taken back: unspent credits of one deadline go, the rest is owed.
TakeBack(c) ==
  \E now \in Readings, exp \in Dates, taken \in 0..c :
    \E debt \in 0..(c - taken) :
      /\ taken <= Alive(funds, now)[exp]
      /\ funds' = Less(Alive(funds, now), Dated(taken, exp))
      /\ owed' = owed + debt
      /\ UNCHANGED <<clock, reserved, state>>

\* ... and returned: what is still owed for it is waived, what was taken for
\* it comes back dated, and pays the other debts before it can be spent.
PayBack(c) ==
  \E now \in Readings, exp \in Dates, waived \in 0..owed :
    /\ \/ Settled(Alive(Plus(funds, Dated(c, exp)), now), owed - waived)
       \/ c = 0 /\ UNCHANGED funds /\ owed' = owed - waived
    /\ UNCHANGED <<clock, reserved, state>>

Next ==
  \/ Tick \/ Lapse
  \/ \E h \in HoldKeys :
       \/ \E c \in Amounts \cup {0} :
            Reserve(h, c) \/ ChargeWithin(h, c) \/ ChargeBeyond(h, c)
       \/ ChargeNothing(h) \/ GiveBack(h)
  \/ \E c \in Amounts :
       \/ Serve(c) \/ \E exp \in Dates : Grant(c, exp)
       \/ \E part \in 0..c : TakeBack(part) \/ PayBack(part)

Spec == Init /\ [][Next]_vars

===============================================================================
