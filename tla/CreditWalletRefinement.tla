------------------------ MODULE CreditWalletRefinement ------------------------
(***************************************************************************)
(* A wallet of stapel-billing implements an account of dated credits: the  *)
(* lots with the same deadline are that date's funds, the allocations of   *)
(* an open hold are what it has set aside, by the deadline of the lot each *)
(* was taken from.                                                         *)
(***************************************************************************)
EXTENDS CreditWallet

\* What the function f of lots holds, deadline by deadline.
ByDeadline(f) ==
  [d \in 0..Never |->
     SumFunctionOnSet(f, {i \in DOMAIN f : lots[i].exp = d})]

AccountState(h) ==
  CASE holds[h].status = "held" -> "open"
    [] holds[h].status = "captured" -> "charged"
    [] OTHER -> "free"

Account == INSTANCE CreditAccount WITH
  funds <- ByDeadline(Remaining(lots)),
  reserved <- [h \in HoldKeys |->
                 IF Open(h) THEN ByDeadline(holds[h].alloc)
                 ELSE [d \in 0..Never |-> 0]],
  state <- [h \in HoldKeys |-> AccountState(h)],
  owed <- SumFunction([d \in DOMAIN debts |-> debts[d].out])

\* Whatever the lots do, callers see credits spent soonest-dying first, given
\* back with the deadline they came with, gone after it, and owed if unpaid.
ImplementsAccount == Account!Spec

===============================================================================
