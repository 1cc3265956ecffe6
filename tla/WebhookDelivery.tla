--------------------------- MODULE WebhookDelivery ---------------------------
(***************************************************************************)
(* A provider's events on their way into the ledger: StripeWebhookView     *)
(* (src/views.py), the replay command, apply_stored_event() and the        *)
(* handlers that sell, renew, take back and report (src/services.py).      *)
(*                                                                         *)
(* The view writes the event's log row first (its own transaction), then   *)
(* runs the handler and the processed mark in one transaction under the    *)
(* row's lock, and records a failure in a third one.  A worker may die     *)
(* between any two of them.  A handler is two steps: what it looks up      *)
(* without a lock (Look), then its claim, its writes and the commit        *)
(* (Apply), so that another event's handler may commit in between.         *)
(* What a grant or a clawback does to a wallet is CreditWallet's business; *)
(* what a checkout does to the subscription is SubscriptionLifecycle's.    *)
(***************************************************************************)
EXTENDS Integers, Sequences, FiniteSets, FiniteSetsExt, Functions

CONSTANTS
  Web,        \* web workers
  Operators,  \* runs of the replay command
  Stories,    \* what may happen at the provider: sets of events, in any order
  MaxFaults   \* bound: handlers that raise and workers that die

Workers == Web \cup Operators

\* All it can send.
Events == UNION Stories

Sales == {"package", "plan", "renewal"}
TakesBack == {"refund", "dispute"}
Types == Sales \cup TakesBack \cup {"closed", "declined", "other"}

\* What is paid for, and granted once.
Payment(e) == <<IF e.type = "renewal" THEN "invoice" ELSE "session", e.about>>
Payments == {Payment(e) : e \in {d \in Events : d.type \in Sales}}

(***************************************************************************)
(* Of a payload, what the handlers read: about (the session, invoice,      *)
(* charge or dispute), pays (the payment a grant records and a refund      *)
(* names), sub, credits (what the catalogue says was sold), part and whole *)
(* (amount_refunded and amount of a charge), ok (settled, and the sum,     *)
(* currency, mode and buyer are what was sold; a dispute: won).            *)
(***************************************************************************)
ASSUME EventsAssumption ==
  \A e \in Events :
    /\ e.type \in Types /\ e.ok \in BOOLEAN
    /\ e.credits \in Nat /\ e.part \in Nat /\ e.whole \in Nat
    /\ DOMAIN e = {"id", "type", "about", "pays", "sub", "credits", "part",
                   "whole", "ok"}
ASSUME IdsAssumption == \A d, e \in Events : d.id = e.id => d = e
ASSUME PricesAssumption ==
  \A d, e \in Events :
    d.type \in Sales /\ e.type \in Sales /\ d.about = e.about => d.credits = e.credits
\* A payment id is one session's or one invoice's.  The first invoice of a plan is
\* not ok: handle_invoice_paid leaves subscription_create to its session.  A sale
\* without a payment id has a value of its own here: no refund names it.
ASSUME PaymentsAssumption ==
  \A d, e \in Events :
    d.type \in Sales /\ d.ok /\ e.type \in Sales /\ e.ok /\ d.pays = e.pays =>
      Payment(d) = Payment(e)
ASSUME FaultsAssumption == MaxFaults \in Nat

VARIABLES
  sent,       \* the events the provider has to say (never changes)
  log,        \* StripeWebhookEvent: absent, stored or processed
  error,      \* the events whose row carries an error
  claims,     \* ProviderGrant
  grants,     \* the ledger rows that granted credits for a payment
  clawbacks,  \* the ledger rows that took them back
  bound,      \* the subscriptions a local row names
  facts,      \* how many facts each event put in the outbox
  at,         \* what each worker is doing
  acked,      \* the events the provider has a 200 for
  givenUp,    \* the events it stopped sending without one
  faults      \* how much went wrong so far

book == <<claims, grants, clawbacks, bound, facts>>
vars == <<sent, log, error, book, at, acked, givenUp, faults>>

Idle == [step |-> "idle"]
Steps == {"apply", "handle", "answer", "failed"}
Busy(step, e) == [step |-> step, event |-> e, found |-> FALSE]
Is(w, step) == at[w].step = step

Init ==
  /\ sent \in Stories
  /\ log = [e \in Events |-> "absent"] /\ error = {}
  /\ claims = {} /\ grants = <<>> /\ clawbacks = {} /\ bound = {}
  /\ facts = [e \in Events |-> 0]
  /\ at = [w \in Workers |-> Idle]
  /\ acked = {} /\ givenUp = {} /\ faults = 0

-------------------------------------------------------------------------------
\* claim_provider_object(): per session or invoice for sales ...
SaleClaim(e) == Payment(e)

\* ... per event for what takes credits back or gives them back.
EventClaim(e) == <<"clawback", e.id>>

\* Is the sale one to be granted: settled, and of a subscription we know?
Sellable(e, found) == e.ok /\ (e.type = "renewal" => found)

Grant(e) == [event |-> e, payment |-> Payment(e), pays |-> e.pays,
             credits |-> e.credits]

\* _announce_credits_granted() and _announce_subscription_started().
Announced(e) ==
  (IF e.credits > 0 THEN 1 ELSE 0) + (IF e.type = "plan" THEN 1 ELSE 0)

\* The claim, the grant of what the catalogue says and the facts of a sale.
Sell(e) ==
  /\ claims' = claims \cup {SaleClaim(e)}
  /\ grants' = IF e.credits > 0 THEN Append(grants, Grant(e)) ELSE grants
  /\ facts' = [facts EXCEPT ![e] = @ + Announced(e)]
  /\ UNCHANGED clawbacks

\* handle_checkout_completed(): a plan binds its subscription and announces it
\* even without a bundle.
CheckoutCompleted(e) ==
  IF e.ok /\ SaleClaim(e) \notin claims
  THEN /\ Sell(e)
       /\ bound' = IF e.type = "plan" THEN bound \cup {e.sub} ELSE bound
  ELSE UNCHANGED book

\* handle_invoice_paid(): a renewal without a bundle is not claimed.
InvoicePaid(e, found) ==
  IF Sellable(e, found) /\ e.credits > 0 /\ SaleClaim(e) \notin claims
  THEN Sell(e) /\ UNCHANGED bound
  ELSE UNCHANGED book

\* Python's round(): to the nearest integer, and to the even one of two.
Rounded(n, d) ==
  LET q == n \div d
      r == 2 * (n % d)
  IN  IF r > d \/ (r = d /\ q % 2 = 1) THEN q + 1 ELSE q

Smaller(m, n) == IF m <= n THEN m ELSE n
Larger(m, n) == IF m >= n THEN m ELSE n

\* _clawback_credits(): the share of the money that went back, or everything.
Target(e, g) ==
  LET granted == grants[g].credits
  IN  IF e.type = "refund" /\ 0 < e.part /\ e.part < e.whole
        THEN Larger(1, Smaller(granted, Rounded(granted * e.part, e.whole)))
        ELSE granted

\* _grant_transactions(): the grants that recorded the payment it names.
GrantsOf(e) == {g \in DOMAIN grants : grants[g].pays = e.pays}

SumClawbacks(cs) == SumFunction([c \in cs |-> c.credits])

\* _already_clawed_back(): what was requested so far, net of reversals.
ClawedBack(g) == SumClawbacks({c \in clawbacks : c.grant = g /\ ~c.undone})

\* Mutant of StillToTake: every refund takes its whole share again.
DueInFull(e, g) == Target(e, g)

\* _claw_back_remaining(): provider totals are cumulative.
StillToTake(e, g) == Target(e, g) - ClawedBack(g)

\* _handle_clawback(), for refunds, credit notes and disputes.
TakeBack(e, found) ==
  IF found /\ EventClaim(e) \notin claims
  THEN /\ claims' = claims \cup {EventClaim(e)}
       /\ clawbacks' = clawbacks \cup
            {[event |-> e, grant |-> g, credits |-> StillToTake(e, g), undone |-> FALSE] :
               g \in {h \in GrantsOf(e) : StillToTake(e, h) > 0}}
       /\ UNCHANGED <<grants, bound, facts>>
  ELSE UNCHANGED book

DisputeRows(e) ==
  {c \in clawbacks : c.event.type = "dispute" /\ c.event.about = e.about}

\* handle_dispute_closed(): a dispute we won is undone, row by row.
Undispute(e, found) ==
  IF e.ok /\ found /\ EventClaim(e) \notin claims
  THEN /\ claims' = claims \cup {EventClaim(e)}
       /\ clawbacks' = (clawbacks \ DisputeRows(e)) \cup
            {[c EXCEPT !.undone = TRUE] : c \in DisputeRows(e)}
       /\ UNCHANGED <<grants, bound, facts>>
  ELSE UNCHANGED book

\* handle_invoice_payment_failed() and handle_charge_failed(): every attempt
\* is a fact of its own, so nothing is claimed; nobody to tell, no fact.
Report(e, found) ==
  /\ facts' = IF e.ok /\ found THEN [facts EXCEPT ![e] = @ + 1] ELSE facts
  /\ UNCHANGED <<claims, grants, clawbacks, bound>>

(***************************************************************************)
(* What a handler asks the database for before it claims anything, without *)
(* a lock: the local subscription of an invoice, the grants a refund       *)
(* names, the rows a dispute took.  Whether it found any is all that may   *)
(* be old when it writes: a payment is granted once, and one event takes   *)
(* all that a dispute takes, so what was found once is found whole.        *)
(***************************************************************************)
Finds(e) ==
  \/ e.type \in {"renewal", "declined"} /\ e.sub \in bound
  \/ e.type \in TakesBack /\ GrantsOf(e) # {}
  \/ e.type = "closed" /\ DisputeRows(e) # {}

\* The handler registry; an event without a handler is acknowledged.
Handle(e, found) ==
  \/ e.type \in {"package", "plan"} /\ CheckoutCompleted(e)
  \/ e.type = "renewal" /\ InvoicePaid(e, found)
  \/ e.type \in TakesBack /\ TakeBack(e, found)
  \/ e.type = "closed" /\ Undispute(e, found)
  \/ e.type = "declined" /\ Report(e, found)
  \/ e.type = "other" /\ UNCHANGED book

-------------------------------------------------------------------------------
\* Mutant of Skips: any row that exists was handled before.
SkipsKnown(e) == log[e] # "absent"

\* The view answers a delivery of a processed event without the lock.
Skips(e) == log[e] = "processed"

\* get_or_create() of the log row, committed before the handler runs.
Stored(e) == [log EXCEPT ![e] = IF @ = "absent" THEN "stored" ELSE @]

\* StripeWebhookView.post() up to the log row.  The provider sends an event
\* until it gets a 200 for it, and two deliveries may be under way at once.
Receive(w, e) ==
  /\ w \in Web /\ Is(w, "idle") /\ e \in sent \ (acked \cup givenUp)
  /\ at' = [at EXCEPT ![w] = Busy(IF Skips(e) THEN "answer" ELSE "apply", e)]
  /\ log' = Stored(e)
  /\ UNCHANGED <<sent, error, book, acked, givenUp, faults>>

\* replay_webhook_events() takes up a stored event: one that was named, or
\* that was unprocessed when the command listed them.
Replay(w, e) ==
  /\ w \in Operators /\ Is(w, "idle") /\ log[e] # "absent"
  /\ at' = [at EXCEPT ![w] = Busy("apply", e)]
  /\ UNCHANGED <<sent, log, error, book, acked, givenUp, faults>>

\* Mutant of Duplicate: what the view read before it had the lock is trusted.
DuplicateUnlocked(e) == FALSE

\* The row is read again under its lock.
Duplicate(e) == log[e] = "processed"

\* The row of an event is locked while its handler runs.
Locked(e) == \E w \in Workers : Is(w, "handle") /\ at[w].event = e

\* A replay is done, a delivery has its answer to give.
Done(w) == IF w \in Operators THEN Idle ELSE Busy("answer", at[w].event)

\* apply_stored_event() up to the handler's first write.
Look(w) ==
  LET e == at[w].event
  IN  /\ Is(w, "apply") /\ ~Locked(e)
      /\ at' = [at EXCEPT ![w] = IF Duplicate(e) THEN Done(w)
                                 ELSE [Busy("handle", e) EXCEPT !.found = Finds(e)]]
      /\ UNCHANGED <<sent, log, error, book, acked, givenUp, faults>>

\* The rest of it: the handler and the processed mark in one transaction.
Apply(w) ==
  LET e == at[w].event
  IN  /\ Is(w, "handle")
      /\ Handle(e, at[w].found)
      /\ log' = [log EXCEPT ![e] = "processed"]
      /\ error' = error \ {e}
      /\ at' = [at EXCEPT ![w] = Done(w)]
      /\ UNCHANGED <<sent, acked, givenUp, faults>>

Faulty == faults < MaxFaults /\ faults' = faults + 1

\* Mutant of RolledBack: the claim was committed before the grant.
RolledBackButClaimed(e) ==
  /\ claims' = claims \cup (IF e.type \in Sales THEN {SaleClaim(e)} ELSE {EventClaim(e)})
  /\ UNCHANGED <<grants, clawbacks, bound, facts>>

\* The savepoint of the claim rolls back with the handler it is in.
RolledBack(e) == UNCHANGED book

\* The handler raises.
Fail(w) ==
  /\ Is(w, "handle") /\ Faulty
  /\ at' = [at EXCEPT ![w] = Busy("failed", at[w].event)]
  /\ RolledBack(at[w].event)
  /\ UNCHANGED <<sent, log, error, acked, givenUp>>

\* The failure is written afterwards, without the lock; a 500 is not a 200.
RecordError(w) ==
  /\ Is(w, "failed")
  /\ error' = error \cup {at[w].event}
  /\ at' = [at EXCEPT ![w] = Idle]
  /\ UNCHANGED <<sent, log, book, acked, givenUp, faults>>

Answer(w) ==
  /\ Is(w, "answer")
  /\ acked' = acked \cup {at[w].event}
  /\ at' = [at EXCEPT ![w] = Idle]
  /\ UNCHANGED <<sent, log, error, book, givenUp, faults>>

\* The worker dies, or its answer is lost on the way.
Die(w) ==
  /\ ~Is(w, "idle") /\ Faulty
  /\ at' = [at EXCEPT ![w] = Idle]
  /\ UNCHANGED <<sent, log, error, book, acked, givenUp>>

\* The provider stops sending an event after some days.
GiveUp(e) ==
  /\ e \in sent \ (acked \cup givenUp) /\ Faulty
  /\ givenUp' = givenUp \cup {e}
  /\ UNCHANGED <<sent, log, error, book, at, acked>>

Work(w) == Look(w) \/ Apply(w) \/ Fail(w) \/ RecordError(w) \/ Answer(w) \/ Die(w)

Next ==
  \/ \E w \in Workers :
       Work(w) \/ \E e \in Events : Receive(w, e) \/ Replay(w, e)
  \/ \E e \in Events : GiveUp(e)

Spec == Init /\ [][Next]_vars

-------------------------------------------------------------------------------
GrantRow ==
  [event : Events, payment : Payments, pays : {e.pays : e \in Events}, credits : Nat]

\* Types: a stored claim names what it claims, and a worker an event it has
\* stored.
TypeOK ==
  /\ sent \in Stories
  /\ log \in [Events -> {"absent", "stored", "processed"}]
  /\ error \subseteq Events /\ acked \subseteq Events /\ givenUp \subseteq Events
  /\ claims \subseteq Payments \cup {EventClaim(e) : e \in Events}
  /\ grants \in Seq(GrantRow)
  /\ \A c \in clawbacks : /\ c.event \in Events /\ c.grant \in DOMAIN grants
                          /\ c.credits \in Nat \ {0} /\ c.undone \in BOOLEAN
  /\ bound \subseteq {e.sub : e \in Events}
  /\ facts \in [Events -> Nat]
  /\ \A w \in Workers :
       at[w] = Idle \/ (/\ at[w].step \in Steps /\ at[w].found \in BOOLEAN
                       /\ log[at[w].event] # "absent")
  /\ faults \in 0..MaxFaults

GrantsFor(p) == {g \in DOMAIN grants : grants[g].payment = p}

\* What was granted for a payment, and what the catalogue sells it for.
Credited(p) ==
  SumFunctionOnSet([g \in DOMAIN grants |-> grants[g].credits], GrantsFor(p))
PriceOf(p) == (CHOOSE e \in Events : e.type \in Sales /\ Payment(e) = p).credits

Book == INSTANCE PaymentBook WITH
  handled <- {e \in Events : log[e] = "processed"},
  Price <- [p \in Payments |-> PriceOf(p)],
  credits <- [p \in Payments |-> Credited(p)]

\* Two event types for one invoice, redelivery, replay next to delivery, and
\* retries after a crash or a failed handler: what reaches the ledger and the
\* outbox is one action per event and one grant per payment.
ImplementsBook == Book!BookSpec

\* A claim is kept with the grant it guards or not at all: an event that is
\* marked processed leaves its payment granted, by its own handler or by another
\* event's, if it could be granted by what its handler had looked up.
NoSaleLost ==
  [][\A w \in Workers :
       LET e == at[w].event
       IN  /\ Is(w, "handle") /\ log[e] # "processed" /\ log'[e] = "processed"
           /\ e.type \in Sales /\ e.credits > 0 /\ Sellable(e, at[w].found)
           => \E g \in DOMAIN grants' : grants'[g].payment = Payment(e)]_vars

Claimants(g) ==
  {e \in Events : /\ e.type \in TakesBack /\ EventClaim(e) \in claims
                  /\ e.pays = grants[g].pays}

\* Refunds, credit notes and disputes of one payment overlap and repeat the
\* provider's running total; handled in any order, any number of times, they
\* take back what the largest of them says, until a dispute is won.
LargestShareTaken ==
  \A g \in DOMAIN grants :
    (\A c \in clawbacks : c.grant = g => ~c.undone) =>
      ClawedBack(g) = Max({0} \cup {Target(e, g) : e \in Claimants(g)})

-------------------------------------------------------------------------------
\* The provider retries what it has no 200 for and web workers are not stuck.
Fairness ==
  /\ \A e \in Events : WF_vars(\E w \in Web : Receive(w, e))
  /\ \A w \in Workers : WF_vars(Look(w) \/ Apply(w) \/ RecordError(w) \/ Answer(w))

FairSpec == Spec /\ Fairness

\* "otherwise a paid checkout is lost forever" (views.py): a failed attempt or
\* a dead worker does not stop an event from being handled in the end, unless
\* the provider gave up on it.
EveryEventProcessed ==
  <>(\A e \in sent : log[e] = "processed" \/ e \in givenUp)

-------------------------------------------------------------------------------
(***************************************************************************)
(* What the documentation says and the code does not do (see the README).  *)
(***************************************************************************)

\* handle_invoice_paid: "Grant the monthly plan credits on each renewal invoice":
\* no invoice is marked processed without them while a local row names its
\* subscription.
RenewalsGranted ==
  [][\A e \in Events :
       /\ log[e] # "processed" /\ log'[e] = "processed"
       /\ e.type = "renewal" /\ e.ok /\ e.credits > 0 /\ e.sub \in bound
       => \E g \in DOMAIN grants' : grants'[g].payment = Payment(e)]_vars

\* MODULE.md: the handlers "take back the credits a refunded payment bought":
\* once a refund was handled, its share does not come back to the customer.
RefundedStaysTaken ==
  \A g \in DOMAIN grants : \A e \in Claimants(g) :
    e.type = "refund" => ClawedBack(g) >= Target(e, g)

\* StripeWebhookEvent: error is the failure of the attempt that left the event
\* unprocessed, and is cleared when a later one succeeds.
ProcessedHasNoError == \A e \in error : log[e] # "processed"

===============================================================================
