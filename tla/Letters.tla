------------------------------- MODULE Letters -------------------------------
(***************************************************************************)
(* Telling the payer: from the facts that the money handlers put in the    *)
(* outbox (_announce_payment, _announce_payment_failed and                 *)
(* _announce_subscription, src/services.py) to the letters that            *)
(* src/actions.py asks the notification service for, by the rules of       *)
(* src/notifications.py.                                                   *)
(*                                                                         *)
(* Facts are delivered at least once, to several consumers at a time.  A   *)
(* consumer refuses what is stale, claims the letter (a unique row, which  *)
(* commits), asks the bus to send it, gives the claim back when the bus    *)
(* does not take it, and only then has handled the delivery.  It may die   *)
(* between any two of these steps.  The wording of a letter is left out.   *)
(***************************************************************************)
EXTENDS Integers, Sequences, FiniteSets

CONSTANTS
  Consumers,  \* deliveries being handled at once
  Stories,    \* what may happen: sets of events at the provider
  MaxAge,     \* NOTIFY_MAX_AGE_SECONDS; 0 switches the gate off
  DayLength,  \* how long a calendar day is
  MaxClock,   \* bound: the last instant
  MaxFaults   \* bound: refused publications, dead consumers, redeliveries

Kinds == {"paid", "invoice failed", "charge failed", "subscription"}
NoInvoice == "no invoice"
Events == UNION Stories

(***************************************************************************)
(* Of an event: about (the ledger row, invoice, charge or subscription),   *)
(* invoice (the one a charge names), known (a local row names the payer),  *)
(* next (next_payment_attempt), automatic (collection_method), checkout    *)
(* (billing_reason is subscription_create), cancelling and ends (of the    *)
(* subscription row when the fact was emitted; 0 is no period end).        *)
(***************************************************************************)
ASSUME EventsAssumption ==
  \A e \in Events :
    /\ e.kind \in Kinds /\ e.next \in {"absent", "null", "set"} /\ e.ends \in Nat
    /\ {e.known, e.automatic, e.checkout, e.cancelling} \subseteq BOOLEAN
    /\ DOMAIN e = {"id", "kind", "about", "invoice", "known", "next", "automatic",
                   "checkout", "cancelling", "ends"}
ASSUME NumbersAssumption ==
  {MaxAge, MaxClock, MaxFaults} \subseteq Nat /\ DayLength \in Nat \ {0}

VARIABLES
  clock,
  story,     \* what happens in this behaviour (never changes)
  happened,  \* the events the handlers have committed
  outbox,    \* the facts emitted, with the instant each was stamped with
  due,       \* how many deliveries of each fact are under way
  at,        \* what each consumer is doing
  claims,    \* ProviderGrant rows of provider notify
  letters,   \* the letters the notification service accepted, in order
  refused,   \* history: facts a consumer refused as stale
  lost,      \* history: claims held by a consumer that died over them
  faults

facts == <<happened, outbox>>
desk == <<claims, letters, refused, lost>>
vars == <<clock, story, facts, due, at, desk, faults>>

Idle == [step |-> "idle"]
Busy(step, e) == [step |-> step, event |-> e]
Is(c, step) == at[c].step = step
Facts == {f.event : f \in outbox}
Stamp(e) == (CHOOSE f \in outbox : f.event = e).stamp

Init ==
  /\ clock = 1 /\ story \in Stories
  /\ happened = {} /\ outbox = {} /\ due = [e \in Events |-> 0]
  /\ at = [c \in Consumers |-> Idle]
  /\ claims = {} /\ letters = <<>> /\ refused = {} /\ lost = {} /\ faults = 0

Tick ==
  /\ clock < MaxClock /\ clock' = clock + 1
  /\ UNCHANGED <<story, facts, due, at, desk, faults>>

-------------------------------------------------------------------------------
\* Mutant of Announces: a charge is reported whatever it belongs to.
AnnouncesEveryCharge(e) == e.kind \in {"invoice failed", "charge failed"} => e.known

\* What puts a fact in the outbox: every payment and every change of a row; a
\* failure whose payer is known, and which no invoice reports by itself
\* (handle_invoice_payment_failed, handle_charge_failed, _failed_payment_user).
Announces(e) ==
  /\ e.kind \in {"invoice failed", "charge failed"} => e.known
  /\ e.kind = "charge failed" => e.invoice = NoInvoice

\* The fact is emitted inside the handler's transaction.
Happen(e) ==
  /\ e \in story \ happened /\ happened' = happened \cup {e}
  /\ IF Announces(e)
       THEN /\ outbox' = outbox \cup {[event |-> e, stamp |-> clock]}
            /\ due' = [due EXCEPT ![e] = 1]
       ELSE UNCHANGED <<outbox, due>>
  /\ UNCHANGED <<clock, story, at, desk, faults>>

-------------------------------------------------------------------------------
\* _is_final_attempt(): the provider says that it will not try again.
Final(e) ==
  /\ e.kind = "invoice failed" /\ e.next = "null" /\ e.automatic /\ ~e.checkout

\* iso_date(): the day of an instant.
Date(t) == t \div DayLength

\* Of a change of a subscription, only a pending cancellation with a date is
\* something to write about.
Concerns(e) == e.kind = "subscription" => e.cancelling /\ e.ends # 0

\* staleness_refusal() for money; for a period end, whether it has passed.
Stale(e) ==
  IF e.kind = "subscription" THEN e.ends <= clock
  ELSE MaxAge # 0 /\ clock - Stamp(e) > MaxAge

\* Mutants of ClaimKey: by the delivery; by the invoice, last attempt or not.
ClaimKeyOfEvent(e) == <<e.kind, e.id, FALSE>>
ClaimKeyOfInvoice(e) ==
  <<e.kind, IF e.kind = "subscription" THEN Date(e.ends) ELSE e.about, FALSE>>

\* The claim is keyed on the thing a letter is about, not on the delivery.
ClaimKey(e) ==
  <<IF e.kind = "charge failed" THEN "invoice failed" ELSE e.kind,
    IF e.kind = "subscription" THEN Date(e.ends) ELSE e.about,
    Final(e)>>

\* A handler of actions.py up to the claim: nothing to say, or too late to say it.
Take(c, e) ==
  /\ Is(c, "idle") /\ due[e] > 0 /\ due' = [due EXCEPT ![e] = @ - 1]
  /\ at' = [at EXCEPT ![c] = Busy(IF Concerns(e) /\ ~Stale(e) THEN "claim" ELSE "ack", e)]
  /\ refused' = IF Concerns(e) /\ Stale(e) THEN refused \cup {e} ELSE refused
  /\ UNCHANGED <<clock, story, facts, claims, letters, lost, faults>>

\* claim_provider_object() with provider notify.
Claimed(e) == claims \cup {ClaimKey(e)}

\* _claim_and_send(): whoever comes second has nothing to do ...
Claim(c) ==
  LET e == at[c].event
  IN  /\ Is(c, "claim")
      /\ at' = [at EXCEPT ![c] = Busy(IF ClaimKey(e) \in claims THEN "ack" ELSE "publish", e)]
      /\ claims' = Claimed(e)
      /\ UNCHANGED <<clock, story, facts, due, letters, refused, lost, faults>>

\* ... the first asks the notification service ...
Publish(c) ==
  /\ Is(c, "publish")
  /\ letters' = Append(letters, at[c].event)
  /\ at' = [at EXCEPT ![c].step = "ack"]
  /\ UNCHANGED <<clock, story, facts, due, claims, refused, lost, faults>>

Faulty == faults < MaxFaults /\ faults' = faults + 1

\* ... which may not take it: request_notification() returns False ...
PublishRefused(c) ==
  /\ Is(c, "publish") /\ Faulty
  /\ at' = [at EXCEPT ![c].step = "release"]
  /\ UNCHANGED <<clock, story, facts, due, desk>>

\* Mutant of Released: the claim is kept for whoever retries.
ReleaseNothing(e) == claims

\* The claim, given back.
Released(e) == claims \ {ClaimKey(e)}

\* ... the claim is deleted and NotificationNotQueued makes the bus deliver again.
Release(c) ==
  LET e == at[c].event
  IN  /\ Is(c, "release")
      /\ claims' = Released(e) /\ due' = [due EXCEPT ![e] = @ + 1]
      /\ at' = [at EXCEPT ![c] = Idle]
      /\ UNCHANGED <<clock, story, facts, letters, refused, lost, faults>>

\* The handler returned.
Ack(c) ==
  /\ Is(c, "ack")
  /\ at' = [at EXCEPT ![c] = Idle]
  /\ UNCHANGED <<clock, story, facts, due, desk, faults>>

\* A consumer dies; its delivery was not acknowledged and comes again.
Die(c) ==
  /\ ~Is(c, "idle") /\ Faulty
  /\ at' = [at EXCEPT ![c] = Idle]
  /\ due' = [due EXCEPT ![at[c].event] = @ + 1]
  /\ lost' = IF Is(c, "publish") \/ Is(c, "release")
               THEN lost \cup {ClaimKey(at[c].event)} ELSE lost
  /\ UNCHANGED <<clock, story, facts, claims, letters, refused>>

\* The outbox is replayed, or the broker delivers what was handled already.
Redeliver(e) ==
  /\ e \in Facts /\ Faulty
  /\ due' = [due EXCEPT ![e] = @ + 1]
  /\ UNCHANGED <<clock, story, facts, at, desk>>

Handle(c) == Claim(c) \/ Publish(c) \/ Release(c) \/ Ack(c)

Next ==
  \/ Tick
  \/ \E e \in Events : Happen(e) \/ Redeliver(e) \/ \E c \in Consumers : Take(c, e)
  \/ \E c \in Consumers : Handle(c) \/ PublishRefused(c) \/ Die(c)

Spec == Init /\ [][Next]_vars

\* The bus delivers what is due, and consumers do not stop half-way.
Fairness ==
  /\ WF_vars(\E c \in Consumers, e \in Events : Take(c, e))
  /\ WF_vars(\E c \in Consumers : Handle(c))

FairSpec == Spec /\ Fairness

-------------------------------------------------------------------------------
\* Two facts that ought to make one letter: of one payment, of the ordinary or
\* the last declined attempts of one invoice or charge, of one day at which the
\* subscription ends.
SameMatter(d, e) ==
  IF d.kind = "subscription" \/ e.kind = "subscription"
    THEN d.kind = e.kind /\ Date(d.ends) = Date(e.ends)
    ELSE /\ d.about = e.about /\ (d.kind = "paid") = (e.kind = "paid")
         /\ Final(d) = Final(e)

\* Types; a consumer that publishes holds the claim of its letter, and only facts
\* that were emitted are on their way.
TypeOK ==
  /\ clock \in 1..MaxClock /\ story \in Stories /\ faults \in 0..MaxFaults
  /\ happened \subseteq story /\ Facts \subseteq happened 
  /\ \A e \in Events : due[e] \in Nat /\ (due[e] > 0 => e \in Facts)
  /\ \A f \in outbox : f.stamp \in 1..clock
  /\ letters \in Seq(Facts) /\ refused \subseteq Facts
  /\ lost \subseteq {ClaimKey(e) : e \in Facts}
  /\ \A c \in Consumers :
       at[c] = Idle \/ (/\ at[c].event \in Facts
                        /\ at[c].step \in {"claim", "publish", "release", "ack"}
                        /\ at[c].step = "publish" => ClaimKey(at[c].event) \in claims)

\* "a replayed row must not produce a second receipt": however often and however
\* concurrently facts are delivered, one matter is written about once
\* (_claim_and_send).
OneLetterEach ==
  \A i, j \in DOMAIN letters : SameMatter(letters[i], letters[j]) => i = j

InvoiceOf(e) == IF e.kind = "charge failed" THEN e.invoice ELSE e.about
Declines == {i \in DOMAIN letters : letters[i].kind \in {"invoice failed", "charge failed"}}

\* "At most two letters per invoice": of all its attempts, of the charges they
\* came with, only a first failure and the last attempt are written about.
TwoLettersAnInvoice ==
  \A i \in Declines : InvoiceOf(letters[i]) # NoInvoice =>
    Cardinality({j \in Declines : InvoiceOf(letters[j]) = InvoiceOf(letters[i])}) <= 2

\* "Claim-and-never-send is the one failure mode this module exists to prevent":
\* a claim has its letter, or somebody is about to send it or to give the claim
\* back, or died doing so (the window _claim_and_send names).
ClaimMeansSent ==
  \A k \in claims :
    \/ \E i \in DOMAIN letters : ClaimKey(letters[i]) = k
    \/ \E c \in Consumers : at[c].step \in {"publish", "release"} /\ ClaimKey(at[c].event) = k
    \/ k \in lost

\* Every fact about money is told in the end, or its matter was refused because
\* it came too late, or lost with the consumer that had claimed it; a bus that is
\* down for a while only delays it, also for a fact that met another's claim.
EveryFactSettled ==
  <>[](\A e \in Facts : Concerns(e) =>
         \/ \E i \in DOMAIN letters : SameMatter(letters[i], e)
         \/ \E d \in refused : SameMatter(d, e)
         \/ ClaimKey(e) \in lost)

-------------------------------------------------------------------------------
(***************************************************************************)
(* _send(): "does NOT swallow a transport failure: the caller turns that   *)
(* into a retry".  It is retried, and ClaimMeansSent does not survive it:  *)
(* the exception passes _claim_and_send() before the claim is given back.  *)
(***************************************************************************)
PublishRaises(c) ==
  /\ Is(c, "publish") /\ Faulty
  /\ at' = [at EXCEPT ![c] = Idle]
  /\ due' = [due EXCEPT ![at[c].event] = @ + 1]
  /\ UNCHANGED <<clock, story, facts, desk>>

RaisingSpec == Init /\ [][Next \/ \E c \in Consumers : PublishRaises(c)]_vars

===============================================================================
