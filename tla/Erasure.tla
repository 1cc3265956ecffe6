------------------------------- MODULE Erasure -------------------------------
(***************************************************************************)
(* The person out, the bill kept: erase_subject() (src/gdpr.py) next to    *)
(* the calls and webhooks that still reach the account it erases.          *)
(*                                                                         *)
(* Every request is one transaction (its receipt commits with it), and the *)
(* database reads what is committed at each statement.  The erasure takes  *)
(* the row locks of what it scrubs before it takes the wallet's, which     *)
(* every service takes first; it updates event rows after the wallet,      *)
(* which a webhook worker takes before it.  A webhook looks its            *)
(* subscription and its ledger rows up without a lock, and writes them     *)
(* by their primary keys.  Circles of transactions that wait for each      *)
(* other are broken by the database.                                       *)
(***************************************************************************)
EXTENDS Integers, Sequences, FiniteSets

CONSTANTS
  Requests,   \* gdpr.erasure.requested and user.deleted, of one account
  Callers,    \* service calls and webhook workers under way at once
  Stories,    \* the account at first, the provider events that come, and
              \* whether wallet settings are saved meanwhile
  Marks,      \* metadata that tells money from none: unpaid, waived, ...
  NoMark,
  Written,    \* what rows are written with: <<table, text, mark>>
  MaxRows,    \* bound: transactions, holds and debts
  MaxFaults   \* bound: requests that die half-way

Tables == <<"transaction", "hold", "debt">>
Charge == "transaction"

\* text: of when a description is, or metadata outside LEDGER_METADATA_KEYS.
\* was: history, the mark the row was written with.  open: a hold not captured,
\* a disputed payment's claw-back not given back and the debt it left.
RowType ==
  [table : {"transaction", "hold", "debt"}, text : SUBSET {"before", "since"},
   mark : Marks \cup {NoMark}, was : Marks \cup {NoMark}, open : BOOLEAN]

\* Subscription: whose the row is, and the provider's ids on it.
Ids == {"customer", "subscription"}
SubType == [of : {"nobody", "account", "erased"}, ids : SUBSET Ids]

\* Sales are invoices and packages, checkouts those of a plan; the closed
\* dispute is a won one.
EventKinds == {"sale", "checkout", "subscription", "refund", "dispute", "closed"}
Events == UNION {s.events : s \in Stories}

ASSUME MarksAssumption ==
  /\ NoMark \notin Marks
  /\ Written \subseteq {"transaction", "hold", "debt"} \X BOOLEAN \X (Marks \cup {NoMark})
ASSUME StoriesAssumption ==
  /\ \A s \in Stories : /\ s.rows \in Seq(RowType)
                        /\ s.sub \in SubType /\ s.sub.of # "erased"
                        /\ s.saves \in BOOLEAN
  /\ \A e \in Events : e.kind \in EventKinds
ASSUME BoundsAssumption == {MaxRows, MaxFaults} \subseteq Nat

VARIABLES
  story,     \* which of the stories it is
  sub,       \* the account's Subscription
  owned,     \* Wallet.user is the account
  rows,      \* Transaction, CreditHold and CreditDebt of the wallet, by creation
  log,       \* StripeWebhookEvent: absent, stored or processed
  payloads,  \* the events whose row carries the provider's payload
  at,        \* the transaction of each request
  calls,     \* the transaction of each caller
  acked,     \* requests that are not delivered again
  receipts,  \* gdpr.section.erased, by request
  first,     \* history: what there was when the first request began
  faults

inbox == <<log, payloads>>
requests == <<at, acked, receipts, first, faults>>
vars == <<story, sub, owned, rows, inbox, requests, calls>>

Idle == [step |-> "idle"]
NoneYet == [rows |-> 0, sub |-> FALSE, payloads |-> {}, begun |-> FALSE]

Init ==
  /\ story \in Stories /\ sub = story.sub /\ rows = story.rows
  /\ owned = TRUE /\ log = [e \in Events |-> "absent"] /\ payloads = {}
  /\ at = [r \in Requests |-> Idle] /\ calls = [c \in Callers |-> Idle]
  /\ acked = {} /\ receipts = {} /\ first = NoneYet /\ faults = 0

-------------------------------------------------------------------------------
(***************************************************************************)
(* Row locks, held until the transaction ends.                             *)
(***************************************************************************)
SubLock == <<"sub">>
WalletLock == <<"wallet">>
RowLocks(ks) == {<<"row", k>> : k \in ks}
EventLocks(es) == {<<"event", e>> : e \in es}

Dirty(table) ==
  {k \in DOMAIN rows : rows[k].table = table /\ (rows[k].text # {} \/ rows[k].mark # NoMark)}

\* The events whose payload the erasure finds by these ids: a dispute names a
\* charge and no customer.
NamedBy(ids) ==
  {e \in Events : \/ "customer" \in ids /\ e.kind \notin {"dispute", "closed"}
                  \/ "subscription" \in ids /\ e.kind = "subscription"}
Known(r) == payloads \cap NamedBy(at[r].ids)

\* What a transaction has locked so far ...
RequestHolds(r) ==
  IF at[r].step \in {"idle", "sub"} THEN {}
  ELSE RowLocks(at[r].scrubbed) \cup EventLocks(at[r].erased)
       \cup {l \in {SubLock} : at[r].sub}
       \cup {l \in {WalletLock} : at[r].wallet /\ at[r].step \in {"payloads", "commit"}}
Handling(c) == calls[c].step \in {"bind", "grant", "give back"}
CallHolds(c) ==
  {l \in {WalletLock} : calls[c].step \in {"capture", "give back"}}
  \cup (IF Handling(c) THEN EventLocks({calls[c].event}) ELSE {})
  \cup {l \in {SubLock} : calls[c].step = "grant" /\ calls[c].event.kind = "checkout"
                          /\ sub.of # "erased"}
Holds(x) == IF x \in Requests THEN RequestHolds(x) ELSE CallHolds(x)

\* ... and what its next statement needs.  A checkout updates or creates the row
\* of its user, a subscription event the one it found; a grant is to the user's
\* wallet, a claw-back and its return to the payment's.
RequestWants(r) ==
  CASE at[r].step = "sub" -> {l \in {SubLock} : at[r].sub}
    [] at[r].step = "scrub" -> RowLocks(Dirty(Tables[at[r].table]))
    [] at[r].step = "detach" -> {WalletLock}
    [] at[r].step = "payloads" -> EventLocks(Known(r))
    [] OTHER -> {}
CallWants(c) ==
  CASE calls[c].step = "capture" -> RowLocks({calls[c].hold})
    [] calls[c].step = "save" -> {WalletLock}
    [] calls[c].step = "bind" ->
         {l \in {SubLock} : IF calls[c].event.kind = "checkout" THEN sub.of # "erased"
                                                                ELSE calls[c].found}
    [] calls[c].step = "grant" ->
         {l \in {WalletLock} : IF calls[c].event.kind \in {"sale", "checkout"} THEN owned
                                                                        ELSE calls[c].found}
    [] calls[c].step = "give back" -> RowLocks(calls[c].rows)
    [] OTHER -> {}
Wants(x) == IF x \in Requests THEN RequestWants(x) ELSE CallWants(x)

Transactions == Requests \cup Callers
WaitsFor(x) == {y \in Transactions \ {x} : Holds(y) \cap Wants(x) # {}}
Runs(x) == WaitsFor(x) = {}
Free(lock) == \A x \in Transactions : lock \notin Holds(x)

\* The circles of transactions that wait for each other.
Stuck(D) == D # {} /\ \A x \in D : WaitsFor(x) \cap D # {}
Circles == {D \in SUBSET Transactions : Stuck(D) /\ \A C \in SUBSET D : Stuck(C) => C = D}

-------------------------------------------------------------------------------
(***************************************************************************)
(* What still happens on the account.                                      *)
(***************************************************************************)
\* bound: room for one more row, also when every call under way has written its own.
Room == Len(rows) + Cardinality({c \in Callers : calls[c] # Idle}) < MaxRows

\* What is written now is there, or not yet, when the first request begins.
Era == IF first.begun THEN "since" ELSE "before"

Row(table, text, mark, open) ==
  [table |-> table, text |-> text, mark |-> mark, was |-> mark, open |-> open]

\* debit(), hold() and the operators' grants, in one step under the wallet's
\* lock: a caller's text, an operator's or a staff member's mark.
Spend ==
  /\ owned /\ Free(WalletLock) /\ Room
  /\ \E w \in Written :
       rows' = Append(rows, Row(w[1], {t \in {Era} : w[2]}, w[3], w[1] = "hold"))
  /\ UNCHANGED <<story, sub, owned, inbox, requests, calls>>

\* capture() finds the wallet by the hold, whoever owns it, and locks it ...
BeginCapture(c) ==
  \E h \in DOMAIN rows :
    /\ calls[c] = Idle /\ Free(WalletLock) /\ Room
    /\ rows[h].table = "hold" /\ rows[h].open
    /\ calls' = [calls EXCEPT ![c] = [step |-> "capture", hold |-> h]]
    /\ UNCHANGED <<story, sub, owned, rows, inbox, requests>>

\* ... and writes a row with the hold's text and marks, unless it waits for it.
Capture(c) ==
  LET h == calls[c].hold
  IN  /\ calls[c].step = "capture" /\ Runs(c)
      /\ rows' = Append([rows EXCEPT ![h].open = FALSE],
                        [rows[h] EXCEPT !.table = Charge, !.open = FALSE])
      /\ calls' = [calls EXCEPT ![c] = Idle]
      /\ UNCHANGED <<story, sub, owned, inbox, requests>>

\* PATCH of the wallet's settings reads the row of its user without a lock ...
BeginSave(c) ==
  /\ story.saves /\ calls[c] = Idle /\ owned
  /\ calls' = [calls EXCEPT ![c] = [step |-> "save"]]
  /\ UNCHANGED <<story, sub, owned, rows, inbox, requests>>

\* ... and writes all of it, the user as well.
Save(c) ==
  /\ calls[c].step = "save" /\ Runs(c)
  /\ owned' = TRUE /\ calls' = [calls EXCEPT ![c] = Idle]
  /\ UNCHANGED <<story, sub, rows, inbox, requests>>

\* StripeWebhookView: the log row with its payload; a redelivery changes nothing.
Store(e) ==
  /\ e \in story.events /\ log[e] = "absent" /\ log' = [log EXCEPT ![e] = "stored"]
  /\ payloads' = payloads \cup {e}
  /\ UNCHANGED <<story, sub, owned, rows, requests, calls>>

\* _resolve_local_subscription(): by the subscription's id, the customer's, or the
\* user's in the metadata.
Resolves == sub.ids # {} \/ sub.of = "account"
Adopted == IF "subscription" \in sub.ids THEN {} ELSE Ids \ sub.ids

\* _grant_transactions() and handle_dispute_closed(): by the provider's ids in the
\* metadata, which the erasure removes; a claw-back names its debt.
Payments == {k \in DOMAIN rows : rows[k].table = Charge /\ rows[k].text # {} /\ ~rows[k].open}
Disputed == {k \in DOMAIN rows : rows[k].table = Charge /\ rows[k].text # {} /\ rows[k].open}
Owing(ks) ==
  {k \in DOMAIN rows : k - 1 \in ks /\ rows[k].table = "debt" /\ rows[k].open}

\* apply_stored_event() locks the log row, and the handler looks up what the
\* event is about.
BeginHandle(c, e) ==
  /\ calls[c] = Idle /\ log[e] = "stored" /\ Free(<<"event", e>>) /\ Room
  /\ calls' = [calls EXCEPT ![c] =
       [step |-> IF e.kind \in {"checkout", "subscription"} THEN "bind" ELSE "grant",
        event |-> e,
        found |-> CASE e.kind = "subscription" -> Resolves
                    [] e.kind \in {"refund", "dispute"} -> Payments # {}
                    [] e.kind = "closed" -> Disputed # {}
                    [] OTHER -> TRUE,
        ids |-> Adopted,
        rows |-> Disputed \cup Owing(Disputed)]]
  /\ UNCHANGED <<story, sub, owned, rows, inbox, requests>>

\* Its transaction commits, with the mark on the log row.
Handled(c) ==
  /\ log' = [log EXCEPT ![calls[c].event] = "processed"]
  /\ calls' = [calls EXCEPT ![c] = Idle]
  /\ UNCHANGED <<story, owned, payloads, requests>>

\* A subscription event writes the ids it has and the row had not when it was
\* looked up, by the row's primary key.
Adopt(c) ==
  /\ calls[c].step = "bind" /\ calls[c].event.kind = "subscription" /\ Runs(c)
  /\ sub' = IF calls[c].found THEN [sub EXCEPT !.ids = @ \cup calls[c].ids] ELSE sub
  /\ Handled(c) /\ UNCHANGED rows

\* A checkout has the row of its user, or no row yet, to itself ...
Bind(c) ==
  /\ calls[c].step = "bind" /\ calls[c].event.kind = "checkout" /\ Runs(c)
  /\ calls' = [calls EXCEPT ![c].step = "grant"]
  /\ UNCHANGED <<story, sub, owned, rows, inbox, requests>>

\* ... and commits it with the plan's grant, as sales do theirs, to the wallet of
\* the account if it still has this one.  (The rows an erased account gets anew
\* are not modelled.)
Grant(c) ==
  /\ calls[c].step = "grant" /\ calls[c].event.kind \in {"sale", "checkout"} /\ Runs(c)
  /\ rows' = IF owned THEN Append(rows, Row(Charge, {Era}, NoMark, FALSE)) ELSE rows
  /\ sub' = IF calls[c].event.kind = "checkout" /\ sub.of # "erased"
              THEN [of |-> "account", ids |-> Ids] ELSE sub
  /\ Handled(c)

\* claw_back_grant() writes the refund's row, and perhaps a debt with its text.
ClawBack(c) ==
  LET refund == Row(Charge, {Era}, NoMark, calls[c].event.kind = "dispute")
  IN  /\ calls[c].step = "grant" /\ calls[c].event.kind \in {"refund", "dispute"}
      /\ calls[c].found /\ Runs(c)
      /\ \/ rows' = Append(rows, refund)
         \/ Room /\ rows' = Append(Append(rows, refund), [refund EXCEPT !.table = "debt"])
      /\ Handled(c) /\ UNCHANGED sub

\* A won dispute locks the wallet, and then what it found ...
Won(c) ==
  /\ calls[c].step = "grant" /\ calls[c].event.kind = "closed" /\ calls[c].found /\ Runs(c)
  /\ calls' = [calls EXCEPT ![c].step = "give back"]
  /\ UNCHANGED <<story, sub, owned, rows, inbox, requests>>

\* ... and _reverse_clawback() notes the event in it and restores what was taken.
GiveBack(c) ==
  /\ calls[c].step = "give back" /\ Runs(c)
  /\ LET noted == [k \in DOMAIN rows |->
                    IF k \in calls[c].rows /\ rows[k].open
                      THEN [rows[k] EXCEPT !.text = @ \cup {Era}, !.open = FALSE]
                      ELSE rows[k]]
     IN  rows' = Append(noted, Row(Charge, {Era}, NoMark, FALSE))
  /\ Handled(c) /\ UNCHANGED sub

\* A refund or dispute that names nothing of ours changes nothing.
Unmatched(c) ==
  /\ calls[c].step = "grant" /\ ~calls[c].found
  /\ Handled(c) /\ UNCHANGED <<sub, rows>>

-------------------------------------------------------------------------------
(***************************************************************************)
(* erase_subject(), statement by statement.                                *)
(***************************************************************************)
\* The subscriptions of the account, read without a lock.
Begin(r) ==
  /\ r \notin acked /\ at[r] = Idle
  /\ at' = [at EXCEPT ![r] = 
       [step |-> "sub", sub |-> sub.of = "account",
        ids |-> IF sub.of = "account" THEN sub.ids ELSE {}]]
  /\ first' = IF first.begun THEN first
              ELSE [rows |-> Len(rows), sub |-> sub.of = "account",
                    payloads |-> IF sub.of = "account" THEN payloads \cap NamedBy(sub.ids)
                                                       ELSE {},
                    begun |-> TRUE]
  /\ UNCHANGED <<story, sub, owned, rows, inbox, calls, acked, receipts, faults>>

\* Mutant of KnownIds: the ids are looked up when they are needed.
IdsLater(r) == {}

\* The provider's ids are remembered before the row that names them is cleared.
KnownIds(r) == at[r].ids

\* The subscription is detached and the wallet pinned by its primary key.
Pin(r) ==
  /\ at[r].step = "sub" /\ Runs(r)
  /\ at' = [at EXCEPT ![r] =
       [step |-> IF owned THEN "scrub" ELSE "payloads", sub |-> at[r].sub,
        ids |-> KnownIds(r), wallet |-> owned, table |-> 1, scrubbed |-> {}, erased |-> {}]]
  /\ UNCHANGED <<story, sub, owned, rows, inbox, calls, acked, receipts, first, faults>>

\* _scrub_free_text() of one table: every row of the wallet that there is.
Scrub(r) ==
  /\ at[r].step = "scrub" /\ Runs(r)
  /\ at' = [at EXCEPT ![r].scrubbed = @ \cup Dirty(Tables[at[r].table]),
                      ![r].table = @ + 1,
                      ![r].step = IF at[r].table = Len(Tables) THEN "detach" ELSE @]
  /\ UNCHANGED <<story, sub, owned, rows, inbox, calls, acked, receipts, first, faults>>

\* The wallet is detached, which takes its lock.
Detach(r) ==
  /\ at[r].step = "detach" /\ Runs(r)
  /\ at' = [at EXCEPT ![r].step = "payloads"]
  /\ UNCHANGED <<story, sub, owned, rows, inbox, calls, acked, receipts, first, faults>>

\* _scrub_webhook_payloads(): by the provider's ids, when there are any.
ScrubPayloads(r) ==
  /\ at[r].step = "payloads" /\ Runs(r)
  /\ at' = [at EXCEPT ![r].step = "commit", ![r].erased = Known(r)]
  /\ UNCHANGED <<story, sub, owned, rows, inbox, calls, acked, receipts, first, faults>>

\* Mutant of Receipted: an account there is nothing of is somebody else's.
ReceiptedIfTouched(r) ==
  IF at[r].sub \/ at[r].wallet THEN receipts \cup {r} ELSE receipts

\* A receipt is owed for every request, also when it finds nothing.
Receipted(r) == receipts \cup {r}

\* The transaction commits, with the receipt.
Commit(r) ==
  /\ at[r].step = "commit"
  /\ sub' = IF at[r].sub THEN [of |-> "erased", ids |-> {}] ELSE sub
  /\ owned' = (owned /\ ~at[r].wallet)
  /\ rows' = [k \in DOMAIN rows |->
       IF k \in at[r].scrubbed THEN [rows[k] EXCEPT !.text = {}, !.mark = NoMark]
                               ELSE rows[k]]
  /\ payloads' = payloads \ at[r].erased
  /\ receipts' = Receipted(r)
  /\ at' = [at EXCEPT ![r] = Idle] /\ acked' = acked \cup {r}
  /\ UNCHANGED <<story, log, calls, first, faults>>

\* A worker dies: before the commit, or after it and before the bus knows.
Die(r) ==
  /\ faults < MaxFaults /\ faults' = faults + 1
  /\ \/ at[r] # Idle /\ at' = [at EXCEPT ![r] = Idle] /\ acked' = acked
     \/ r \in acked /\ acked' = acked \ {r} /\ at' = at
  /\ UNCHANGED <<story, sub, owned, rows, inbox, calls, receipts, first>>

\* The database rolls back one of those that wait in a circle.
BreakDeadlock(x) ==
  /\ \E D \in Circles : x \in D
  /\ IF x \in Requests
       THEN at' = [at EXCEPT ![x] = Idle] /\ UNCHANGED calls
       ELSE calls' = [calls EXCEPT ![x] = Idle] /\ UNCHANGED at
  /\ UNCHANGED <<story, sub, owned, rows, inbox, acked, receipts, first, faults>>

Erase(r) == Begin(r) \/ Pin(r) \/ Scrub(r) \/ Detach(r) \/ ScrubPayloads(r) \/ Commit(r)
\* A call's statements, those that wait with the wallet's lock apart.
Waiting(c) ==
  Save(c) \/ Adopt(c) \/ Bind(c) \/ Grant(c) \/ ClawBack(c) \/ Won(c) \/ Unmatched(c)
WaitingLocked(c) == Capture(c) \/ GiveBack(c)
Call(c) == Waiting(c) \/ WaitingLocked(c)

Next ==
  \/ Spend
  \/ \E e \in Events : Store(e)
  \/ \E c \in Callers : \/ BeginCapture(c) \/ BeginSave(c) \/ Call(c)
                        \/ \E e \in Events : BeginHandle(c, e)
  \/ \E r \in Requests : Erase(r) \/ Die(r)
  \/ \E x \in Transactions : BreakDeadlock(x)

Spec == Init /\ [][Next]_vars

-------------------------------------------------------------------------------
\* Types; a lock is held by one transaction.
TypeOK ==
  /\ story \in Stories /\ sub \in SubType /\ owned \in BOOLEAN
  /\ rows \in Seq(RowType)
  /\ log \in [Events -> {"absent", "stored", "processed"}]
  /\ payloads \subseteq {e \in Events : log[e] # "absent"}
  /\ \A x, y \in Transactions : x # y => Holds(x) \cap Holds(y) = {}
  /\ acked \subseteq receipts /\ receipts \subseteq Requests

\* gdpr.section.erased: once a request has its receipt, nothing of what was there
\* when the first one began still names the person: none of the text that was in
\* the rows of the wallet, no payload its subscription's ids find, and not the
\* subscription itself.  The ids and the wallet are gone too, but for the two calls
\* that write what they read before (IdsStayGone, WalletStaysNobodys).  Whatever
\* else ran beside it, however many deliveries there were and whichever of them
\* died or were rolled back in a deadlock.
ErasedWhatWas ==
  receipts # {} =>
    /\ \A k \in 1..first.rows : "before" \notin rows[k].text
    /\ payloads \cap first.payloads = {}
    /\ first.sub => sub.of = "erased"
    /\ first.sub /\ (\A e \in story.events : e.kind # "subscription") => sub.ids = {}
    /\ story.saves \/ ~owned

\* Lock queues are fair, the database breaks circles, workers do not stop.
Fairness ==
  /\ \A r \in Requests : SF_vars(Erase(r))
  /\ \A c \in Callers : SF_vars(Waiting(c)) /\ SF_vars(WaitingLocked(c))
  /\ WF_vars(\E x \in Transactions : BreakDeadlock(x))

FairSpec == Spec /\ Fairness

\* "an erasure request ... must reach those rows and come back with a receipt":
\* each of them gets one, also the one that finds nothing left, and no capture or
\* webhook that waits for the erasure stops it for good.
EveryRequestReceipted == <>(receipts = Requests)

-------------------------------------------------------------------------------
(***************************************************************************)
(* What the documentation says and the code does not do (see the README).  *)
(***************************************************************************)

\* "the processor's names for the person go too - the Stripe customer and
\* subscription ids on Subscription": an erased row has none.
IdsStayGone == sub.of = "erased" => sub.ids = {}

\* "the wallet's user is NULL after the first run": once a request has its receipt,
\* the wallet is nobody's.
WalletStaysNobodys == receipts # {} => ~owned

\* real_money() and was_waived() read marks that LEDGER_METADATA_KEYS does not
\* keep: "an erasure that restated a closed reporting period would be a
\* bookkeeping change wearing a privacy costume".
MarksKept == \A k \in DOMAIN rows : rows[k].mark = rows[k].was

\* "removes what the person wrote": once every request has its receipt, no row of
\* the detached wallet carries text.
NothingWritten ==
  receipts = Requests => \A k \in DOMAIN rows : rows[k].text = {}

\* "The wallet row is the module's single serialisation point"
\* (_load_hold_for_update): nobody waits in a circle.
NoDeadlock == Circles = {}

===============================================================================
