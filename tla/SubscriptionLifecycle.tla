------------------------- MODULE SubscriptionLifecycle -------------------------
(***************************************************************************)
(* The local row of one user's subscription and the events that move it    *)
(* (src/services.py: the subscription and checkout handlers, the parked    *)
(* period, the reconciliation; src/views.py: the cancel button).           *)
(*                                                                         *)
(* The provider changes its subscriptions and stamps every change; the     *)
(* stamped events are handled in any order, each once (the event log's     *)
(* lock and processed mark).  A handler is a transaction, but it reads the *)
(* row without a lock and saves named fields later: Begin takes the copy   *)
(* it works from, the commit writes what that copy led to.  The same holds *)
(* for a reconciliation (list, fetch, save) and for the cancel button      *)
(* (read, call the provider, save).                                        *)
(***************************************************************************)
EXTENDS Integers, Sequences, FiniteSets, Functions

CONSTANTS
  Subs,            \* the provider's subscriptions of this user
  NoSub,           \* no provider subscription: the free-plan row
  Workers,         \* webhook workers
  Idle,            \* nothing in hand
  Ends,            \* instants at which a period can end
  SharedCustomer,  \* the subscriptions belong to one provider customer
  NamesUser,       \* the host puts the user into the subscription's metadata
  SameSecond,      \* the provider may stamp two changes with one second
  MaxTime,         \* bound: the last clock reading
  MaxEvents,       \* bound: events the provider emits
  MaxRepairs,      \* bound: reconciliations
  MaxFailures      \* bound: handlers that fail and roll back

ASSUME SubsAssumption ==
  NoSub # Idle /\ {NoSub, Idle} \cap Subs = {} /\ IsFiniteSet(Subs)
ASSUME EndsAssumption == Ends \subseteq Nat \ {0}
ASSUME SwitchesAssumption ==
  SharedCustomer \in BOOLEAN /\ NamesUser \in BOOLEAN /\ SameSecond \in BOOLEAN
ASSUME LimitsAssumption ==
  /\ MaxTime \in Nat /\ MaxEvents \in Nat
  /\ MaxRepairs \in Nat /\ MaxFailures \in Nat

VARIABLES
  time,      \* the clock of the provider and of the deployment
  real,      \* the provider's subscriptions
  events,    \* what it emitted, in order of emission
  done,      \* StripeWebhookEvent.processed_at is set
  row,       \* Subscription
  parked,    \* PendingSubscriptionPeriod
  bundles,   \* expires_at of the lot each checkout granted; 0 is NULL
  jobs,      \* worker -> the event in hand and what it read
  repair,    \* the running reconciliation
  clicked,   \* the cancel button waits for the provider's answer
  repairs, failures

vars == <<time, real, events, done, row, parked, bundles, jobs, repair, clicked,
          repairs, failures>>

provider == <<time, real, events>>
local == <<row, parked, bundles>>
others == <<repair, clicked, repairs, failures>>

Status == {"incomplete", "active", "past_due", "cancelled"}

\* How far along each status is: the tie-break within one second.
LIFECYCLE_RANK ==
  [incomplete |-> 0, active |-> 3, past_due |-> 4, cancelled |-> 7]

\* clock is last_provider_event_at, end current_period_end, leaving
\* cancel_at_period_end; 0 is NULL (stamps and ends are later).
Row == [sub : Subs \cup {NoSub}, status : Status, end : Ends \cup {0},
        leaving : BOOLEAN, clock : Nat]
NoRow == [sub |-> Idle]
FreeRow == [sub |-> NoSub, status |-> "active", end |-> 0,
            leaving |-> FALSE, clock |-> 0]

Period == [status : Status, end : Ends, at : Nat]
NoPeriod == [at |-> 0]

Ungranted == -1

Event == [kind : {"updated", "deleted", "checkout"}, sub : Subs, at : Nat,
          status : Status, end : Ends, leaving : BOOLEAN]

Exists(r) == r # NoRow

Latest(a, b) == IF a >= b THEN a ELSE b

-------------------------------------------------------------------------------
\* Mutant of Stale: the payload is applied in delivery order.
NeverStale(seen, at, status) == FALSE

\* _is_stale_lifecycle_event(): would this move the row seen back in time?
Stale(seen, at, status) ==
  /\ seen.clock # 0
  /\ \/ at < seen.clock
     \/ /\ at = seen.clock
        /\ LIFECYCLE_RANK[status] < LIFECYCLE_RANK[seen.status]

\* _resolve_local_subscription(): by id, by customer, by the user named.
Resolves(r, s) ==
  /\ Exists(r)
  /\ r.sub = s \/ (r.sub # NoSub /\ SharedCustomer) \/ NamesUser

\* A row without a provider id is adopted, and locked by that save.
Adopts(r, s) == Resolves(r, s) /\ r.sub = NoSub

Bound(r, s) == IF r.sub = NoSub THEN [r EXCEPT !.sub = s] ELSE r

\* Mutant of Stamped: bundles granted before the period was known stay undated.
NeverStamped(bs, s, end) == bs

\* _stamp_subscription_period(): date the lots granted before it was known.
Stamped(bs, s, end) ==
  [t \in Subs |-> IF t = s /\ bs[t] = 0 THEN end ELSE bs[t]]

\* _future_or_none()
FutureOrNone(end) == IF end > time THEN end ELSE 0

-------------------------------------------------------------------------------
(***************************************************************************)
(* The provider.  Every change emits events with its stamp.                *)
(***************************************************************************)
Changes(s, state, kinds) ==
  \E now \in {time + 1} \cup (IF SameSecond /\ time > 0 THEN {time} ELSE {}) :
    /\ now <= MaxTime /\ Len(events) + Len(kinds) <= MaxEvents
    /\ time' = now
    /\ real' = [real EXCEPT ![s] = state]
    /\ events' = events \o
         [i \in DOMAIN kinds |->
            [kind |-> kinds[i], sub |-> s, at |-> now, status |-> state.status,
             end |-> state.end, leaving |-> state.leaving]]

Absent == [status |-> "absent"]

Create(s) ==
  /\ real[s] = Absent
  /\ \E end \in Ends :
       /\ end > time + 1
       /\ Changes(s, [status |-> "incomplete", end |-> end, leaving |-> FALSE],
                  <<"updated">>)

\* The first payment: the subscription turns active, its checkout completes.
Pay(s) ==
  /\ real[s].status = "incomplete"
  /\ Changes(s, [real[s] EXCEPT !.status = "active"], <<"updated", "checkout">>)

Renew(s) ==
  /\ real[s].status = "active" /\ ~real[s].leaving
  /\ \E end \in Ends :
       end > real[s].end /\ Changes(s, [real[s] EXCEPT !.end = end], <<"updated">>)

Fail(s) ==
  /\ real[s].status = "active"
  /\ Changes(s, [real[s] EXCEPT !.status = "past_due"], <<"updated">>)

Recover(s) ==
  /\ real[s].status = "past_due"
  /\ Changes(s, [real[s] EXCEPT !.status = "active"], <<"updated">>)

End(s) ==
  /\ real[s].status \in {"active", "past_due"}
  /\ Changes(s, [real[s] EXCEPT !.status = "cancelled", !.leaving = FALSE],
             <<"deleted">>)

Tick == time < MaxTime /\ time' = time + 1 /\ UNCHANGED <<real, events>>

Provider ==
  /\ \/ Tick
     \/ \E s \in Subs : \/ Create(s) \/ Pay(s) \/ Renew(s)
                        \/ Fail(s) \/ Recover(s) \/ End(s)
  /\ UNCHANGED <<done, local, jobs, others>>

-------------------------------------------------------------------------------
(***************************************************************************)
(* The webhook handlers.                                                   *)
(***************************************************************************)
Busy(w) == jobs[w] # Idle

\* No other transaction holds the row's lock since it adopted the row.
RowFree(w) == \A v \in Workers \ {w} : Busy(v) => ~jobs[v].adopts

\* Mutant of Begin: the log row is not locked, two workers handle one event.
BeginUnlocked(w) ==
  \E e \in DOMAIN events \ done :
    LET s == events[e].sub
    IN  /\ ~Busy(w)
        /\ jobs' = [jobs EXCEPT ![w] =
             [event |-> e,
              seen |-> IF Resolves(row, s) THEN Bound(row, s) ELSE NoRow,
              adopts |-> FALSE, stash |-> parked[s]]]
        /\ UNCHANGED <<provider, done, local, others>>

\* The handler's reads: the row it resolves to, the period parked for it.
Begin(w) ==
  \E e \in DOMAIN events \ done :
    LET s == events[e].sub
        lifecycle == events[e].kind # "checkout"
    IN  /\ ~Busy(w)
        /\ \A v \in Workers : Busy(v) => jobs[v].event # e
        /\ (lifecycle /\ Adopts(row, s)) => RowFree(w)
        /\ jobs' = [jobs EXCEPT ![w] =
             [event |-> e,
              seen |-> IF ~lifecycle THEN row
                       ELSE IF Resolves(row, s) THEN Bound(row, s) ELSE NoRow,
              adopts |-> lifecycle /\ Adopts(row, s),
              stash |-> parked[s]]]
        /\ UNCHANGED <<provider, done, local, others>>

\* The transaction of w commits, its event's processed mark with it.
Commits(w) ==
  /\ done' = done \cup {jobs[w].event}
  /\ jobs' = [jobs EXCEPT ![w] = Idle]
  /\ UNCHANGED <<provider, others>>

\* Mutant of DropStale: the stale event is not marked, and comes back.
DropUnmarked(w) ==
  LET job == jobs[w]  e == events[job.event]
  IN  /\ Busy(w) /\ e.kind # "checkout" /\ Exists(job.seen)
      /\ Stale(job.seen, e.at, e.status)
      /\ jobs' = [jobs EXCEPT ![w] = Idle]
      /\ UNCHANGED <<provider, done, local, others>>

\* handle_subscription_updated(), handle_subscription_deleted(): the payload
\* is older than what the row seen holds, and dropped.
DropStale(w) ==
  LET job == jobs[w]  e == events[job.event]
  IN  /\ Busy(w) /\ e.kind # "checkout" /\ Exists(job.seen)
      /\ Stale(job.seen, e.at, e.status)
      /\ row' = IF job.adopts THEN [row EXCEPT !.sub = e.sub] ELSE row
      /\ UNCHANGED <<parked, bundles>>
      /\ Commits(w)

\* save(update_fields): the row r now, written by a handler that saw seen.
Saved(r, seen, e) ==
  [r EXCEPT !.sub = IF @ = NoSub THEN seen.sub ELSE @, !.status = e.status,
            !.end = IF e.end # seen.end THEN e.end ELSE @,
            !.leaving = IF e.kind = "deleted" THEN FALSE
                        ELSE IF e.leaving # seen.leaving THEN e.leaving ELSE @,
            !.clock = IF e.at > seen.clock THEN e.at ELSE @]

Apply(w) ==
  LET job == jobs[w]  e == events[job.event]
  IN  /\ Busy(w) /\ e.kind # "checkout" /\ Exists(job.seen)
      /\ ~Stale(job.seen, e.at, e.status) /\ RowFree(w)
      /\ row' = Saved(row, job.seen, e)
      /\ bundles' = Stamped(bundles, job.seen.sub, e.end)
      /\ UNCHANGED parked
      /\ Commits(w)

\* Mutant of Superseded: the period parked last stays, whatever its stamp.
NeverSuperseded(stash, e) == FALSE

\* An older event does not replace the period parked by a newer one.
Superseded(stash, e) == stash # NoPeriod /\ e.at < stash.at

\* _stash_subscription_period(): there is no row yet to write to.
Park(w) ==
  LET job == jobs[w]  e == events[job.event]
  IN  /\ Busy(w) /\ e.kind # "checkout" /\ ~Exists(job.seen)
      /\ parked' = IF Superseded(job.stash, e) THEN parked
                   ELSE [parked EXCEPT ![e.sub] =
                           [status |-> e.status, end |-> e.end, at |-> e.at]]
      /\ UNCHANGED <<row, bundles>>
      /\ Commits(w)

\* update_or_create() of a checkout: the row as the purchase leaves it.  An
\* old checkout leaves the status and the clock alone.
Purchased(r, seen, e) ==
  IF Exists(seen) /\ Stale(seen, e.at, "active")
    THEN [r EXCEPT !.sub = e.sub]
    ELSE [(IF Exists(r) THEN r ELSE FreeRow) EXCEPT
            !.sub = e.sub, !.status = "active",
            !.clock = IF Exists(seen) THEN Latest(e.at, seen.clock) ELSE e.at]

\* _apply_pending_period(): its period always, its status unless it is older
\* than what the row has seen.
Claimed(r, p) ==
  IF p = NoPeriod THEN r
  ELSE IF p.at < r.clock THEN [r EXCEPT !.end = p.end]
  ELSE [r EXCEPT !.end = p.end, !.status = p.status, !.clock = p.at]

\* Mutant of Checkout: the claimed period stays parked.
CheckoutUnclaimed(w) ==
  LET job == jobs[w]  e == events[job.event]
      claimed == Claimed(Purchased(row, job.seen, e), parked[e.sub])
  IN  /\ Busy(w) /\ e.kind = "checkout" /\ RowFree(w)
      /\ row' = claimed
      /\ bundles' = [bundles EXCEPT ![e.sub] = FutureOrNone(claimed.end)]
      /\ UNCHANGED parked
      /\ Commits(w)

\* handle_checkout_completed() for a plan: bind the row, claim the parked
\* period, grant the bundle with the row's period end if that is ahead.
Checkout(w) ==
  LET job == jobs[w]  e == events[job.event]
      bought == Purchased(row, job.seen, e)
      claimed == Claimed(bought, parked[e.sub])
  IN  /\ Busy(w) /\ e.kind = "checkout" /\ RowFree(w)
      /\ row' = claimed
      /\ parked' = [parked EXCEPT ![e.sub] = NoPeriod]
      /\ bundles' = [bundles EXCEPT ![e.sub] = FutureOrNone(claimed.end)]
      /\ Commits(w)

\* The handler raises, or its process dies: everything is rolled back, the
\* event is not marked and will be delivered or replayed again.
Rollback(w) ==
  /\ Busy(w) /\ failures < MaxFailures /\ failures' = failures + 1
  /\ jobs' = [jobs EXCEPT ![w] = Idle]
  /\ UNCHANGED <<provider, done, local, repair, clicked, repairs>>

Handlers ==
  \E w \in Workers : \/ Begin(w) \/ DropStale(w) \/ Apply(w) \/ Park(w)
                     \/ Checkout(w) \/ Rollback(w)

-------------------------------------------------------------------------------
\* SubscriptionView: the first read creates the free-plan row.
ReadSubscription ==
  /\ ~Exists(row) /\ row' = FreeRow
  /\ UNCHANGED <<provider, done, parked, bundles, jobs, others>>

\* Subscription.is_paid: a plan was bought and there is a provider id.
Paid == row.sub \in Subs /\ \E s \in Subs : bundles[s] # Ungranted

\* SubscriptionCancelView: the provider is asked first ...
ClickCancel(s) ==
  /\ Paid /\ row.sub = s /\ ~clicked /\ clicked' = TRUE
  /\ real[s].status \in {"active", "past_due"}
  /\ \/ ~real[s].leaving /\ Changes(s, [real[s] EXCEPT !.leaving = TRUE], <<"updated">>)
     \/ real[s].leaving /\ UNCHANGED provider
  /\ UNCHANGED <<done, local, jobs, repair, repairs, failures>>

\* ... and the flag is saved once it has answered.
ShowCancelled ==
  /\ clicked /\ clicked' = FALSE /\ RowFree(Idle)
  /\ row' = [row EXCEPT !.leaving = TRUE]
  /\ UNCHANGED <<provider, done, parked, bundles, jobs, repair, repairs, failures>>

\* reconcile_subscriptions(): list the rows ...
ListRow ==
  /\ repair = Idle /\ repairs < MaxRepairs /\ repairs' = repairs + 1
  /\ Exists(row) /\ row.sub # NoSub
  /\ repair' = [seen |-> row, fetched |-> Idle]
  /\ UNCHANGED <<provider, done, local, jobs, clicked, failures>>

\* ... ask the provider, which may not answer ...
Fetch ==
  /\ repair # Idle /\ repair.fetched = Idle
  /\ \/ repair' = [repair EXCEPT !.fetched = real[repair.seen.sub]]
     \/ repair' = Idle
  /\ UNCHANGED <<provider, done, local, jobs, clicked, repairs, failures>>

\* ... and save the fields that differ from the copy, stamped with the clock.
Repaired(r, seen, fetched) ==
  [r EXCEPT
     !.status = IF fetched.status # seen.status THEN fetched.status ELSE @,
     !.end = IF fetched.end # seen.end THEN fetched.end ELSE @,
     !.leaving = IF fetched.leaving # seen.leaving THEN fetched.leaving ELSE @,
     !.clock = IF time > seen.clock THEN time ELSE @]

Drifted(seen, fetched) ==
  fetched # [status |-> seen.status, end |-> seen.end, leaving |-> seen.leaving]

SaveRepair ==
  /\ repair # Idle /\ repair.fetched # Idle /\ RowFree(Idle)
  /\ row' = Repaired(row, repair.seen, repair.fetched)
  /\ bundles' = IF Drifted(repair.seen, repair.fetched)
                  THEN Stamped(bundles, repair.seen.sub, repair.fetched.end)
                  ELSE bundles
  /\ repair' = Idle
  /\ UNCHANGED <<provider, done, parked, jobs, clicked, repairs, failures>>

Reconcile == ListRow \/ Fetch \/ SaveRepair

-------------------------------------------------------------------------------
Init ==
  /\ time = 0 /\ events = <<>> /\ done = {}
  /\ real = [s \in Subs |-> Absent]
  /\ row = NoRow /\ parked = [s \in Subs |-> NoPeriod] /\ bundles = [s \in Subs |-> Ungranted]
  /\ jobs = [w \in Workers |-> Idle]
  /\ repair = Idle /\ clicked = FALSE /\ repairs = 0 /\ failures = 0

Next ==
  \/ Provider \/ Handlers \/ ReadSubscription
  \/ (\E s \in Subs : ClickCancel(s)) \/ ShowCancelled
  \/ Reconcile

Spec == Init /\ [][Next]_vars

\* A worker that can take an event or finish one does: the provider redelivers
\* what was not acknowledged, and the operator replays what is left unmarked.
Handle(w) == Begin(w) \/ DropStale(w) \/ Apply(w) \/ Park(w) \/ Checkout(w)
FairSpec == Spec /\ \A w \in Workers : WF_vars(Handle(w))

-------------------------------------------------------------------------------
\* Types; a job works on an event no other job has in hand.
TypeOK ==
  /\ time \in 0..MaxTime
  /\ events \in Seq(Event) /\ done \subseteq DOMAIN events
  /\ row \in Row \cup {NoRow}
  /\ parked \in [Subs -> Period \cup {NoPeriod}]
  /\ bundles \in [Subs -> Ends \cup {0, Ungranted}]
  /\ \A w \in Workers : Busy(w) =>
       /\ jobs[w].event \in DOMAIN events \ done
       /\ \A v \in Workers \ {w} : Busy(v) => jobs[v].event # jobs[w].event

\* What an event says of the status; a completed checkout says it is active.
Says(e) == IF e.kind = "checkout" THEN "active" ELSE e.status

Handled(s) == {e \in done : events[e].sub = s}

\* The row holds the newest word: no handled event is newer than its clock, and
\* its status is what some event of that instant said.
NewestWordHeld ==
  \A s \in Subs : row.sub = s =>
    /\ \A e \in Handled(s) : events[e].at <= row.clock
    /\ \E e \in Handled(s) :
         events[e].at = row.clock /\ Says(events[e]) = row.status

\* Once everything the provider emitted has been handled, in whatever order,
\* the row says what the provider says.
MirrorsOnceHandled ==
  done = DOMAIN events =>
    \A s \in Subs : row.sub = s => /\ row.status = real[s].status
                                   /\ row.end = real[s].end

\* A period that arrived before its row is claimed by it: none stays parked
\* under an id the row carries (PendingSubscriptionPeriod: "deleted the moment
\* the local subscription claims it").
ParkedIsClaimed == \A s \in Subs : row.sub = s => parked[s] = NoPeriod

\* The bundle a checkout granted before the period was known does not outlive
\* the subscription: it is dated as soon as the row knows when it ends
\* (_stamp_subscription_period).
BundleDated ==
  \A s \in Subs : (row.sub = s /\ bundles[s] = 0) => row.end <= time

\* No event is given up: not one that was stale, not one whose handler failed
\* halfway, not one that found no row or waited for its lock.
EveryEventHandled ==
  \A e \in 1..MaxEvents : e \in DOMAIN events ~> e \in done

-------------------------------------------------------------------------------
\* What comments of the code say, and the runs find otherwise.

\* The provider clock of the row is never moved back, so no handler undoes what
\* a newer event did (_advance_provider_clock).
ClockNeverBack == [][Exists(row) => row'.clock >= row.clock]_vars

\* Of two events of one second the more advanced status wins (LIFECYCLE_RANK).
AdvancedWins ==
  \A s \in Subs : row.sub = s =>
    ~\E e \in Handled(s) :
       /\ events[e].at = row.clock
       /\ LIFECYCLE_RANK[row.status] < LIFECYCLE_RANK[Says(events[e])]

\* A parked period older than what the row carries is not applied to it
\* (PendingSubscriptionPeriod.provider_event_at).
ParkedOnlyIfNewer ==
  [][\A s \in Subs :
       (/\ parked[s] # NoPeriod /\ parked'[s] = NoPeriod
        /\ Exists(row) /\ parked[s].at < row.clock)
         => row'.end = row.end]_vars

\* The row is what the provider had at the row's clock: no undelivered change
\* is older than that and yet missing from it (reconcile_subscriptions: "the row
\* is current as of NOW in provider time").
CurrentAsOfClock ==
  \A s \in Subs : row.sub = s =>
    \A e \in DOMAIN events \ done :
      (/\ events[e].sub = s /\ events[e].at <= row.clock
       /\ \A d \in DOMAIN events : events[d].sub = s => events[d].at <= events[e].at)
      => row.status = Says(events[e])

\* A subscription that has ended is not also about to end
\* (handle_subscription_deleted).
NotEndedAndLeaving == row # NoRow => ~(row.status = "cancelled" /\ row.leaving)

\* A row takes its status from the subscription whose id it carries: the
\* customer route is for rows that have no id yet (_resolve_local_subscription).
OwnEventsOnly ==
  \A s \in Subs : row.sub = s =>
    \E e \in Handled(s) : Says(events[e]) = row.status

\* The plan's bundle lives as long as the period that pays for it, never
\* somebody else's (handle_checkout_completed).
BundleOfOwnPeriod ==
  \A s \in Subs : bundles[s] > 0 =>
    \E e \in DOMAIN events : events[e].sub = s /\ events[e].end = bundles[s]

===============================================================================
