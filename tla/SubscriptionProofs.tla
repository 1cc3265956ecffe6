--------------------------- MODULE SubscriptionProofs ---------------------------
(***************************************************************************)
(* The local row of a subscription, for every number of events, workers    *)
(* and instants: types, the dating of bundles, and, where one worker       *)
(* handles the events of one subscription, the word the row holds, the     *)
(* period parked for it and what it says once everything was handled.      *)
(***************************************************************************)
EXTENDS SubscriptionLifecycle, SequenceTheorems, TLAPS

State == [status : Status, end : Ends, leaving : BOOLEAN]

Job == [event : Nat, seen : Row \cup {NoRow}, adopts : BOOLEAN,
        stash : Period \cup {NoPeriod}]

\* A subscription the provider has.
Known(s) == real[s] # Absent

ProviderOK ==
  /\ real \in [Subs -> State \cup {Absent}]
  /\ \A e \in DOMAIN events : Known(events[e].sub)

\* A row that exists keeps existing, a subscription it carries the provider has.
RowOK == row.sub \in Subs => Known(row.sub)

JobsOK ==
  /\ jobs \in [Workers -> Job \cup {Idle}]
  /\ \A w \in Workers : Busy(w) =>
       /\ Exists(jobs[w].seen) => Exists(row)
       /\ jobs[w].seen.sub \in Subs => Known(jobs[w].seen.sub)

RepairOK ==
  repair # Idle =>
    /\ repair \in [seen : Row, fetched : State \cup {Idle}]
    /\ repair.seen.sub \in Subs /\ Known(repair.seen.sub) /\ row.sub \in Subs

ClickOK == clicked \in BOOLEAN /\ (clicked => row.sub \in Subs)

Typed == TypeOK /\ ProviderOK /\ RowOK /\ JobsOK /\ RepairOK /\ ClickOK

-------------------------------------------------------------------------------
\* What is nothing is not something.
LEMMA Nothings ==
  /\ NoSub \notin Subs /\ Idle \notin Subs /\ NoSub # Idle
  /\ NoRow.sub \notin Subs
  /\ \A st \in State : st # Absent
  /\ \A e \in Ends : e \in Nat /\ e > 0
<1>1. NoSub \notin Subs /\ Idle \notin Subs /\ NoSub # Idle
  BY SubsAssumption
<1>2. NoRow.sub = Idle
  BY DEF NoRow
<1>3. ASSUME NEW st \in State
      PROVE  st # Absent
  <2>1. st.status \in Status /\ Absent.status = "absent"
    BY DEF State, Absent
  <2> QED BY <2>1 DEF Status
<1>4. \A e \in Ends : e \in Nat /\ e > 0
  BY EndsAssumption
<1> QED BY <1>1, <1>2, <1>3, <1>4

\* The columns of a row, of a period, of an event.
LEMMA RowFields ==
  ASSUME NEW r \in Row
  PROVE  /\ r.sub \in Subs \cup {NoSub} /\ r.status \in Status
         /\ r.end \in Ends \cup {0} /\ r.end \in Nat
         /\ r.leaving \in BOOLEAN /\ r.clock \in Nat
<1>1. /\ r.sub \in Subs \cup {NoSub} /\ r.status \in Status
      /\ r.end \in Ends \cup {0} /\ r.leaving \in BOOLEAN /\ r.clock \in Nat
  BY DEF Row
<1>2. r.end \in Nat
  <2>1. CASE r.end \in Ends
    BY <2>1, Nothings
  <2>2. CASE r.end = 0
    BY <2>2
  <2> QED BY <1>1, <2>1, <2>2
<1> QED BY <1>1, <1>2

LEMMA EventFields ==
  ASSUME events \in Seq(Event), NEW e \in DOMAIN events
  PROVE  /\ events[e] \in Event
         /\ events[e].kind \in {"updated", "deleted", "checkout"} /\ events[e].sub \in Subs
         /\ events[e].at \in Nat /\ events[e].status \in Status
         /\ events[e].end \in Ends /\ events[e].leaving \in BOOLEAN
<1>1. DOMAIN events = 1..Len(events) /\ \A k \in 1..Len(events) : events[k] \in Event
  OBVIOUS
<1>2. events[e] \in Event
  BY <1>1
<1> QED BY <1>2 DEF Event

LEMMA FreeRowTypes ==
  /\ FreeRow \in Row /\ FreeRow.sub = NoSub /\ FreeRow.end = 0 /\ FreeRow.clock = 0
  /\ FreeRow.status = "active"
<1>1. FreeRow \in Row
  BY DEF FreeRow, Row, Status
<1> QED BY <1>1 DEF FreeRow

\* No row is not a row: it has one column.
LEMMA RowsExist ==
  /\ \A r \in Row : Exists(r)
  /\ \A r \in Row \cup {NoRow} : Exists(r) => r \in Row
<1>1. ASSUME NEW r \in Row
      PROVE  r # NoRow
  <2>1. "status" \in DOMAIN r
    BY DEF Row
  <2>2. DOMAIN NoRow = {"sub"}
    BY DEF NoRow
  <2> QED BY <2>1, <2>2
<1> QED BY <1>1 DEF Exists

-------------------------------------------------------------------------------
(***************************************************************************)
(* The provider.                                                           *)
(***************************************************************************)

\* The kinds of events that come of one change to a state.
Kinds(kinds, st) ==
  \/ kinds = <<"updated">> \/ kinds = <<"deleted">>
  \/ kinds = <<"updated", "checkout">> /\ st.status = "active"

Emits(s, st, kinds) ==
  LET n == Len(events)
  IN  /\ time' \in 0..MaxTime /\ time <= time'
      /\ time' = time + 1 \/ SameSecond
      /\ real' = [real EXCEPT ![s] = st]
      /\ events' \in Seq(Event) /\ n \in Nat
      /\ DOMAIN events = 1..n /\ DOMAIN events' = 1..(n + Len(kinds))
      /\ Len(kinds) \in 1..2 /\ kinds[1] # "checkout"
      /\ \A i \in 1..n : events'[i] = events[i]
      /\ \A i \in 1..Len(kinds) :
           events'[n + i] = [kind |-> kinds[i], sub |-> s, at |-> time',
                             status |-> st.status, end |-> st.end, leaving |-> st.leaving]

LEMMA ChangesEmit ==
  ASSUME Typed, NEW s \in Subs, NEW st \in State, NEW kinds, Kinds(kinds, st),
         Changes(s, st, kinds)
  PROVE  Emits(s, st, kinds)
<1> DEFINE n == Len(events)
           k == Len(kinds)
           new == [i \in DOMAIN kinds |->
                     [kind |-> kinds[i], sub |-> s, at |-> time', status |-> st.status,
                      end |-> st.end, leaving |-> st.leaving]]
<1>1. /\ k \in 1..2 /\ DOMAIN kinds = 1..k /\ kinds[1] # "checkout"
      /\ \A i \in 1..k : kinds[i] \in {"updated", "deleted", "checkout"}
  <2>1. CASE kinds = <<"updated">>
    BY <2>1
  <2>2. CASE kinds = <<"deleted">>
    BY <2>2
  <2>3. CASE kinds = <<"updated", "checkout">>
    BY <2>3
  <2> QED BY <2>1, <2>2, <2>3 DEF Kinds
<1>2. time \in Nat /\ time <= MaxTime /\ MaxTime \in Nat
  BY LimitsAssumption DEF Typed, TypeOK
<1>3. PICK now \in {time + 1} \cup (IF SameSecond /\ time > 0 THEN {time} ELSE {}) :
        /\ now <= MaxTime /\ time' = now
        /\ real' = [real EXCEPT ![s] = st]
        /\ events' = events \o
             [i \in DOMAIN kinds |->
                [kind |-> kinds[i], sub |-> s, at |-> now, status |-> st.status,
                 end |-> st.end, leaving |-> st.leaving]]
  BY DEF Changes
<1>4. /\ time' \in 0..MaxTime /\ time <= time' /\ (time' = time + 1 \/ SameSecond)
      /\ events' = events \o new /\ real' = [real EXCEPT ![s] = st]
  BY <1>2, <1>3
<1>5. st.status \in Status /\ st.end \in Ends /\ st.leaving \in BOOLEAN /\ time' \in Nat
  BY <1>4, <1>2 DEF State
<1>6. \A i \in 1..k : new[i] \in Event
  BY <1>1, <1>5 DEF Event
<1>7. new \in Seq(Event) /\ Len(new) = k
  <2>1. new \in [1..k -> Event]
    BY <1>1, <1>6
  <2>2. k \in Nat
    BY <1>1
  <2> HIDE DEF new, k
  <2> QED BY <2>1, <2>2
<1>8. events \in Seq(Event) /\ n \in Nat /\ DOMAIN events = 1..n
  BY DEF Typed, TypeOK
<1>9. PICK both : both = events \o new
  OBVIOUS
<1>10. /\ both \in Seq(Event) /\ Len(both) = n + k
       /\ \A i \in 1..(n + k) : both[i] = IF i <= n THEN events[i] ELSE new[i - n]
  <2> HIDE DEF new, k
  <2>1. /\ events \o new \in Seq(Event) /\ Len(events \o new) = Len(events) + Len(new)
        /\ \A i \in 1..(Len(events) + Len(new)) :
             (events \o new)[i] = IF i <= Len(events) THEN events[i] ELSE new[i - Len(events)]
    BY <1>7, <1>8, ConcatProperties, Zenon
  <2> QED BY <2>1, <1>7, <1>9, Zenon
<1>11. DOMAIN both = 1..(n + k)
  BY <1>10, LenProperties
<1>12. events' = both
  BY <1>4, <1>9
<1>13. ASSUME NEW i \in 1..n
       PROVE  both[i] = events[i]
  <2> HIDE DEF new, k, n
  <2>1. i \in 1..(n + k) /\ i <= n
    BY <1>1, <1>8
  <2> QED BY <2>1, <1>10
<1>14. ASSUME NEW i \in 1..k
       PROVE  both[n + i] = [kind |-> kinds[i], sub |-> s, at |-> time', status |-> st.status,
                             end |-> st.end, leaving |-> st.leaving]
  <2>1. new[i] = [kind |-> kinds[i], sub |-> s, at |-> time', status |-> st.status,
                  end |-> st.end, leaving |-> st.leaving]
    BY <1>1
  <2> HIDE DEF new, k, n
  <2>2. n + i \in 1..(n + k) /\ ~(n + i <= n) /\ (n + i) - n = i
    BY <1>1, <1>8
  <2>3. both[n + i] = new[(n + i) - n]
    BY <2>2, <1>10
  <2> QED BY <2>1, <2>2, <2>3
<1> HIDE DEF new
<1> QED BY <1>1, <1>4, <1>8, <1>10, <1>11, <1>12, <1>13, <1>14 DEF Emits

\* What the provider does: nothing the deployment sees but the time, or a
\* change of one subscription with its events.
ProviderStep ==
  \/ /\ time' \in 0..MaxTime /\ time <= time'
     /\ UNCHANGED <<real, events>>
  \/ \E s \in Subs, st \in State : \E kinds : Kinds(kinds, st) /\ Emits(s, st, kinds)

LEMMA StateFields ==
  ASSUME ProviderOK, NEW s \in Subs, Known(s)
  PROVE  /\ real[s] \in State /\ real[s].status \in Status /\ real[s].end \in Ends
         /\ real[s].leaving \in BOOLEAN
         /\ \A x \in Status : [real[s] EXCEPT !.status = x] \in State
         /\ \A x \in Ends : [real[s] EXCEPT !.end = x] \in State
         /\ [real[s] EXCEPT !.leaving = TRUE] \in State
         /\ [real[s] EXCEPT !.status = "cancelled", !.leaving = FALSE] \in State
<1>1. real[s] \in State
  BY DEF ProviderOK, Known
<1> QED BY <1>1 DEF State, Status

LEMMA KnownByStatus ==
  ASSUME NEW s \in Subs, real[s].status \in Status
  PROVE  Known(s)
<1>1. Absent.status = "absent"
  BY DEF Absent
<1> QED BY <1>1 DEF Known, Status

LEMMA ProviderSteps ==
  ASSUME Typed, Provider \/ \E s \in Subs : ClickCancel(s)
  PROVE  ProviderStep
<1>0. ProviderOK /\ time \in Nat /\ time <= MaxTime /\ MaxTime \in Nat
  BY LimitsAssumption DEF Typed, TypeOK
<1>1. CASE Tick
  BY <1>0, <1>1 DEF Tick, ProviderStep
<1>2. ASSUME NEW s \in Subs, NEW st \in State, NEW kinds, Kinds(kinds, st),
             Changes(s, st, kinds)
      PROVE  ProviderStep
  BY <1>2, ChangesEmit, Zenon DEF ProviderStep
<1>3. ASSUME NEW s \in Subs, Create(s)
      PROVE  ProviderStep
  <2>1. PICK end \in Ends :
          Changes(s, [status |-> "incomplete", end |-> end, leaving |-> FALSE], <<"updated">>)
    BY <1>3 DEF Create
  <2>2. [status |-> "incomplete", end |-> end, leaving |-> FALSE] \in State
    BY DEF State, Status
  <2> QED BY <2>1, <2>2, <1>2 DEF Kinds
<1>4. ASSUME NEW s \in Subs, Pay(s)
      PROVE  ProviderStep
  <2>1. Known(s)
    BY <1>4, KnownByStatus DEF Pay, Status
  <2>2. real[s] \in State /\ [real[s] EXCEPT !.status = "active"] \in State
    BY <1>0, <2>1, StateFields DEF Status
  <2>3. [real[s] EXCEPT !.status = "active"].status = "active"
    BY <2>2 DEF State
  <2> QED BY <1>2, <1>4, <2>2, <2>3 DEF Pay, Kinds
<1>5. ASSUME NEW s \in Subs, Renew(s)
      PROVE  ProviderStep
  <2>1. Known(s)
    BY <1>5, KnownByStatus DEF Renew, Status
  <2>2. PICK end \in Ends : Changes(s, [real[s] EXCEPT !.end = end], <<"updated">>)
    BY <1>5 DEF Renew
  <2> QED BY <1>0, <1>2, <2>1, <2>2, StateFields DEF Kinds
<1>6. ASSUME NEW s \in Subs, Fail(s) \/ Recover(s)
      PROVE  ProviderStep
  <2>1. Known(s)
    BY <1>6, KnownByStatus DEF Fail, Recover, Status
  <2>2. /\ [real[s] EXCEPT !.status = "past_due"] \in State
        /\ [real[s] EXCEPT !.status = "active"] \in State
    BY <1>0, <2>1, StateFields DEF Status
  <2> QED BY <1>2, <1>6, <2>2 DEF Fail, Recover, Kinds
<1>7. ASSUME NEW s \in Subs, End(s)
      PROVE  ProviderStep
  <2>1. Known(s)
    BY <1>7, KnownByStatus DEF End, Status
  <2> QED BY <1>0, <1>2, <1>7, <2>1, StateFields DEF End, Kinds
<1>8. ASSUME NEW s \in Subs, ClickCancel(s)
      PROVE  ProviderStep
  <2>1. Known(s)
    BY <1>8, KnownByStatus DEF ClickCancel, Status
  <2>2. CASE UNCHANGED provider
    BY <1>0, <2>2 DEF provider, ProviderStep
  <2>3. CASE Changes(s, [real[s] EXCEPT !.leaving = TRUE], <<"updated">>)
    BY <1>0, <1>2, <2>1, <2>3, StateFields DEF Kinds
  <2> QED BY <1>8, <2>2, <2>3 DEF ClickCancel
<1> QED BY <1>1, <1>3, <1>4, <1>5, <1>6, <1>7, <1>8 DEF Provider

\* What the provider did stays: its subscriptions and its events.
LEMMA EmittedStay ==
  ASSUME Typed, ProviderStep
  PROVE  /\ time' \in 0..MaxTime /\ time <= time'
         /\ events' \in Seq(Event) /\ DOMAIN events \subseteq DOMAIN events'
         /\ \A e \in DOMAIN events : events'[e] = events[e]
         /\ \A s \in Subs : Known(s) => Known(s)'
         /\ ProviderOK'
<1>1. CASE UNCHANGED <<real, events>>
  BY <1>1 DEF Typed, TypeOK, ProviderOK, Known, ProviderStep, Emits
<1>2. ASSUME NEW s \in Subs, NEW st \in State, NEW kinds, Emits(s, st, kinds)
      PROVE  /\ time' \in 0..MaxTime /\ time <= time'
             /\ events' \in Seq(Event) /\ DOMAIN events \subseteq DOMAIN events'
             /\ \A e \in DOMAIN events : events'[e] = events[e]
             /\ \A t \in Subs : Known(t) => Known(t)'
             /\ ProviderOK'
  <2> DEFINE n == Len(events)
             k == Len(kinds)
  <2>1. /\ time' \in 0..MaxTime /\ time <= time' /\ events' \in Seq(Event)
        /\ n \in Nat /\ k \in 1..2 /\ DOMAIN events = 1..n /\ DOMAIN events' = 1..(n + k)
        /\ \A i \in 1..n : events'[i] = events[i]
    BY <1>2 DEF Emits
  <2>9. ASSUME NEW i \in 1..k
        PROVE  events'[n + i].sub = s
    <3>1. events'[n + i] = [kind |-> kinds[i], sub |-> s, at |-> time',
                            status |-> st.status, end |-> st.end, leaving |-> st.leaving]
      BY <1>2 DEF Emits
    <3> QED BY <3>1
  <2>2. real \in [Subs -> State \cup {Absent}] /\ real' = [real EXCEPT ![s] = st]
    BY <1>2 DEF Emits, Typed, ProviderOK
  <2>3. real' \in [Subs -> State \cup {Absent}] /\ st # Absent
    BY <2>2, Nothings
  <2>4. \A t \in Subs : Known(t) => Known(t)'
    BY <2>2, <2>3 DEF Known
  <2>5. Known(s)'
    BY <2>2, <2>3 DEF Known
  <2> HIDE DEF n, k
  <2>6. ASSUME NEW e \in 1..(n + k)
        PROVE  Known(events[e].sub)'
    <3>1. CASE e \in 1..n
      <4>1. events[e].sub \in Subs /\ Known(events[e].sub)
        BY <3>1, <2>1, EventFields DEF Typed, TypeOK, ProviderOK
      <4> QED BY <4>1, <3>1, <2>1, <2>4 DEF Known
    <3>2. CASE e \notin 1..n
      <4>1. PICK i \in 1..k : e = n + i
        <5>1. e - n \in 1..k /\ e = n + (e - n)
          BY <3>2, <2>1
        <5> QED BY <5>1
      <4>2. events'[e].sub = s
        BY <4>1, <2>9
      <4> QED BY <4>2, <2>5 DEF Known
    <3> QED BY <3>1, <3>2
  <2>7. ProviderOK'
    BY <2>1, <2>3, <2>6 DEF ProviderOK
  <2>8. 1..n \subseteq 1..(n + k)
    BY <2>1
  <2> QED BY <2>1, <2>4, <2>7, <2>8
<1> QED BY <1>1, <1>2 DEF ProviderStep

-------------------------------------------------------------------------------
(***************************************************************************)
(* Types.                                                                  *)
(***************************************************************************)
LEMMA InitTyped == Init => Typed
<1> SUFFICES ASSUME Init PROVE Typed
  OBVIOUS
<1>1. TypeOK
  BY LimitsAssumption DEF Init, TypeOK, Busy
<1>2. ProviderOK /\ RowOK
  BY Nothings DEF Init, ProviderOK, RowOK
<1>3. JobsOK /\ RepairOK /\ ClickOK
  BY DEF Init, JobsOK, RepairOK, ClickOK, Busy
<1> QED BY <1>1, <1>2, <1>3 DEF Typed

\* The provider moves, and the button may be pressed on a row that is paid for.
LEMMA ProviderTyped ==
  ASSUME Typed, ProviderStep, UNCHANGED <<done, local, jobs, repair>>,
         clicked' \in BOOLEAN, clicked' => row.sub \in Subs
  PROVE  Typed'
<1>1. /\ time' \in 0..MaxTime /\ events' \in Seq(Event) /\ DOMAIN events \subseteq DOMAIN events'
      /\ \A s \in Subs : Known(s) => Known(s)'
      /\ ProviderOK'
  BY EmittedStay
<1>2. UNCHANGED <<done, row, parked, bundles, jobs, repair>>
  BY DEF local
<1>3. TypeOK'
  BY <1>1, <1>2 DEF Typed, TypeOK, Busy
<1>4. RowOK'
  BY <1>1, <1>2 DEF Typed, RowOK
<1>5. JobsOK'
  BY <1>1, <1>2 DEF Typed, JobsOK, Busy
<1>6. RepairOK' /\ ClickOK'
  BY <1>1, <1>2 DEF Typed, RepairOK, ClickOK
<1> QED BY <1>1, <1>3, <1>4, <1>5, <1>6 DEF Typed

\* What a transaction of the deployment may do to the row.
RowStep ==
  /\ row' \in Row \cup {NoRow}
  /\ Exists(row) => Exists(row')
  /\ row.sub \in Subs => row'.sub \in Subs
  /\ row'.sub \in Subs => Known(row'.sub)

\* A transaction ends or nothing was in hand: no event is taken up, nothing
\* fetched.
LEMMA LocalTyped ==
  ASSUME Typed, UNCHANGED provider, RowStep,
         parked' \in [Subs -> Period \cup {NoPeriod}],
         bundles' \in [Subs -> Ends \cup {0, Ungranted}],
         done' \subseteq DOMAIN events,
         jobs' \in [Workers -> Job \cup {Idle}],
         \A w \in Workers : jobs'[w] # Idle =>
           jobs'[w] = jobs[w] /\ jobs[w].event \notin done',
         repair' \in {repair, Idle}, clicked' \in BOOLEAN, clicked' => clicked
  PROVE  Typed'
<1>1. UNCHANGED <<time, real, events>>
  BY DEF provider
<1>2. TypeOK'
  BY <1>1 DEF Typed, TypeOK, Busy, RowStep
<1>3. ProviderOK'
  BY <1>1 DEF Typed, ProviderOK, Known
<1>4. RowOK'
  BY <1>1 DEF RowOK, RowStep, Known
<1>5. JobsOK'
  BY <1>1 DEF Typed, JobsOK, Busy, Known, RowStep
<1>6. RepairOK'
  BY <1>1 DEF Typed, RepairOK, Known, RowStep
<1>7. ClickOK'
  BY DEF Typed, ClickOK, RowStep
<1> QED BY <1>2, <1>3, <1>4, <1>5, <1>6, <1>7 DEF Typed

\* What a worker has in hand.
LEMMA JobFields ==
  ASSUME Typed, NEW w \in Workers, Busy(w)
  PROVE  /\ jobs[w] \in Job /\ jobs[w].event \in DOMAIN events
         /\ jobs[w].event \notin done
         /\ jobs[w].seen \in Row \cup {NoRow} /\ jobs[w].adopts \in BOOLEAN
         /\ jobs[w].stash \in Period \cup {NoPeriod}
         /\ Exists(jobs[w].seen) => jobs[w].seen \in Row /\ Exists(row) /\ row \in Row
<1>1. jobs[w] \in Job
  BY DEF Typed, JobsOK, Busy
<1>2. Exists(jobs[w].seen) => Exists(row)
  BY DEF Typed, JobsOK
<1>3. row \in Row \cup {NoRow}
  BY DEF Typed, TypeOK
<1> QED BY <1>1, <1>2, <1>3, RowsExist DEF Job, Typed, TypeOK

LEMMA Committed ==
  ASSUME Typed, NEW w \in Workers, Busy(w), Commits(w), RowStep,
         parked' \in [Subs -> Period \cup {NoPeriod}],
         bundles' \in [Subs -> Ends \cup {0, Ungranted}]
  PROVE  Typed'
<1>1. /\ done' = done \cup {jobs[w].event} /\ jobs' = [jobs EXCEPT ![w] = Idle]
      /\ UNCHANGED provider /\ UNCHANGED <<repair, clicked>>
  BY DEF Commits, others
<1>2. jobs \in [Workers -> Job \cup {Idle}]
  BY DEF Typed, JobsOK
<1>3. jobs' \in [Workers -> Job \cup {Idle}]
  BY <1>1, <1>2
<1>4. ASSUME NEW v \in Workers, jobs'[v] # Idle
      PROVE  jobs'[v] = jobs[v] /\ jobs[v].event \notin done'
  <2>1. v # w /\ jobs'[v] = jobs[v]
    BY <1>1, <1>2, <1>4
  <2>2. jobs[v].event \notin done /\ jobs[v].event # jobs[w].event
    BY <2>1, <1>4 DEF Typed, TypeOK, Busy
  <2> QED BY <2>1, <2>2, <1>1
<1>5. done' \subseteq DOMAIN events
  BY <1>1, JobFields DEF Typed, TypeOK
<1> QED BY <1>1, <1>3, <1>4, <1>5, LocalTyped DEF Typed, ClickOK

\* Dating the bundles of a subscription.
LEMMA StampedTypes ==
  ASSUME NEW bs \in [Subs -> Ends \cup {0, Ungranted}], NEW s, NEW end \in Ends
  PROVE  /\ Stamped(bs, s, end) \in [Subs -> Ends \cup {0, Ungranted}]
         /\ \A t \in Subs : t # s => Stamped(bs, s, end)[t] = bs[t]
         /\ s \in Subs => Stamped(bs, s, end)[s] # 0
<1>1. end # 0
  BY Nothings
<1> QED BY <1>1 DEF Stamped

LEMMA BoundTypes ==
  ASSUME NEW r \in Row, NEW s \in Subs
  PROVE  /\ Bound(r, s) \in Row /\ Bound(r, s).sub = IF r.sub = NoSub THEN s ELSE r.sub
         /\ Bound(r, s).status = r.status /\ Bound(r, s).end = r.end
         /\ Bound(r, s).clock = r.clock
  BY DEF Bound, Row

LEMMA BeginTyped ==
  ASSUME Typed, NEW w \in Workers, Begin(w)
  PROVE  Typed'
<1>1. PICK e \in DOMAIN events \ done :
        LET s == events[e].sub
            lifecycle == events[e].kind # "checkout"
        IN  /\ ~Busy(w)
            /\ \A v \in Workers : Busy(v) => jobs[v].event # e
            /\ (lifecycle /\ Adopts(row, s)) => RowFree(w)
            /\ jobs' = [jobs EXCEPT ![w] =
                 [event |-> e,
                  seen |-> IF ~lifecycle THEN row
                           ELSE IF Resolves(row, s) THEN Bound(row, s) ELSE NoRow,
                  adopts |-> lifecycle /\ Adopts(row, s),
                  stash |-> parked[s]]]
            /\ UNCHANGED <<provider, done, local, others>>
  BY DEF Begin
<1> DEFINE s == events[e].sub
           lifecycle == events[e].kind # "checkout"
           seen == IF ~lifecycle THEN row
                   ELSE IF Resolves(row, s) THEN Bound(row, s) ELSE NoRow
           job == [event |-> e, seen |-> seen, adopts |-> lifecycle /\ Adopts(row, s),
                   stash |-> parked[s]]
<1>2. s \in Subs /\ e \in Nat /\ Known(s)
  <2>1. events \in Seq(Event) /\ e \in DOMAIN events /\ Known(events[e].sub)
    BY DEF Typed, TypeOK, ProviderOK
  <2>2. e \in 1..Len(events)
    BY <2>1
  <2> QED BY <2>1, <2>2, EventFields
<1>3. /\ seen \in Row \cup {NoRow} /\ (Exists(seen) => Exists(row))
      /\ seen.sub \in Subs => Known(seen.sub)
  <2>1. row \in Row \cup {NoRow} /\ (row.sub \in Subs => Known(row.sub))
    BY DEF Typed, TypeOK, RowOK
  <2>2. CASE seen = row
    BY <2>1, <2>2
  <2>3. CASE seen = NoRow
    BY <2>3, Nothings DEF Exists
  <2>4. CASE Resolves(row, s) /\ seen = Bound(row, s)
    <3>1. row \in Row /\ Exists(row)
      BY <2>1, <2>4, RowsExist DEF Resolves
    <3>2. seen \in Row /\ seen.sub = (IF row.sub = NoSub THEN s ELSE row.sub)
      BY <2>4, <3>1, <1>2, BoundTypes
    <3> HIDE DEF seen
    <3> QED BY <3>1, <3>2, <2>1, <1>2
  <2>5. seen = row \/ seen = NoRow \/ (Resolves(row, s) /\ seen = Bound(row, s))
    OBVIOUS
  <2> HIDE DEF seen
  <2> QED BY <2>2, <2>3, <2>4, <2>5
<1>4. parked[s] \in Period \cup {NoPeriod}
  BY <1>2 DEF Typed, TypeOK
<1>5. job \in Job
  <2> HIDE DEF seen
  <2>1. (lifecycle /\ Adopts(row, s)) \in BOOLEAN
    BY DEF Adopts, Resolves, Exists
  <2> QED BY <1>2, <1>3, <1>4, <2>1 DEF Job
<1>6. jobs' = [jobs EXCEPT ![w] = job] /\ UNCHANGED <<provider, done, local, others>>
  BY <1>1
<1>7. job.event = e /\ job.seen = seen
  OBVIOUS
<1> HIDE DEF job, seen
<1>8. /\ jobs \in [Workers -> Job \cup {Idle}] /\ jobs' \in [Workers -> Job \cup {Idle}]
      /\ jobs'[w] = job /\ \A v \in Workers : v # w => jobs'[v] = jobs[v]
  BY <1>5, <1>6 DEF Typed, JobsOK
<1>9. UNCHANGED <<time, real, events, done, row, parked, bundles, repair, clicked>>
  BY <1>6 DEF provider, local, others
<1>10. ASSUME NEW v \in Workers, jobs'[v] # Idle
       PROVE  /\ jobs'[v].event \in DOMAIN events \ done
              /\ \A u \in Workers \ {v} : jobs'[u] # Idle => jobs'[u].event # jobs'[v].event
              /\ Exists(jobs'[v].seen) => Exists(row)
              /\ jobs'[v].seen.sub \in Subs => Known(jobs'[v].seen.sub)
  <2>1. \A u \in Workers : jobs[u] # Idle => jobs[u].event # e
    BY <1>1 DEF Busy
  <2>2. CASE v = w
    BY <2>1, <2>2, <1>3, <1>7, <1>8
  <2>3. CASE v # w
    <3>1. jobs[v] # Idle /\ jobs'[v] = jobs[v]
      BY <2>3, <1>8, <1>10
    <3>2. /\ jobs[v].event \in DOMAIN events \ done
          /\ \A u \in Workers \ {v} : jobs[u] # Idle => jobs[u].event # jobs[v].event
          /\ Exists(jobs[v].seen) => Exists(row)
          /\ jobs[v].seen.sub \in Subs => Known(jobs[v].seen.sub)
      BY <3>1 DEF Typed, TypeOK, JobsOK, Busy
    <3> QED BY <2>1, <3>1, <3>2, <1>7, <1>8
  <2> QED BY <2>2, <2>3
<1>11. TypeOK' /\ JobsOK'
  BY <1>8, <1>9, <1>10 DEF Typed, TypeOK, JobsOK, Busy, Known
<1> QED BY <1>9, <1>11 DEF Typed, ProviderOK, RowOK, RepairOK, ClickOK, Known

\* The row a lifecycle event is saved on.
LEMMA SavedTypes ==
  ASSUME NEW r \in Row, NEW seen \in Row, NEW e \in Event
  PROVE  /\ Saved(r, seen, e) \in Row
         /\ Saved(r, seen, e).sub = IF r.sub = NoSub THEN seen.sub ELSE r.sub
         /\ Saved(r, seen, e).status = e.status
         /\ Saved(r, seen, e).end = IF e.end # seen.end THEN e.end ELSE r.end
         /\ Saved(r, seen, e).clock = IF e.at > seen.clock THEN e.at ELSE r.clock
<1> DEFINE sub == IF r.sub = NoSub THEN seen.sub ELSE r.sub
           end == IF e.end # seen.end THEN e.end ELSE r.end
           leaving == IF e.kind = "deleted" THEN FALSE
                      ELSE IF e.leaving # seen.leaving THEN e.leaving ELSE r.leaving
           at == IF e.at > seen.clock THEN e.at ELSE r.clock
<1>1. /\ e.status \in Status /\ e.end \in Ends /\ e.leaving \in BOOLEAN /\ e.at \in Nat
  BY DEF Event
<1>2. /\ sub \in Subs \cup {NoSub} /\ end \in Ends \cup {0} /\ leaving \in BOOLEAN
      /\ at \in Nat
  BY <1>1, RowFields
<1>3. Saved(r, seen, e) = [r EXCEPT !.sub = sub, !.status = e.status, !.end = end,
                                    !.leaving = leaving, !.clock = at]
  BY DEF Saved
<1> HIDE DEF sub, end, leaving, at
<1>4. PICK x : x = e.status
  OBVIOUS
<1>5. PICK q : q = [r EXCEPT !.sub = sub, !.status = x, !.end = end, !.leaving = leaving,
                             !.clock = at]
  OBVIOUS
<1>6. q \in Row /\ q.sub = sub /\ q.status = x /\ q.end = end /\ q.clock = at
  BY <1>1, <1>2, <1>4, <1>5 DEF Row
<1> QED BY <1>3, <1>4, <1>5, <1>6 DEF sub, end, at

LEMMA EventInHand ==
  ASSUME Typed, NEW w \in Workers, Busy(w)
  PROVE  /\ events[jobs[w].event] \in Event /\ events[jobs[w].event].sub \in Subs
         /\ Known(events[jobs[w].event].sub)
         /\ events[jobs[w].event].at \in Nat /\ events[jobs[w].event].end \in Ends
         /\ events[jobs[w].event].status \in Status
  BY JobFields, EventFields DEF Typed, TypeOK, ProviderOK

LEMMA DropStaleTyped ==
  ASSUME Typed, NEW w \in Workers, DropStale(w)
  PROVE  Typed'
<1> DEFINE e == events[jobs[w].event]
<1>1. /\ Busy(w) /\ Exists(jobs[w].seen) /\ Commits(w) /\ UNCHANGED <<parked, bundles>>
      /\ row' = IF jobs[w].adopts THEN [row EXCEPT !.sub = e.sub] ELSE row
  BY DEF DropStale
<1>2. row \in Row /\ e.sub \in Subs /\ Known(e.sub)
  BY <1>1, JobFields, EventInHand
<1> HIDE DEF e
<1>3. RowStep
  <2>1. [row EXCEPT !.sub = e.sub] \in Row /\ [row EXCEPT !.sub = e.sub].sub = e.sub
    BY <1>2 DEF Row
  <2> QED BY <1>1, <1>2, <2>1, RowsExist DEF RowStep, Typed, RowOK
<1> QED BY <1>1, <1>3, Committed DEF Typed, TypeOK

LEMMA ApplyTyped ==
  ASSUME Typed, NEW w \in Workers, Apply(w)
  PROVE  Typed'
<1> DEFINE e == events[jobs[w].event]
           seen == jobs[w].seen
<1>1. /\ Busy(w) /\ Exists(seen) /\ Commits(w) /\ UNCHANGED parked
      /\ row' = Saved(row, seen, e) /\ bundles' = Stamped(bundles, seen.sub, e.end)
  BY DEF Apply
<1>2. /\ row \in Row /\ seen \in Row /\ e \in Event /\ e.end \in Ends
      /\ seen.sub \in Subs => Known(seen.sub)
  BY <1>1, JobFields, EventInHand DEF Typed, JobsOK
<1> HIDE DEF e, seen
<1>3. RowStep
  <2>1. row' \in Row /\ row'.sub = IF row.sub = NoSub THEN seen.sub ELSE row.sub
    BY <1>1, <1>2, SavedTypes
  <2> QED BY <2>1, <1>2, RowsExist, Nothings DEF RowStep, Typed, RowOK
<1>4. bundles' \in [Subs -> Ends \cup {0, Ungranted}]
  BY <1>1, <1>2, StampedTypes DEF Typed, TypeOK
<1> QED BY <1>1, <1>3, <1>4, Committed DEF Typed, TypeOK

LEMMA ParkTyped ==
  ASSUME Typed, NEW w \in Workers, Park(w)
  PROVE  Typed'
<1> DEFINE e == events[jobs[w].event]
           p == [status |-> e.status, end |-> e.end, at |-> e.at]
<1>1. /\ Busy(w) /\ Commits(w) /\ UNCHANGED <<row, bundles>>
      /\ parked' = IF Superseded(jobs[w].stash, e) THEN parked
                   ELSE [parked EXCEPT ![e.sub] = p]
  BY DEF Park
<1>2. p \in Period
  BY <1>1, EventInHand DEF Period
<1>3. parked' \in [Subs -> Period \cup {NoPeriod}]
  BY <1>1, <1>2 DEF Typed, TypeOK
<1>4. RowStep
  BY <1>1 DEF RowStep, Typed, TypeOK, RowOK
<1> QED BY <1>1, <1>3, <1>4, Committed DEF Typed, TypeOK

\* The row of a purchase, and the parked period claimed with it.
LEMMA PurchasedTypes ==
  ASSUME NEW r \in Row \cup {NoRow}, NEW seen \in Row \cup {NoRow}, NEW e \in Event,
         Exists(seen) => Exists(r)
  PROVE  LET b == Purchased(r, seen, e)
         IN  /\ b \in Row /\ b.sub = e.sub
             /\ b.end = (IF Exists(r) THEN r ELSE FreeRow).end
             /\ IF Exists(seen) /\ Stale(seen, e.at, "active")
                  THEN b.status = r.status /\ b.clock = r.clock /\ r \in Row
                  ELSE /\ b.status = "active"
                       /\ b.clock = IF Exists(seen) THEN Latest(e.at, seen.clock) ELSE e.at
<1> DEFINE r0 == IF Exists(r) THEN r ELSE FreeRow
           at == IF Exists(seen) THEN Latest(e.at, seen.clock) ELSE e.at
<1>1. e.sub \in Subs /\ e.at \in Nat
  BY DEF Event
<1>2. r0 \in Row /\ (Exists(r) => r \in Row) /\ (Exists(seen) => seen \in Row)
  BY RowsExist, FreeRowTypes
<1>3. at \in Nat
  BY <1>1, <1>2, RowFields DEF Latest
<1>4. CASE Exists(seen) /\ Stale(seen, e.at, "active")
  <2>1. Purchased(r, seen, e) = [r EXCEPT !.sub = e.sub] /\ r \in Row /\ Exists(r)
    BY <1>2, <1>4 DEF Purchased
  <2> QED BY <2>1, <1>1, <1>4 DEF Row
<1>5. CASE ~(Exists(seen) /\ Stale(seen, e.at, "active"))
  <2>1. Purchased(r, seen, e) =
          [r0 EXCEPT !.sub = e.sub, !.status = "active", !.clock = at]
    BY <1>5 DEF Purchased
  <2> HIDE DEF r0, at
  <2>2. PICK x \in Subs : x = e.sub
    BY <1>1
  <2>3. PICK q : q = [r0 EXCEPT !.sub = x, !.status = "active", !.clock = at]
    OBVIOUS
  <2>4. q \in Row /\ q.sub = x /\ q.status = "active" /\ q.end = r0.end /\ q.clock = at
    BY <1>2, <1>3, <2>2, <2>3 DEF Row, Status
  <2> QED BY <1>5, <2>1, <2>2, <2>3, <2>4 DEF r0, at
<1> QED BY <1>4, <1>5

LEMMA ClaimedTypes ==
  ASSUME NEW b \in Row, NEW p \in Period \cup {NoPeriod}
  PROVE  LET c == Claimed(b, p)
         IN  /\ c \in Row /\ c.sub = b.sub
             /\ p = NoPeriod => c = b
             /\ p # NoPeriod =>
                  /\ c.end = p.end /\ p \in Period
                  /\ p.at < b.clock => c.status = b.status /\ c.clock = b.clock
                  /\ ~(p.at < b.clock) => c.status = p.status /\ c.clock = p.at
<1>1. CASE p = NoPeriod
  BY <1>1 DEF Claimed
<1>2. CASE p # NoPeriod
  <2>1. p \in Period /\ p.status \in Status /\ p.end \in Ends /\ p.at \in Nat
    BY <1>2 DEF Period
  <2>2. CASE p.at < b.clock
    <3>1. Claimed(b, p) = [b EXCEPT !.end = p.end]
      BY <1>2, <2>2 DEF Claimed
    <3> QED BY <1>2, <2>1, <2>2, <3>1 DEF Row
  <2>3. CASE ~(p.at < b.clock)
    <3>1. Claimed(b, p) = [b EXCEPT !.end = p.end, !.status = p.status, !.clock = p.at]
      BY <1>2, <2>3 DEF Claimed
    <3>2. PICK x \in Ends, y \in Status, z \in Nat : x = p.end /\ y = p.status /\ z = p.at
      BY <2>1
    <3>3. PICK q : q = [b EXCEPT !.end = x, !.status = y, !.clock = z]
      OBVIOUS
    <3>4. q \in Row /\ q.sub = b.sub /\ q.end = x /\ q.status = y /\ q.clock = z
      BY <3>2, <3>3 DEF Row
    <3> QED BY <1>2, <2>1, <2>3, <3>1, <3>2, <3>3, <3>4
  <2> QED BY <2>2, <2>3
<1> QED BY <1>1, <1>2

\* What a checkout writes.
CheckoutStep(w) ==
  LET e == events[jobs[w].event]
      seen == jobs[w].seen
      b == Purchased(row, seen, e)
      p == parked[e.sub]
  IN  /\ Busy(w) /\ e.kind = "checkout" /\ Commits(w)
      /\ row' = Claimed(b, p) /\ row' \in Row /\ row'.sub = e.sub /\ b \in Row
      /\ parked' = [parked EXCEPT ![e.sub] = NoPeriod]
      /\ p \in Period \cup {NoPeriod}
      /\ bundles' = [bundles EXCEPT ![e.sub] = FutureOrNone(row'.end)]

LEMMA CheckoutSteps ==
  ASSUME Typed, NEW w \in Workers, Checkout(w)
  PROVE  CheckoutStep(w) /\ Typed'
<1> DEFINE e == events[jobs[w].event]
           seen == jobs[w].seen
           b == Purchased(row, seen, e)
           p == parked[e.sub]
<1>1. /\ Busy(w) /\ e.kind = "checkout" /\ Commits(w) /\ row' = Claimed(b, p)
      /\ parked' = [parked EXCEPT ![e.sub] = NoPeriod]
      /\ bundles' = [bundles EXCEPT ![e.sub] = FutureOrNone(row'.end)]
  BY DEF Checkout
<1>2. /\ e \in Event /\ e.sub \in Subs /\ Known(e.sub)
      /\ seen \in Row \cup {NoRow} /\ (Exists(seen) => Exists(row))
      /\ row \in Row \cup {NoRow} /\ p \in Period \cup {NoPeriod}
  BY <1>1, JobFields, EventInHand DEF Typed, TypeOK
<1>3. b \in Row /\ b.sub = e.sub
  <2> HIDE DEF e, seen
  <2> QED BY <1>2, PurchasedTypes
<1>4. row' \in Row /\ row'.sub = e.sub
  <2> HIDE DEF e, seen, b, p
  <2> QED BY <1>1, <1>2, <1>3, ClaimedTypes
<1>5. CheckoutStep(w)
  BY <1>1, <1>2, <1>3, <1>4 DEF CheckoutStep
<1> HIDE DEF e, seen, b, p
<1>6. RowStep
  BY <1>2, <1>4, RowsExist DEF RowStep
<1>7. FutureOrNone(row'.end) \in Ends \cup {0}
  BY <1>4, RowFields DEF FutureOrNone
<1>8. /\ bundles' \in [Subs -> Ends \cup {0, Ungranted}]
      /\ parked' \in [Subs -> Period \cup {NoPeriod}]
  BY <1>1, <1>2, <1>7 DEF Typed, TypeOK
<1> QED BY <1>1, <1>5, <1>6, <1>8, Committed

LEMMA RollbackTyped ==
  ASSUME Typed, NEW w \in Workers, Rollback(w)
  PROVE  Typed'
<1>1. /\ jobs' = [jobs EXCEPT ![w] = Idle] /\ UNCHANGED provider
      /\ UNCHANGED <<done, row, parked, bundles, repair, clicked>>
  BY DEF Rollback, local
<1>2. jobs \in [Workers -> Job \cup {Idle}]
  BY DEF Typed, JobsOK
<1>3. /\ jobs' \in [Workers -> Job \cup {Idle}]
      /\ \A v \in Workers : jobs'[v] # Idle => jobs'[v] = jobs[v]
  BY <1>1, <1>2
<1>4. \A v \in Workers : jobs'[v] # Idle => jobs[v].event \notin done'
  BY <1>1, <1>3 DEF Typed, TypeOK, Busy
<1>5. RowStep
  BY <1>1 DEF RowStep, Typed, TypeOK, RowOK
<1> QED BY <1>1, <1>3, <1>4, <1>5, LocalTyped DEF Typed, TypeOK, ClickOK

\* Nothing of the handlers moves.
LEMMA AsideTyped ==
  ASSUME Typed, UNCHANGED provider, UNCHANGED <<done, parked, jobs>>, RowStep,
         bundles' \in [Subs -> Ends \cup {0, Ungranted}],
         repair' \in {repair, Idle}, clicked' \in BOOLEAN, clicked' => clicked
  PROVE  Typed'
<1>1. \A v \in Workers : jobs'[v] # Idle => jobs'[v] = jobs[v] /\ jobs[v].event \notin done'
  BY DEF Typed, TypeOK, Busy
<1> QED BY <1>1, LocalTyped DEF Typed, TypeOK, JobsOK

LEMMA ReadSubscriptionTyped == Typed /\ ReadSubscription => Typed'
<1> SUFFICES ASSUME Typed, ReadSubscription PROVE Typed'
  OBVIOUS
<1>1. /\ row = NoRow /\ row' = FreeRow
      /\ UNCHANGED provider /\ UNCHANGED <<done, parked, bundles, jobs, repair, clicked>>
  BY DEF ReadSubscription, Exists, others
<1>2. RowStep
  BY <1>1, FreeRowTypes, Nothings DEF RowStep, Exists
<1> QED BY <1>1, <1>2, AsideTyped DEF Typed, TypeOK, ClickOK

LEMMA ShownTypes ==
  ASSUME NEW r \in Row
  PROVE  /\ [r EXCEPT !.leaving = TRUE] \in Row
         /\ [r EXCEPT !.leaving = TRUE].sub = r.sub
         /\ [r EXCEPT !.leaving = TRUE].status = r.status
         /\ [r EXCEPT !.leaving = TRUE].end = r.end
         /\ [r EXCEPT !.leaving = TRUE].clock = r.clock
  BY DEF Row

LEMMA PaidRow == Typed /\ row.sub \in Subs => row \in Row /\ Exists(row)
  BY Nothings, RowsExist DEF Typed, TypeOK

LEMMA ShowCancelledTyped == Typed /\ ShowCancelled => Typed'
<1> SUFFICES ASSUME Typed, ShowCancelled PROVE Typed'
  OBVIOUS
<1>1. /\ clicked /\ clicked' = FALSE /\ row' = [row EXCEPT !.leaving = TRUE]
      /\ UNCHANGED provider /\ UNCHANGED <<done, parked, bundles, jobs, repair>>
  BY DEF ShowCancelled
<1>2. row \in Row
  BY <1>1, PaidRow DEF Typed, ClickOK
<1>3. row' \in Row /\ row'.sub = row.sub
  BY <1>1, <1>2, ShownTypes
<1>4. RowStep
  BY <1>3, RowsExist DEF RowStep, Typed, RowOK
<1> QED BY <1>1, <1>4, AsideTyped DEF Typed, TypeOK

LEMMA ListRowTyped == Typed /\ ListRow => Typed'
<1> SUFFICES ASSUME Typed, ListRow PROVE Typed'
  OBVIOUS
<1>1. /\ Exists(row) /\ row.sub # NoSub /\ repair' = [seen |-> row, fetched |-> Idle]
      /\ UNCHANGED <<time, real, events, done, row, parked, bundles, jobs, clicked>>
  BY DEF ListRow, provider, local
<1>2. row \in Row /\ row.sub \in Subs /\ Known(row.sub)
  BY <1>1, RowsExist, RowFields DEF Typed, TypeOK, RowOK
<1>3. RepairOK'
  BY <1>1, <1>2 DEF RepairOK, Known
<1> QED BY <1>1, <1>3 DEF Typed, TypeOK, ProviderOK, RowOK, JobsOK, ClickOK, Known, Busy

LEMMA FetchTyped == Typed /\ Fetch => Typed'
<1> SUFFICES ASSUME Typed, Fetch PROVE Typed'
  OBVIOUS
<1>1. /\ repair # Idle
      /\ repair' = [repair EXCEPT !.fetched = real[repair.seen.sub]] \/ repair' = Idle
      /\ UNCHANGED <<time, real, events, done, row, parked, bundles, jobs, clicked>>
  BY DEF Fetch, provider, local
<1>2. /\ repair \in [seen : Row, fetched : State \cup {Idle}]
      /\ repair.seen.sub \in Subs /\ Known(repair.seen.sub) /\ row.sub \in Subs
  BY <1>1 DEF Typed, RepairOK
<1>3. real[repair.seen.sub] \in State
  BY <1>2, StateFields DEF Typed
<1>4. RepairOK'
  BY <1>1, <1>2, <1>3 DEF RepairOK, Known
<1> QED BY <1>1, <1>4 DEF Typed, TypeOK, ProviderOK, RowOK, JobsOK, ClickOK, Known, Busy

LEMMA RepairedTypes ==
  ASSUME time \in Nat, NEW r \in Row, NEW seen \in Row, NEW f \in State
  PROVE  /\ Repaired(r, seen, f) \in Row /\ Repaired(r, seen, f).sub = r.sub
         /\ Repaired(r, seen, f).end = IF f.end # seen.end THEN f.end ELSE r.end
<1> DEFINE status == IF f.status # seen.status THEN f.status ELSE r.status
           end == IF f.end # seen.end THEN f.end ELSE r.end
           leaving == IF f.leaving # seen.leaving THEN f.leaving ELSE r.leaving
           at == IF time > seen.clock THEN time ELSE r.clock
<1>1. f.status \in Status /\ f.end \in Ends /\ f.leaving \in BOOLEAN
  BY DEF State
<1>2. /\ status \in Status /\ end \in Ends \cup {0} /\ leaving \in BOOLEAN
      /\ at \in Nat
  BY <1>1, RowFields
<1>3. Repaired(r, seen, f) = [r EXCEPT !.status = status, !.end = end,
                                       !.leaving = leaving, !.clock = at]
  BY DEF Repaired
<1> HIDE DEF status, end, leaving, at
<1>4. PICK q : q = [r EXCEPT !.status = status, !.end = end, !.leaving = leaving,
                             !.clock = at]
  OBVIOUS
<1>5. q \in Row /\ q.sub = r.sub /\ q.end = end
  BY <1>2, <1>4 DEF Row
<1> QED BY <1>3, <1>4, <1>5 DEF end

LEMMA SaveRepairTyped == Typed /\ SaveRepair => Typed'
<1> SUFFICES ASSUME Typed, SaveRepair PROVE Typed'
  OBVIOUS
<1> DEFINE seen == repair.seen
           f == repair.fetched
<1>1. /\ repair # Idle /\ f # Idle /\ row' = Repaired(row, seen, f) /\ repair' = Idle
      /\ bundles' = IF Drifted(seen, f) THEN Stamped(bundles, seen.sub, f.end) ELSE bundles
      /\ UNCHANGED provider /\ UNCHANGED <<done, parked, jobs, clicked>>
  BY DEF SaveRepair
<1>2. seen \in Row /\ f \in State /\ row \in Row /\ time \in Nat
  BY <1>1, PaidRow DEF Typed, RepairOK, TypeOK
<1>3. f.end \in Ends
  BY <1>2 DEF State
<1> HIDE DEF seen, f
<1>4. row' \in Row /\ row'.sub = row.sub
  BY <1>1, <1>2, RepairedTypes
<1>5. RowStep
  BY <1>4, RowsExist DEF RowStep, Typed, RowOK
<1>6. bundles' \in [Subs -> Ends \cup {0, Ungranted}]
  BY <1>1, <1>3, StampedTypes DEF Typed, TypeOK
<1> QED BY <1>1, <1>5, <1>6, AsideTyped DEF Typed, ClickOK

LEMMA ProviderActsTyped ==
  ASSUME Typed, Provider \/ \E s \in Subs : ClickCancel(s)
  PROVE  Typed'
<1>1. ProviderStep
  BY ProviderSteps
<1>2. CASE Provider
  BY <1>1, <1>2, ProviderTyped DEF Provider, others, Typed, ClickOK
<1>3. ASSUME NEW s \in Subs, ClickCancel(s)
      PROVE  Typed'
  BY <1>1, <1>3, ProviderTyped DEF ClickCancel, Paid
<1> QED BY <1>2, <1>3

\* Types keep, whichever step is taken.
LEMMA NextTyped == Typed /\ [Next]_vars => Typed'
<1> SUFFICES ASSUME Typed, [Next]_vars PROVE Typed'
  OBVIOUS
<1>1. CASE UNCHANGED vars
  <2>1. UNCHANGED <<time, real, events, done, row, parked, bundles, jobs, repair, clicked>>
    BY <1>1 DEF vars
  <2> QED BY <2>1 DEF Typed, TypeOK, ProviderOK, RowOK, JobsOK, RepairOK, ClickOK, Known, Busy
<1>2. CASE Handlers
  BY <1>2, BeginTyped, DropStaleTyped, ApplyTyped, ParkTyped, CheckoutSteps, RollbackTyped
     DEF Handlers
<1>3. CASE Reconcile
  BY <1>3, ListRowTyped, FetchTyped, SaveRepairTyped DEF Reconcile
<1> QED BY <1>1, <1>2, <1>3, ProviderActsTyped, ReadSubscriptionTyped, ShowCancelledTyped
        DEF Next

\* TypeOK: whatever the handlers, the reconciliation and the cancel button read
\* before they write, the row, the parked periods and the bundles stay what the
\* columns can hold, and no event is in two hands or in hand again once it is
\* marked (process_webhook_event, the locked StripeWebhookEvent row).
THEOREM TypesHold == Spec => []TypeOK
<1>1. Spec => []Typed
  BY InitTyped, NextTyped, PTL DEF Spec
<1>2. Typed => TypeOK
  BY DEF Typed
<1> QED BY <1>1, <1>2, PTL

-------------------------------------------------------------------------------
(***************************************************************************)
(* Bundles are dated.  Whoever moves the row's period end dates the        *)
(* bundles of the subscription the copy it worked from carries; with one   *)
(* subscription that is the row's.                                         *)
(***************************************************************************)
OneSub == \A s, t \in Subs : s = t

\* A row nobody bought yet has no period, and every copy in hand is one of a
\* subscription's row.
Copies ==
  /\ row.sub = NoSub => row.end = 0
  /\ \A w \in Workers :
       Busy(w) /\ Exists(jobs[w].seen) /\ events[jobs[w].event].kind # "checkout" =>
         jobs[w].seen.sub \in Subs

Dated == Copies /\ BundleDated

\* The row's end and the bundles' dates stay, time passes, nobody takes up an
\* event.
LEMMA QuietDated ==
  ASSUME Typed, Typed', Dated, time <= time',
         row'.sub \in Subs => row.sub \in Subs \/ row.sub = NoSub,
         row'.sub = row.sub \/ row'.sub \in Subs,
         row'.end = row.end, row.sub \in Subs => row'.sub = row.sub,
         bundles' = bundles,
         \A e \in DOMAIN events : events'[e] = events[e],
         \A w \in Workers : jobs'[w] = jobs[w] \/ jobs'[w] = Idle
  PROVE  Dated'
<1>1. time \in Nat /\ time' \in Nat /\ (row.sub \in Subs => row.end \in Nat)
  BY PaidRow, RowFields DEF Typed, TypeOK
<1>2. BundleDated'
  <2> SUFFICES ASSUME NEW s \in Subs, row'.sub = s, bundles[s] = 0
               PROVE  row'.end <= time'
    BY DEF BundleDated
  <2>1. CASE row.sub \in Subs
    <3>1. PICK a \in Nat, b \in Nat, c \in Nat : a = row.end /\ b = time /\ c = time'
      BY <1>1, <2>1
    <3>2. a <= b
      BY <2>1, <3>1 DEF Dated, BundleDated
    <3>3. b <= c /\ row'.end = a
      BY <3>1
    <3>4. a <= c
      BY <3>2, <3>3
    <3> QED BY <3>1, <3>3, <3>4
  <2>2. CASE row.sub = NoSub
    <3>1. row'.end = 0
      BY <2>2 DEF Dated, Copies
    <3> QED BY <3>1, <1>1
  <2> QED BY <2>1, <2>2
<1>3. Copies'
  <2>1. row'.sub = NoSub => row'.end = 0
    BY Nothings DEF Dated, Copies
  <2>2. ASSUME NEW w \in Workers, jobs'[w] # Idle, Exists(jobs'[w].seen),
               events'[jobs'[w].event].kind # "checkout"
        PROVE  jobs'[w].seen.sub \in Subs
    <3>1. jobs'[w] = jobs[w] /\ Busy(w)
      BY <2>2 DEF Busy
    <3>2. jobs[w].event \in DOMAIN events
      BY <3>1, JobFields
    <3> QED BY <2>2, <3>1, <3>2 DEF Dated, Copies
  <2> QED BY <2>1, <2>2 DEF Copies, Busy, Exists
<1> QED BY <1>2, <1>3 DEF Dated

\* The row is left alone, or only its id or its flag is set.
LEMMA RowAsideDated ==
  ASSUME OneSub, Typed, Dated, [Next]_vars,
         \/ UNCHANGED <<row, bundles, jobs>>
         \/ Provider \/ (Reconcile /\ ~SaveRepair)
         \/ ShowCancelled \/ \E s \in Subs : ClickCancel(s)
         \/ \E w \in Workers : DropStale(w) \/ Park(w) \/ Rollback(w)
  PROVE  Dated'
<1>0. Typed' /\ time <= time' /\ \A e \in DOMAIN events : events'[e] = events[e]
  <2>0. Typed' /\ time \in Nat
    BY NextTyped DEF Typed, TypeOK
  <2>1. CASE Provider \/ \E s \in Subs : ClickCancel(s)
    BY <2>0, <2>1, ProviderSteps, EmittedStay
  <2>2. CASE UNCHANGED <<time, events>>
    BY <2>0, <2>2
  <2>3. ASSUME NEW w \in Workers,
               Begin(w) \/ DropStale(w) \/ Apply(w) \/ Park(w) \/ Checkout(w) \/ Rollback(w)
        PROVE  UNCHANGED <<time, events>>
    BY <2>3 DEF Begin, DropStale, Apply, Park, Checkout, Rollback, Commits, provider
  <2>4. Reconcile \/ ReadSubscription \/ ShowCancelled \/ UNCHANGED vars =>
          UNCHANGED <<time, events>>
    BY DEF Reconcile, ListRow, Fetch, SaveRepair, ReadSubscription, ShowCancelled,
           provider, vars
  <2> QED BY <2>1, <2>2, <2>3, <2>4 DEF Next, Handlers
<1>1. jobs \in [Workers -> Job \cup {Idle}]
  BY DEF Typed, JobsOK
<1>2. CASE UNCHANGED <<row, bundles, jobs>>
  <2>1. row.sub \in Subs \/ row.sub = NoSub \/ row.sub = Idle
    BY RowFields DEF Typed, TypeOK, NoRow
  <2>2. BundleDated'
    <3> SUFFICES ASSUME NEW s \in Subs, row.sub = s, bundles[s] = 0
                 PROVE  row.end <= time'
      BY <1>2 DEF BundleDated
    <3>1. PICK a \in Nat, b \in Nat, c \in Nat : a = row.end /\ b = time /\ c = time'
      BY <1>0, PaidRow, RowFields DEF Typed, TypeOK
    <3>2. a <= b /\ b <= c
      BY <1>0, <3>1 DEF Dated, BundleDated
    <3>3. a <= c
      BY <3>2
    <3> QED BY <3>1, <3>3
  <2>3. Copies'
    <3> SUFFICES ASSUME NEW w \in Workers, jobs[w] # Idle, Exists(jobs[w].seen),
                        events'[jobs[w].event].kind # "checkout"
                 PROVE  jobs[w].seen.sub \in Subs
      BY <1>2 DEF Dated, Copies, Busy, Exists
    <3>1. jobs[w].event \in DOMAIN events
      BY JobFields DEF Busy
    <3> QED BY <3>1, <1>0 DEF Dated, Copies, Busy
  <2> QED BY <2>2, <2>3 DEF Dated
<1>3. CASE Provider \/ (Reconcile /\ ~SaveRepair) \/ \E s \in Subs : ClickCancel(s)
  <2>1. UNCHANGED <<row, bundles, jobs>>
    BY <1>3 DEF Provider, Reconcile, ListRow, Fetch, ClickCancel, local
  <2> QED BY <2>1, <1>2
<1>4. CASE ShowCancelled
  <2>1. /\ row \in Row /\ row' = [row EXCEPT !.leaving = TRUE]
        /\ UNCHANGED <<bundles, jobs>>
    BY <1>4, PaidRow DEF ShowCancelled, Typed, ClickOK
  <2>2. row'.sub = row.sub /\ row'.end = row.end /\ row.sub \in Subs \cup {NoSub}
    BY <2>1, ShownTypes, RowFields
  <2> QED BY <1>0, <2>1, <2>2, QuietDated
<1>5. ASSUME NEW w \in Workers, Park(w) \/ Rollback(w)
      PROVE  Dated'
  <2>1. UNCHANGED <<row, bundles>> /\ jobs' = [jobs EXCEPT ![w] = Idle]
    BY <1>5 DEF Park, Rollback, Commits, local
  <2>2. \A v \in Workers : jobs'[v] = jobs[v] \/ jobs'[v] = Idle
    BY <1>1, <2>1
  <2>3. CASE row.sub \in Subs \cup {NoSub}
    BY <1>0, <2>1, <2>2, <2>3, QuietDated
  <2>4. CASE row.sub \notin Subs \cup {NoSub}
    <3>1. BundleDated'
      BY <2>1, <2>4 DEF BundleDated
    <3>2. Copies'
      <4> SUFFICES ASSUME NEW v \in Workers, jobs'[v] # Idle, Exists(jobs'[v].seen),
                          events'[jobs'[v].event].kind # "checkout"
                   PROVE  jobs'[v].seen.sub \in Subs
        BY <2>1, <2>4 DEF Copies, Busy, Exists
      <4>1. jobs'[v] = jobs[v] /\ Busy(v)
        BY <2>2 DEF Busy
      <4>2. jobs[v].event \in DOMAIN events
        BY <4>1, JobFields
      <4> QED BY <4>1, <4>2, <1>0 DEF Dated, Copies
    <3> QED BY <3>1, <3>2 DEF Dated
  <2> QED BY <2>3, <2>4
<1>6. ASSUME NEW w \in Workers, DropStale(w)
      PROVE  Dated'
  <2> DEFINE e == events[jobs[w].event]
  <2>1. /\ Busy(w) /\ Exists(jobs[w].seen) /\ jobs' = [jobs EXCEPT ![w] = Idle]
        /\ row' = (IF jobs[w].adopts THEN [row EXCEPT !.sub = e.sub] ELSE row)
        /\ bundles' = bundles
    BY <1>6 DEF DropStale, Commits
  <2>2. row \in Row /\ e.sub \in Subs
    BY <2>1, JobFields, EventInHand
  <2> HIDE DEF e
  <2>3. row'.end = row.end /\ (row'.sub = e.sub \/ row'.sub = row.sub)
    BY <2>1, <2>2 DEF Row
  <2>4. \A v \in Workers : jobs'[v] = jobs[v] \/ jobs'[v] = Idle
    BY <1>1, <2>1
  <2>5. row.sub \in Subs \cup {NoSub} /\ (row.sub \in Subs => row'.sub = row.sub)
    BY <2>2, <2>3, RowFields DEF OneSub
  <2>6. row'.sub = row.sub \/ row'.sub \in Subs
    BY <2>2, <2>3
  <2> QED BY <1>0, <2>1, <2>3, <2>4, <2>5, <2>6, QuietDated
<1> QED BY <1>2, <1>3, <1>4, <1>5, <1>6

LEMMA BeginDated ==
  ASSUME OneSub, Typed, Dated, NEW w \in Workers, Begin(w)
  PROVE  Dated'
<1>1. PICK e \in DOMAIN events \ done :
        /\ jobs' = [jobs EXCEPT ![w] =
             [event |-> e,
              seen |-> IF events[e].kind = "checkout" THEN row
                       ELSE IF Resolves(row, events[e].sub) THEN Bound(row, events[e].sub)
                       ELSE NoRow,
              adopts |-> events[e].kind # "checkout" /\ Adopts(row, events[e].sub),
              stash |-> parked[events[e].sub]]]
        /\ UNCHANGED <<time, events, row, bundles>>
  BY DEF Begin, provider, local
<1>2. BundleDated'
  BY <1>1 DEF Dated, BundleDated
<1>3. jobs \in [Workers -> Job \cup {Idle}] /\ events \in Seq(Event)
  BY DEF Typed, JobsOK, TypeOK
<1>4. ASSUME NEW v \in Workers, jobs'[v] # Idle, Exists(jobs'[v].seen),
             events[jobs'[v].event].kind # "checkout"
      PROVE  jobs'[v].seen.sub \in Subs
  <2>1. CASE v # w
    <3>1. jobs'[v] = jobs[v]
      BY <1>1, <1>3, <2>1
    <3> QED BY <1>4, <3>1 DEF Dated, Copies, Busy
  <2>2. CASE v = w
    <3> DEFINE s == events[e].sub
    <3>1. s \in Subs
      BY <1>3, EventFields
    <3>2. /\ jobs'[w].event = e
          /\ jobs'[w].seen = IF events[e].kind = "checkout" THEN row
                             ELSE IF Resolves(row, s) THEN Bound(row, s) ELSE NoRow
      BY <1>1, <1>3
    <3>3. Resolves(row, s) /\ jobs'[w].seen = Bound(row, s)
      BY <1>4, <2>2, <3>2 DEF Exists
    <3>4. row \in Row
      BY <3>3, RowsExist DEF Resolves, Typed, TypeOK
    <3> HIDE DEF s
    <3>5. jobs'[w].seen.sub = IF row.sub = NoSub THEN s ELSE row.sub
      BY <3>1, <3>3, <3>4, BoundTypes
    <3> QED BY <2>2, <3>1, <3>4, <3>5, RowFields
  <2> QED BY <2>1, <2>2
<1>5. Copies'
  BY <1>1, <1>4 DEF Dated, Copies, Busy, Exists
<1> QED BY <1>2, <1>5 DEF Dated

\* A transaction of w ends; the copies in other hands stay what they are.
LEMMA CopiesKept ==
  ASSUME Typed, Copies, NEW w \in Workers, Commits(w), row'.sub = NoSub => row'.end = 0
  PROVE  Copies'
<1>1. jobs' = [jobs EXCEPT ![w] = Idle] /\ events' = events
  BY DEF Commits, provider
<1>2. \A v \in Workers : jobs'[v] # Idle => jobs'[v] = jobs[v]
  BY <1>1 DEF Typed, JobsOK
<1> QED BY <1>1, <1>2 DEF Copies, Busy, Exists

LEMMA ApplyDated ==
  ASSUME OneSub, Typed, Dated, NEW w \in Workers, Apply(w)
  PROVE  Dated'
<1> DEFINE e == events[jobs[w].event]
           seen == jobs[w].seen
<1>1. /\ Busy(w) /\ Exists(seen) /\ Commits(w) /\ e.kind # "checkout"
      /\ row' = Saved(row, seen, e) /\ bundles' = Stamped(bundles, seen.sub, e.end)
      /\ time' = time
  BY DEF Apply, Commits, provider
<1>2. /\ row \in Row /\ seen \in Row /\ seen.sub \in Subs
      /\ e \in Event /\ e.end \in Ends
  BY <1>1, JobFields, EventInHand DEF Dated, Copies
<1> HIDE DEF e, seen
<1>3. row'.sub = seen.sub
  <2>1. row'.sub = IF row.sub = NoSub THEN seen.sub ELSE row.sub
    BY <1>1, <1>2, SavedTypes
  <2> QED BY <2>1, <1>2, RowFields DEF OneSub
<1>4. bundles'[seen.sub] # 0
  BY <1>1, <1>2, StampedTypes DEF Typed, TypeOK
<1>5. BundleDated'
  BY <1>3, <1>4 DEF BundleDated
<1>6. Copies'
  BY <1>1, <1>2, <1>3, CopiesKept, Nothings DEF Dated
<1> QED BY <1>5, <1>6 DEF Dated

LEMMA CheckoutDated ==
  ASSUME OneSub, Typed, Dated, NEW w \in Workers, Checkout(w)
  PROVE  Dated'
<1> DEFINE e == events[jobs[w].event]
<1>1. /\ row' \in Row /\ row'.sub = e.sub /\ Busy(w) /\ Commits(w) /\ time' = time
      /\ bundles' = [bundles EXCEPT ![e.sub] = FutureOrNone(row'.end)]
  BY CheckoutSteps DEF CheckoutStep, Commits, provider
<1>2. e.sub \in Subs /\ row'.end \in Nat /\ time \in Nat
  BY <1>1, EventInHand, RowFields DEF Typed, TypeOK
<1> HIDE DEF e
<1>3. bundles'[e.sub] = FutureOrNone(row'.end)
  BY <1>1, <1>2 DEF Typed, TypeOK
<1>4. FutureOrNone(row'.end) = 0 => row'.end <= time
  BY <1>2 DEF FutureOrNone
<1>5. BundleDated'
  BY <1>1, <1>2, <1>3, <1>4 DEF BundleDated
<1>6. Copies'
  BY <1>1, <1>2, CopiesKept, Nothings DEF Dated
<1> QED BY <1>5, <1>6 DEF Dated

LEMMA SaveRepairDated ==
  ASSUME OneSub, Typed, Dated, SaveRepair
  PROVE  Dated'
<1> DEFINE seen == repair.seen
           f == repair.fetched
<1>1. /\ repair # Idle /\ f # Idle /\ row' = Repaired(row, seen, f)
      /\ bundles' = IF Drifted(seen, f) THEN Stamped(bundles, seen.sub, f.end) ELSE bundles
      /\ UNCHANGED <<time, events, jobs>>
  BY DEF SaveRepair, provider
<1>2. /\ seen \in Row /\ f \in State /\ row \in Row /\ time \in Nat
      /\ seen.sub \in Subs /\ row.sub \in Subs
  BY <1>1, PaidRow DEF Typed, RepairOK, TypeOK
<1>3. f.end \in Ends
  BY <1>2 DEF State
<1> HIDE DEF seen, f
<1>4. /\ row' \in Row /\ row'.sub = row.sub
      /\ row'.end = IF f.end # seen.end THEN f.end ELSE row.end
  BY <1>1, <1>2, RepairedTypes
<1>5. BundleDated'
  <2>1. CASE Drifted(seen, f)
    <3>1. bundles'[seen.sub] # 0
      BY <1>1, <1>2, <1>3, <2>1, StampedTypes DEF Typed, TypeOK
    <3> QED BY <1>2, <1>4, <3>1 DEF BundleDated, OneSub
  <2>2. CASE ~Drifted(seen, f)
    <3>1. f.end = seen.end
      <4>1. f = [status |-> seen.status, end |-> seen.end, leaving |-> seen.leaving]
        BY <2>2 DEF Drifted
      <4> QED BY <4>1
    <3> QED BY <1>1, <1>4, <2>2, <3>1 DEF Dated, BundleDated
  <2> QED BY <2>1, <2>2
<1>6. Copies'
  BY <1>1, <1>2, <1>4, Nothings DEF Dated, Copies, Busy, Exists
<1> QED BY <1>5, <1>6 DEF Dated

LEMMA DatedStep == OneSub /\ Typed /\ Dated /\ [Next]_vars => Dated'
<1> SUFFICES ASSUME OneSub, Typed, Dated, [Next]_vars PROVE Dated'
  OBVIOUS
<1>1. CASE UNCHANGED vars
  <2>1. UNCHANGED <<row, bundles, jobs>>
    BY <1>1 DEF vars
  <2> QED BY <2>1, RowAsideDated
<1>2. CASE Handlers
  BY <1>2, BeginDated, ApplyDated, CheckoutDated, RowAsideDated DEF Handlers
<1>3. CASE ReadSubscription
  <2>1. row' = FreeRow /\ UNCHANGED <<time, events, jobs>>
    BY <1>3 DEF ReadSubscription, provider
  <2>2. BundleDated'
    BY <2>1, FreeRowTypes, Nothings DEF BundleDated
  <2>3. Copies'
    BY <2>1, FreeRowTypes DEF Dated, Copies, Busy, Exists
  <2> QED BY <2>2, <2>3 DEF Dated
<1> QED BY <1>1, <1>2, <1>3, SaveRepairDated, RowAsideDated DEF Next, Reconcile

\* BundleDated: with one subscription, whichever handlers, purchases and
\* reconciliations overlap and in whatever order events come, a bundle granted
\* before the period was known is dated once the row knows when it ends
\* (_stamp_subscription_period).
THEOREM BundlesDated == OneSub => (Spec => []BundleDated)
<1> SUFFICES ASSUME OneSub PROVE Spec => []BundleDated
  OBVIOUS
<1>1. Init => Dated
  BY Nothings DEF Init, Dated, Copies, BundleDated, NoRow, Busy
<1>2. Typed /\ Dated /\ [Next]_vars => (Typed /\ Dated)'
  BY DatedStep, NextTyped
<1>3. Dated => BundleDated
  BY DEF Dated
<1> QED BY <1>1, <1>2, <1>3, InitTyped, PTL DEF Spec

-------------------------------------------------------------------------------
(***************************************************************************)
(* Parked periods are claimed.  With one worker, what an event found of    *)
(* the row still holds when the event is applied or parked: only the       *)
(* worker binds the row.                                                   *)
(***************************************************************************)
OneWorker == \A v, w \in Workers : v = w

\* What the event in hand found.
Found ==
  \A w \in Workers : Busy(w) /\ events[jobs[w].event].kind # "checkout" =>
    /\ ~jobs[w].adopts
    /\ IF Exists(jobs[w].seen) THEN row.sub \in Subs
       ELSE row.sub # events[jobs[w].event].sub

Claims == Found /\ ParkedIsClaimed

\* What a worker takes up: the event, the row or a copy of it, the parked period.
LEMMA BeginSteps ==
  ASSUME Typed, NEW w \in Workers, Begin(w)
  PROVE  \E e \in DOMAIN events \ done :
           LET s == events[e].sub
           IN  /\ ~Busy(w) /\ s \in Subs
               /\ jobs'[w].event = e /\ jobs'[w].stash = parked[s]
               /\ jobs'[w].seen =
                    IF events[e].kind = "checkout" THEN row
                    ELSE IF Resolves(row, s) THEN Bound(row, s) ELSE NoRow
               /\ jobs'[w].adopts <=> events[e].kind # "checkout" /\ Adopts(row, s)
               /\ \A v \in Workers : v # w => jobs'[v] = jobs[v]
               /\ UNCHANGED <<time, real, events, done, row, parked, bundles, repair, clicked>>
<1>1. PICK e \in DOMAIN events \ done :
        /\ ~Busy(w)
        /\ jobs' = [jobs EXCEPT ![w] =
             [event |-> e,
              seen |-> IF events[e].kind = "checkout" THEN row
                       ELSE IF Resolves(row, events[e].sub) THEN Bound(row, events[e].sub)
                       ELSE NoRow,
              adopts |-> events[e].kind # "checkout" /\ Adopts(row, events[e].sub),
              stash |-> parked[events[e].sub]]]
        /\ UNCHANGED <<time, real, events, done, row, parked, bundles, repair, clicked>>
  BY DEF Begin, provider, local, others
<1>2. jobs \in [Workers -> Job \cup {Idle}] /\ events[e].sub \in Subs
  BY EventFields DEF Typed, JobsOK, TypeOK
<1> QED BY <1>1, <1>2

\* Nobody else works: after a transaction nothing is in hand.
LEMMA NothingInHand ==
  ASSUME OneWorker, Typed, NEW w \in Workers, jobs' = [jobs EXCEPT ![w] = Idle]
  PROVE  \A v \in Workers : jobs'[v] = Idle
  BY DEF OneWorker, Typed, JobsOK

\* Frames of the actions that leave what is in hand alone.
LEMMA AsideSteps ==
  ASSUME Typed,
         \/ UNCHANGED vars \/ Provider \/ ShowCancelled \/ ReadSubscription \/ Reconcile
         \/ \E s \in Subs : ClickCancel(s)
  PROVE  /\ UNCHANGED <<done, parked, jobs>>
         /\ ProviderStep
         /\ \/ row' = row
            \/ row = NoRow /\ row' = FreeRow
            \/ /\ row \in Row /\ row' \in Row /\ row'.sub = row.sub
               /\ SaveRepair \/ row' = [row EXCEPT !.leaving = TRUE]
<1>1. UNCHANGED provider => ProviderStep
  BY DEF ProviderStep, provider, Typed, TypeOK
<1>2. UNCHANGED provider \/ Provider \/ \E s \in Subs : ClickCancel(s)
  BY DEF vars, provider, ShowCancelled, ReadSubscription, Reconcile, ListRow, Fetch, SaveRepair
<1>3. ProviderStep
  BY <1>1, <1>2, ProviderSteps
<1>4. CASE UNCHANGED vars \/ Provider \/ ListRow \/ Fetch \/ \E s \in Subs : ClickCancel(s)
  <2>1. UNCHANGED <<done, parked, jobs, row>>
    BY <1>4 DEF vars, Provider, ListRow, Fetch, ClickCancel, local
  <2> QED BY <1>3, <2>1
<1>5. CASE ReadSubscription
  BY <1>3, <1>5 DEF ReadSubscription, Exists
<1>6. CASE ShowCancelled
  <2>1. row \in Row
    BY <1>6, PaidRow DEF ShowCancelled, Typed, ClickOK
  <2>2. row' = [row EXCEPT !.leaving = TRUE] /\ UNCHANGED <<done, parked, jobs>>
    BY <1>6 DEF ShowCancelled
  <2>3. row' \in Row /\ row'.sub = row.sub
    BY <2>1, <2>2, ShownTypes
  <2> QED BY <1>3, <2>1, <2>2, <2>3
<1>7. CASE SaveRepair
  <2>1. /\ repair # Idle /\ row' = Repaired(row, repair.seen, repair.fetched)
        /\ repair.fetched # Idle /\ UNCHANGED <<done, parked, jobs>>
    BY <1>7 DEF SaveRepair
  <2>2. row \in Row /\ repair.seen \in Row /\ repair.fetched \in State /\ time \in Nat
    BY <2>1, PaidRow DEF Typed, RepairOK, TypeOK
  <2>3. row' \in Row /\ row'.sub = row.sub
    BY <2>1, <2>2, RepairedTypes
  <2> QED BY <1>3, <1>7, <2>1, <2>2, <2>3
<1> QED BY <1>4, <1>5, <1>6, <1>7 DEF Reconcile

LEMMA ClaimsStep == OneWorker /\ ~NamesUser /\ Typed /\ Claims /\ [Next]_vars => Claims'
<1> SUFFICES ASSUME OneWorker, ~NamesUser, Typed, Claims, [Next]_vars PROVE Claims'
  OBVIOUS
<1>1. CASE \/ UNCHANGED vars \/ Provider \/ ShowCancelled \/ ReadSubscription \/ Reconcile
           \/ \E s \in Subs : ClickCancel(s)
  <2>1. /\ UNCHANGED <<parked, jobs>>
        /\ row'.sub = row.sub \/ (row = NoRow /\ row' = FreeRow)
        /\ \A e \in DOMAIN events : events'[e] = events[e]
    BY <1>1, AsideSteps, EmittedStay
  <2>2. ParkedIsClaimed'
    BY <2>1, FreeRowTypes, Nothings DEF Claims, ParkedIsClaimed
  <2>3. Found'
    <3> SUFFICES ASSUME NEW w \in Workers, Busy(w), events'[jobs[w].event].kind # "checkout"
                 PROVE  /\ ~jobs[w].adopts
                        /\ IF Exists(jobs[w].seen) THEN row'.sub \in Subs
                           ELSE row'.sub # events'[jobs[w].event].sub
      BY <2>1 DEF Found, Busy, Exists
    <3>1. /\ events'[jobs[w].event] = events[jobs[w].event]
          /\ events[jobs[w].event].sub \in Subs
      BY <2>1, JobFields, EventInHand
    <3>2. /\ ~jobs[w].adopts
          /\ IF Exists(jobs[w].seen) THEN row.sub \in Subs
             ELSE row.sub # events[jobs[w].event].sub
      BY <3>1 DEF Claims, Found
    <3> QED BY <2>1, <3>1, <3>2, FreeRowTypes, Nothings
  <2> QED BY <2>2, <2>3 DEF Claims
<1>2. ASSUME NEW w \in Workers, Begin(w)
      PROVE  Claims'
  <2>1. PICK e \in DOMAIN events \ done :
          /\ ~Busy(w) /\ events[e].sub \in Subs /\ jobs'[w].event = e
          /\ jobs'[w].seen =
               IF events[e].kind = "checkout" THEN row
               ELSE IF Resolves(row, events[e].sub) THEN Bound(row, events[e].sub) ELSE NoRow
          /\ jobs'[w].adopts <=> events[e].kind # "checkout" /\ Adopts(row, events[e].sub)
          /\ UNCHANGED <<events, row, parked>>
    BY <1>2, BeginSteps
  <2>2. ParkedIsClaimed'
    BY <2>1 DEF Claims, ParkedIsClaimed
  <2>3. Found'
    <3> SUFFICES ASSUME jobs'[w] # Idle, events[e].kind # "checkout"
                 PROVE  /\ ~jobs'[w].adopts
                        /\ IF Exists(jobs'[w].seen) THEN row.sub \in Subs
                           ELSE row.sub # events[e].sub
      BY <2>1 DEF Found, Busy, Exists, OneWorker
    <3> DEFINE s == events[e].sub
    <3>1. CASE Resolves(row, s)
      <4>1. row \in Row /\ row.sub # NoSub
        BY <2>1, <3>1, RowsExist, Nothings DEF Resolves, Typed, TypeOK
      <4>2. row.sub \in Subs
        BY <4>1, RowFields
      <4>3. ~jobs'[w].adopts /\ jobs'[w].seen = Bound(row, s)
        BY <2>1, <3>1, <4>1 DEF Adopts
      <4>4. Exists(jobs'[w].seen)
        BY <2>1, <4>1, <4>3, BoundTypes, RowsExist
      <4> QED BY <4>2, <4>3, <4>4
    <3>2. CASE ~Resolves(row, s)
      <4>1. jobs'[w].seen = NoRow /\ ~jobs'[w].adopts
        BY <2>1, <3>2 DEF Adopts
      <4>2. row.sub # s
        BY <2>1, <3>2, Nothings DEF Resolves, Exists
      <4> QED BY <4>1, <4>2 DEF Exists
    <3> QED BY <3>1, <3>2
  <2> QED BY <2>2, <2>3 DEF Claims
<1>3. ASSUME NEW w \in Workers, jobs' = [jobs EXCEPT ![w] = Idle]
      PROVE  Found'
  BY <1>3, NothingInHand DEF Found, Busy
<1>4. ASSUME NEW w \in Workers, Rollback(w)
      PROVE  Claims'
  BY <1>3, <1>4 DEF Rollback, local, Claims, ParkedIsClaimed
<1>5. ASSUME NEW w \in Workers, DropStale(w) \/ Apply(w)
      PROVE  Claims'
  <2> DEFINE e == events[jobs[w].event]
             seen == jobs[w].seen
  <2>1. /\ Busy(w) /\ Exists(seen) /\ e.kind # "checkout" /\ Commits(w) /\ parked' = parked
        /\ \/ row' = IF jobs[w].adopts THEN [row EXCEPT !.sub = e.sub] ELSE row
           \/ row' = Saved(row, seen, e)
    BY <1>5 DEF DropStale, Apply
  <2>2. ~jobs[w].adopts /\ row.sub \in Subs
    BY <2>1 DEF Claims, Found
  <2>3. row \in Row /\ seen \in Row /\ e \in Event
    BY <2>1, JobFields, EventInHand
  <2> HIDE DEF e, seen
  <2>4. row'.sub = row.sub
    <3>1. row.sub # NoSub
      BY <2>2, Nothings
    <3>2. CASE row' = Saved(row, seen, e)
      BY <2>3, <3>1, <3>2, SavedTypes
    <3> QED BY <2>1, <2>2, <3>2
  <2> QED BY <1>3, <2>1, <2>4 DEF Commits, Claims, ParkedIsClaimed
<1>6. ASSUME NEW w \in Workers, Park(w)
      PROVE  Claims'
  <2> DEFINE e == events[jobs[w].event]
             p == [status |-> e.status, end |-> e.end, at |-> e.at]
  <2>1. /\ Busy(w) /\ ~Exists(jobs[w].seen) /\ e.kind # "checkout" /\ Commits(w)
        /\ row' = row
        /\ parked' = IF Superseded(jobs[w].stash, e) THEN parked
                     ELSE [parked EXCEPT ![e.sub] = p]
    BY <1>6 DEF Park
  <2>2. row.sub # e.sub
    BY <2>1 DEF Claims, Found
  <2> HIDE DEF e, p
  <2>3. \A s \in Subs : s # e.sub => parked'[s] = parked[s]
    BY <2>1 DEF Typed, TypeOK
  <2>4. ParkedIsClaimed'
    BY <2>1, <2>2, <2>3 DEF Claims, ParkedIsClaimed
  <2> QED BY <1>3, <2>1, <2>4 DEF Commits, Claims
<1>7. ASSUME NEW w \in Workers, Checkout(w)
      PROVE  Claims'
  <2> DEFINE e == events[jobs[w].event]
  <2>1. /\ Commits(w) /\ row'.sub = e.sub /\ parked' = [parked EXCEPT ![e.sub] = NoPeriod]
    BY <1>7, CheckoutSteps DEF CheckoutStep
  <2> HIDE DEF e
  <2>2. ParkedIsClaimed'
    BY <2>1 DEF ParkedIsClaimed, Typed, TypeOK
  <2> QED BY <1>3, <2>1, <2>2 DEF Commits, Claims
<1> QED BY <1>1, <1>2, <1>4, <1>5, <1>6, <1>7 DEF Next, Handlers

\* ParkedIsClaimed: with one worker and no user named in the metadata, however
\* many subscriptions, changes of one second, purchases and reconciliations
\* there are, no period stays parked under the id the row carries
\* (_stash_subscription_period, _apply_pending_period).
THEOREM ParkedClaimed == OneWorker /\ ~NamesUser => (Spec => []ParkedIsClaimed)
<1> SUFFICES ASSUME OneWorker, ~NamesUser PROVE Spec => []ParkedIsClaimed
  OBVIOUS
<1>1. Init => Claims
  BY Nothings DEF Init, Claims, Found, ParkedIsClaimed, Busy
<1>2. Typed /\ Claims /\ [Next]_vars => (Typed /\ Claims)'
  BY ClaimsStep, NextTyped
<1>3. Claims => ParkedIsClaimed
  BY DEF Claims
<1> QED BY <1>1, <1>2, <1>3, InitTyped, PTL DEF Spec

-------------------------------------------------------------------------------
(***************************************************************************)
(* The newest word.  One worker handles the events of one subscription,    *)
(* nothing reconciles: what the worker read is what the row still holds,   *)
(* and the row, or the parked period while there is no row, carries the    *)
(* newest of the events handled so far.                                    *)
(***************************************************************************)
Alone == OneSub /\ OneWorker /\ ~NamesUser /\ MaxRepairs = 0

\* Two copies of the row that differ at most in the cancel flag.
Same(a, b) ==
  a.sub = b.sub /\ a.status = b.status /\ a.end = b.end /\ a.clock = b.clock

\* What the worker read is what is there.
InHand ==
  \A w \in Workers : Busy(w) =>
    /\ jobs[w].stash = parked[events[jobs[w].event].sub]
    /\ IF Exists(jobs[w].seen) THEN Same(jobs[w].seen, row) ELSE row.sub \notin Subs

\* The newest handled event has this instant, and one of that instant said this.
RowNewest ==
  /\ \A i \in done : events[i].at <= row.clock
  /\ \E i \in done : events[i].at = row.clock /\ Says(events[i]) = row.status

\* Until a row carries the id, the newest payload handled is the parked period.
ParkedNewest(s) ==
  IF parked[s] = NoPeriod THEN done = {}
  ELSE /\ \A i \in done : events[i].at <= parked[s].at
       /\ \E i \in done : /\ events[i].at = parked[s].at /\ events[i].kind # "checkout"
                          /\ events[i].status = parked[s].status
                          /\ events[i].end = parked[s].end

Newest == IF row.sub \in Subs THEN RowNewest ELSE \A s \in Subs : ParkedNewest(s)

Word ==
  /\ repair = Idle /\ repairs = 0
  /\ row.sub = NoSub => row.clock = 0
  /\ InHand /\ Newest

\* The five ways an event is handled: what was in hand is spelt out as what is
\* in the row and parked.
Dropped(e) ==
  /\ row.sub \in Subs /\ e.kind # "checkout" /\ Stale(row, e.at, e.status)
  /\ UNCHANGED <<row, parked>>

Applied(e) ==
  /\ row.sub \in Subs /\ e.kind # "checkout" /\ ~Stale(row, e.at, e.status)
  /\ row'.sub = row.sub /\ row'.status = e.status /\ row'.end = e.end
  /\ row'.clock = Latest(e.at, row.clock) /\ parked' = parked

Shelved(e) ==
  /\ row.sub \notin Subs /\ e.kind # "checkout" /\ row' = row
  /\ parked' = IF Superseded(parked[e.sub], e) THEN parked
               ELSE [parked EXCEPT ![e.sub] =
                       [status |-> e.status, end |-> e.end, at |-> e.at]]

BoughtFirst(e) ==
  LET p == parked[e.sub]
  IN  /\ row.sub \notin Subs /\ e.kind = "checkout" /\ row'.sub \in Subs
      /\ IF p = NoPeriod THEN row'.status = "active" /\ row'.clock = e.at
         ELSE /\ row'.end = p.end /\ p \in Period
              /\ IF p.at < e.at THEN row'.status = "active" /\ row'.clock = e.at
                 ELSE row'.status = p.status /\ row'.clock = p.at

BoughtAgain(e) ==
  /\ row.sub \in Subs /\ e.kind = "checkout" /\ row'.sub \in Subs /\ row'.end = row.end
  /\ IF Stale(row, e.at, "active")
       THEN row'.status = row.status /\ row'.clock = row.clock
       ELSE row'.status = "active" /\ row'.clock = Latest(e.at, row.clock)

HandledBy(i) ==
  /\ i \in DOMAIN events \ done /\ done' = done \cup {i}
  /\ UNCHANGED <<time, real, events, repair, repairs>>
  /\ \A w \in Workers : jobs'[w] = Idle
  /\ \/ Dropped(events[i]) \/ Applied(events[i]) \/ Shelved(events[i])
     \/ BoughtFirst(events[i]) \/ BoughtAgain(events[i])

LEMMA LifecycleHandled ==
  ASSUME Alone, Typed, Claims, Word, NEW w \in Workers,
         DropStale(w) \/ Apply(w) \/ Park(w)
  PROVE  HandledBy(jobs[w].event)
<1> DEFINE i == jobs[w].event
           e == events[i]
           seen == jobs[w].seen
<1>1. /\ Busy(w) /\ e.kind # "checkout" /\ Commits(w)
      /\ i \in DOMAIN events \ done /\ e \in Event /\ seen \in Row \cup {NoRow}
  BY JobFields, EventInHand DEF DropStale, Apply, Park
<1>2. /\ done' = done \cup {i} /\ UNCHANGED <<time, real, events, repair, repairs>>
      /\ \A v \in Workers : jobs'[v] = Idle
  BY <1>1, NothingInHand DEF Commits, provider, others, Alone
<1>3. /\ ~jobs[w].adopts /\ jobs[w].stash = parked[e.sub]
      /\ IF Exists(seen) THEN row.sub \in Subs /\ Same(seen, row) ELSE row.sub \notin Subs
  BY <1>1 DEF Claims, Found, Word, InHand
<1>4. CASE DropStale(w) \/ Apply(w)
  <2>1. /\ Exists(seen) /\ row \in Row /\ seen \in Row /\ parked' = parked
        /\ \/ Stale(seen, e.at, e.status) /\ row' = row
           \/ ~Stale(seen, e.at, e.status) /\ row' = Saved(row, seen, e)
    BY <1>1, <1>3, <1>4, JobFields DEF DropStale, Apply
  <2> HIDE DEF e, i, seen
  <2>2. Stale(row, e.at, e.status) <=> Stale(seen, e.at, e.status)
    BY <1>3, <2>1 DEF Same, Stale
  <2>3. CASE row' = Saved(row, seen, e) /\ ~Stale(seen, e.at, e.status)
    <3>1. /\ row'.sub = IF row.sub = NoSub THEN seen.sub ELSE row.sub
          /\ row'.status = e.status
          /\ row'.end = IF e.end # seen.end THEN e.end ELSE row.end
          /\ row'.clock = IF e.at > seen.clock THEN e.at ELSE row.clock
      BY <1>1, <2>1, <2>3, SavedTypes
    <3>2. seen.sub = row.sub /\ seen.end = row.end /\ seen.clock = row.clock
      BY <1>3, <2>1 DEF Same
    <3>3. e.at \in Nat /\ row.clock \in Nat
      BY <1>1, <2>1, RowFields DEF Event
    <3>4. row'.sub = row.sub /\ row'.end = e.end /\ row'.clock = Latest(e.at, row.clock)
      BY <3>1, <3>2, <3>3 DEF Latest
    <3>5. Applied(e)
      BY <1>1, <1>3, <2>1, <2>2, <2>3, <3>1, <3>4 DEF Applied
    <3> QED BY <1>1, <1>2, <3>5 DEF HandledBy, e, i
  <2>4. CASE row' = row /\ Stale(seen, e.at, e.status)
    <3>1. Dropped(e)
      BY <1>1, <1>3, <2>1, <2>2, <2>4 DEF Dropped
    <3> QED BY <1>1, <1>2, <3>1 DEF HandledBy, e, i
  <2> QED BY <2>1, <2>3, <2>4
<1>5. CASE Park(w)
  <2>1. /\ ~Exists(seen) /\ row' = row
        /\ parked' = IF Superseded(jobs[w].stash, e) THEN parked
                     ELSE [parked EXCEPT ![e.sub] =
                             [status |-> e.status, end |-> e.end, at |-> e.at]]
    BY <1>5 DEF Park
  <2> HIDE DEF e, i, seen
  <2>2. Shelved(e)
    BY <1>1, <1>3, <2>1 DEF Shelved
  <2> QED BY <1>1, <1>2, <2>2 DEF HandledBy, e, i
<1> QED BY <1>4, <1>5

LEMMA CheckoutHandled ==
  ASSUME Alone, Typed, Claims, Word, NEW w \in Workers, Checkout(w)
  PROVE  HandledBy(jobs[w].event)
<1> DEFINE i == jobs[w].event
           e == events[i]
           seen == jobs[w].seen
           b == Purchased(row, seen, e)
           p == parked[e.sub]
<1>1. /\ Busy(w) /\ e.kind = "checkout" /\ Commits(w) /\ b \in Row
      /\ row' = Claimed(b, p) /\ row' \in Row /\ row'.sub = e.sub
      /\ p \in Period \cup {NoPeriod}
  BY CheckoutSteps DEF CheckoutStep
<1>2. /\ i \in DOMAIN events \ done /\ e \in Event /\ seen \in Row \cup {NoRow}
      /\ e.sub \in Subs /\ e.at \in Nat /\ row \in Row \cup {NoRow}
      /\ (Exists(seen) => seen \in Row /\ row \in Row /\ Exists(row))
  BY <1>1, JobFields, EventInHand DEF Typed, TypeOK
<1>3. /\ done' = done \cup {i} /\ UNCHANGED <<time, real, events, repair, repairs>>
      /\ \A v \in Workers : jobs'[v] = Idle
  BY <1>1, NothingInHand DEF Commits, provider, others, Alone
<1>4. IF Exists(seen) THEN Same(seen, row) ELSE row.sub \notin Subs
  BY <1>1 DEF Word, InHand
<1> HIDE DEF e, i, seen
<1>5. /\ b.end = (IF Exists(row) THEN row ELSE FreeRow).end
      /\ IF Exists(seen) /\ Stale(seen, e.at, "active")
           THEN b.status = row.status /\ b.clock = row.clock
           ELSE /\ b.status = "active"
                /\ b.clock = IF Exists(seen) THEN Latest(e.at, seen.clock) ELSE e.at
  BY <1>2, PurchasedTypes
<1> HIDE DEF b, p
<1>6. /\ p = NoPeriod => row' = b
      /\ p # NoPeriod =>
           /\ row'.end = p.end /\ p \in Period
           /\ p.at < b.clock => row'.status = b.status /\ row'.clock = b.clock
           /\ ~(p.at < b.clock) => row'.status = p.status /\ row'.clock = p.at
  BY <1>1, ClaimedTypes
<1>7. CASE row.sub \in Subs
  <2>1. p = NoPeriod
    BY <1>2, <1>7 DEF Claims, ParkedIsClaimed, Alone, OneSub, p
  <2>2. Exists(seen) /\ Same(seen, row) /\ Exists(row)
    BY <1>2, <1>4, <1>7
  <2>3. Stale(row, e.at, "active") <=> Stale(seen, e.at, "active")
    BY <2>2 DEF Same, Stale
  <2>4. BoughtAgain(e)
    BY <1>1, <1>2, <1>5, <1>6, <1>7, <2>1, <2>2, <2>3 DEF BoughtAgain, Same
  <2> QED BY <1>2, <1>3, <2>4 DEF HandledBy, e, i
<1>8. CASE row.sub \notin Subs
  <2>1. Exists(seen) => row.sub = NoSub
    BY <1>2, <1>8, RowFields
  <2>2. Exists(seen) => seen.clock = 0
    BY <1>4, <2>1 DEF Same, Word
  <2>3. b.status = "active" /\ b.clock = e.at
    BY <1>2, <1>5, <2>2 DEF Stale, Latest
  <2>4. BoughtFirst(e)
    BY <1>1, <1>2, <1>6, <1>8, <2>3 DEF BoughtFirst, p
  <2> QED BY <1>2, <1>3, <2>4 DEF HandledBy, e, i
<1> QED BY <1>7, <1>8

\* A step that handles no event changes nothing of the row but the flag, and at
\* most adds events.
QuietStep ==
  /\ UNCHANGED <<done, parked>> /\ ProviderStep
  /\ Same(row', row) \/ (row = NoRow /\ row' = FreeRow)

LEMMA QuietRow ==
  ASSUME Typed, repair = Idle,
         \/ UNCHANGED vars \/ Provider \/ ShowCancelled \/ ReadSubscription \/ Reconcile
         \/ \E s \in Subs : ClickCancel(s)
  PROVE  QuietStep /\ jobs' = jobs
<1>1. ~SaveRepair
  BY DEF SaveRepair
<1>2. /\ UNCHANGED <<done, parked, jobs>> /\ ProviderStep
      /\ \/ row' = row
         \/ row = NoRow /\ row' = FreeRow
         \/ row \in Row /\ row' = [row EXCEPT !.leaving = TRUE]
  BY <1>1, AsideSteps
<1>3. ASSUME row \in Row, row' = [row EXCEPT !.leaving = TRUE]
      PROVE  Same(row', row)
  BY <1>3, ShownTypes DEF Same
<1> QED BY <1>2, <1>3 DEF QuietStep, Same

\* Taking an event up or giving it back is such a step too.
LEMMA TakenOrGivenBack ==
  ASSUME Typed, NEW w \in Workers, Begin(w) \/ Rollback(w)
  PROVE  QuietStep /\ row' = row /\ repair' = repair /\ repairs' = repairs
<1>1. UNCHANGED <<provider, done, local, repair, repairs>>
  BY DEF Begin, Rollback, others
<1>2. ProviderStep
  BY <1>1 DEF provider, ProviderStep, Typed, TypeOK
<1> QED BY <1>1, <1>2 DEF QuietStep, Same, local

\* No reconciliation starts.
LEMMA NoRepair ==
  ASSUME Alone, Word, [Next]_vars
  PROVE  repair' = Idle /\ repairs' = 0
<1>1. ~ListRow /\ ~Fetch /\ ~SaveRepair
  BY DEF ListRow, Fetch, SaveRepair, Word, Alone
<1>2. UNCHANGED <<repair, repairs>>
  <2>1. CASE UNCHANGED vars \/ Provider \/ ReadSubscription \/ ShowCancelled
    BY <2>1 DEF vars, Provider, ReadSubscription, ShowCancelled, others
  <2>2. ASSUME NEW s \in Subs, ClickCancel(s)
        PROVE  UNCHANGED <<repair, repairs>>
    BY <2>2 DEF ClickCancel
  <2>3. ASSUME NEW w \in Workers,
               Begin(w) \/ DropStale(w) \/ Apply(w) \/ Park(w) \/ Checkout(w) \/ Rollback(w)
        PROVE  UNCHANGED <<repair, repairs>>
    BY <2>3 DEF Begin, DropStale, Apply, Park, Checkout, Rollback, Commits, others
  <2> QED BY <1>1, <2>1, <2>2, <2>3 DEF Next, Handlers, Reconcile
<1> QED BY <1>2 DEF Word

\* The next-state relation, sorted by what it does to the handled events.
LEMMA StepSorts ==
  ASSUME Alone, Typed, Claims, Word, [Next]_vars
  PROVE  \/ QuietStep /\ jobs' = jobs
         \/ \E w \in Workers : QuietStep /\ (Begin(w) \/ Rollback(w))
         \/ \E i \in DOMAIN events : HandledBy(i)
<1>1. CASE \/ UNCHANGED vars \/ Provider \/ ShowCancelled \/ ReadSubscription \/ Reconcile
           \/ \E s \in Subs : ClickCancel(s)
  BY <1>1, QuietRow DEF Word
<1>2. ASSUME NEW w \in Workers, Begin(w) \/ Rollback(w)
      PROVE  QuietStep
  BY <1>2, TakenOrGivenBack
<1>3. ASSUME NEW w \in Workers, DropStale(w) \/ Apply(w) \/ Park(w) \/ Checkout(w)
      PROVE  \E i \in DOMAIN events : HandledBy(i)
  <2>1. HandledBy(jobs[w].event)
    BY <1>3, LifecycleHandled, CheckoutHandled
  <2> QED BY <2>1 DEF HandledBy
<1> QED BY <1>1, <1>2, <1>3 DEF Next, Handlers

\* The newest word across a step that handles nothing.
LEMMA QuietNewest ==
  ASSUME Typed, Word, QuietStep
  PROVE  /\ row'.sub = NoSub => row'.clock = 0
         /\ Newest' /\ (row'.sub \in Subs <=> row.sub \in Subs)
<1>1. /\ done' = done /\ parked' = parked
      /\ \A i \in done : events'[i] = events[i]
  BY EmittedStay DEF QuietStep, Typed, TypeOK
<1>2. CASE Same(row', row) /\ row.sub \in Subs
  <2>1. RowNewest'
    BY <1>1, <1>2 DEF Word, Newest, RowNewest, Same, Says
  <2> QED BY <1>2, <2>1 DEF Newest, Same, Word
<1>3. ASSUME row.sub \notin Subs, row'.sub \notin Subs
      PROVE  Newest'
  BY <1>1, <1>3 DEF Word, Newest, ParkedNewest
<1>4. CASE Same(row', row) /\ row.sub \notin Subs
  BY <1>3, <1>4 DEF Same, Word
<1>5. CASE row = NoRow /\ row' = FreeRow
  BY <1>3, <1>5, Nothings, FreeRowTypes
<1> QED BY <1>2, <1>4, <1>5 DEF QuietStep

\* What an event says of itself.
LEMMA Sayings ==
  ASSUME Typed
  PROVE  \A i \in DOMAIN events :
           /\ events[i] \in Event /\ events[i].at \in Nat /\ events[i].sub \in Subs
           /\ events[i].status \in Status
           /\ events[i].kind = "checkout" => Says(events[i]) = "active"
           /\ events[i].kind # "checkout" => Says(events[i]) = events[i].status
  BY EventFields DEF Says, Typed, TypeOK

\* A period is not the absence of one.
LEMMA PeriodsExist == \A p \in Period : p # NoPeriod
<1> SUFFICES ASSUME NEW p \in Period PROVE p # NoPeriod
  OBVIOUS
<1>1. "status" \in DOMAIN p
  BY DEF Period
<1>2. DOMAIN NoPeriod = {"at"}
  BY DEF NoPeriod
<1> QED BY <1>1, <1>2

\* An event that is not stale moves the clock to its own stamp.
LEMMA Moves ==
  ASSUME NEW r \in Row, NEW at \in Nat, NEW status, ~Stale(r, at, status)
  PROVE  Latest(at, r.clock) = at /\ r.clock <= at
  BY RowFields DEF Stale, Latest

\* The newest word across a handled event.
LEMMA HandledNewest ==
  ASSUME Alone, Typed, Word, NEW i \in DOMAIN events, HandledBy(i)
  PROVE  /\ row'.sub = NoSub => row'.clock = 0
         /\ Newest'
<1> DEFINE e == events[i]
<1>1. /\ done' = done \cup {i} /\ events' = events /\ done \subseteq DOMAIN events
      /\ e \in Event /\ e.at \in Nat /\ e.sub \in Subs /\ e.status \in Status
      /\ e.kind = "checkout" => Says(e) = "active"
      /\ e.kind # "checkout" => Says(e) = e.status
  BY Sayings DEF HandledBy, Typed, TypeOK
<1>2. \A j \in done : events[j].at \in Nat
  BY <1>1, Sayings
<1>3. row.sub \in Subs => row \in Row /\ row.clock \in Nat
  BY PaidRow, RowFields
<1>4. CASE Dropped(e)
  <2>1. row' = row /\ row.sub \in Subs /\ e.at <= row.clock
    BY <1>1, <1>3, <1>4 DEF Dropped, Stale
  <2>2. RowNewest'
    BY <1>1, <2>1 DEF RowNewest, Word, Newest
  <2> QED BY <2>1, <2>2, Nothings DEF Newest
<1>5. CASE Applied(e)
  <2>1. /\ row.sub \in Subs /\ row'.sub \in Subs /\ row'.status = Says(e)
        /\ row'.clock = e.at /\ row.clock <= e.at
    BY <1>1, <1>3, <1>5, Moves DEF Applied
  <2>2. \A j \in done : events[j].at <= e.at
    BY <1>1, <1>2, <1>3, <2>1 DEF RowNewest, Word, Newest
  <2>3. RowNewest'
    BY <1>1, <2>1, <2>2 DEF RowNewest
  <2> QED BY <2>1, <2>3, Nothings DEF Newest
<1>6. CASE BoughtAgain(e)
  <2>1. row.sub \in Subs /\ row'.sub \in Subs /\ Says(e) = "active"
    BY <1>1, <1>6 DEF BoughtAgain
  <2>2. CASE Stale(row, e.at, "active")
    <3>1. e.at <= row.clock
      BY <1>1, <1>3, <2>1, <2>2 DEF Stale
    <3>2. row'.status = row.status /\ row'.clock = row.clock
      BY <1>6, <2>2 DEF BoughtAgain
    <3>3. RowNewest'
      BY <1>1, <2>1, <3>1, <3>2 DEF RowNewest, Word, Newest
    <3> QED BY <2>1, <3>3, Nothings DEF Newest
  <2>3. CASE ~Stale(row, e.at, "active")
    <3>1. row'.status = "active" /\ row'.clock = e.at /\ row.clock <= e.at
      BY <1>1, <1>3, <1>6, <2>1, <2>3, Moves DEF BoughtAgain
    <3>2. \A j \in done : events[j].at <= e.at
      BY <1>1, <1>2, <1>3, <2>1, <3>1 DEF RowNewest, Word, Newest
    <3>3. RowNewest'
      BY <1>1, <2>1, <3>1, <3>2 DEF RowNewest
    <3> QED BY <2>1, <3>3, Nothings DEF Newest
  <2> QED BY <2>2, <2>3
<1>7. CASE Shelved(e)
  <2> DEFINE p == parked[e.sub]
             q == [status |-> e.status, end |-> e.end, at |-> e.at]
  <2>1. /\ row.sub \notin Subs /\ row' = row /\ e.kind # "checkout"
        /\ parked' = IF Superseded(p, e) THEN parked ELSE [parked EXCEPT ![e.sub] = q]
        /\ parked \in [Subs -> Period \cup {NoPeriod}]
    BY <1>7 DEF Shelved, Typed, TypeOK
  <2>2. ParkedNewest(e.sub) /\ \A s \in Subs : s = e.sub
    BY <1>1, <2>1 DEF Word, Newest, Alone, OneSub
  <2>3. q \in Period /\ q # NoPeriod /\ q.at = e.at /\ q.status = e.status /\ q.end = e.end
    <3>1. e.end \in Ends
      BY <1>1 DEF Event
    <3>2. q \in Period
      BY <1>1, <3>1 DEF Period
    <3> QED BY <3>2, PeriodsExist
  <2> HIDE DEF q
  <2>4. CASE Superseded(p, e)
    <3>1. parked' = parked /\ p # NoPeriod /\ e.at < p.at
      BY <2>1, <2>4 DEF Superseded
    <3>2. p \in Period /\ p.at \in Nat
      BY <1>1, <2>1, <3>1 DEF Period
    <3>3. ASSUME NEW s \in Subs
          PROVE  ParkedNewest(s)'
      BY <1>1, <2>2, <3>1, <3>2 DEF ParkedNewest
    <3> QED BY <2>1, <3>3 DEF Word, Newest
  <2>5. CASE ~Superseded(p, e)
    <3>1. parked'[e.sub] = q
      BY <1>1, <2>1, <2>5
    <3>2. \A j \in done : events[j].at <= e.at
      <4>1. CASE p = NoPeriod
        BY <2>2, <4>1 DEF ParkedNewest
      <4>2. CASE p # NoPeriod
        <5>1. p.at \in Nat /\ p.at <= e.at
          BY <1>1, <2>1, <2>5, <4>2 DEF Superseded, Period
        <5> QED BY <1>1, <1>2, <2>2, <4>2, <5>1 DEF ParkedNewest
      <4> QED BY <4>1, <4>2
    <3>3. /\ \A j \in done' : events'[j].at <= parked'[e.sub].at
          /\ \E j \in done' : /\ events'[j].at = parked'[e.sub].at
                              /\ events'[j].kind # "checkout"
                              /\ events'[j].status = parked'[e.sub].status
                              /\ events'[j].end = parked'[e.sub].end
      BY <1>1, <2>1, <2>3, <3>1, <3>2
    <3>4. ASSUME NEW s \in Subs
          PROVE  ParkedNewest(s)'
      BY <1>1, <2>2, <2>3, <3>1, <3>3 DEF ParkedNewest
    <3> QED BY <2>1, <3>4 DEF Word, Newest
  <2> QED BY <2>4, <2>5
<1>8. CASE BoughtFirst(e)
  <2> DEFINE p == parked[e.sub]
  <2>1. /\ row.sub \notin Subs /\ row'.sub \in Subs /\ Says(e) = "active"
    BY <1>1, <1>8 DEF BoughtFirst
  <2>2. ParkedNewest(e.sub)
    BY <1>1, <2>1 DEF Word, Newest
  <2>3. CASE p = NoPeriod
    <3>1. done = {} /\ row'.status = "active" /\ row'.clock = e.at
      BY <1>8, <2>2, <2>3 DEF BoughtFirst, ParkedNewest
    <3>2. RowNewest'
      BY <1>1, <2>1, <3>1 DEF RowNewest
    <3> QED BY <2>1, <3>2, Nothings DEF Newest
  <2>4. CASE p # NoPeriod
    <3>1. /\ p \in Period /\ p.at \in Nat
          /\ IF p.at < e.at THEN row'.status = "active" /\ row'.clock = e.at
             ELSE row'.status = p.status /\ row'.clock = p.at
      BY <1>8, <2>4 DEF BoughtFirst, Period
    <3>2. \A j \in done : events[j].at <= p.at
      BY <2>2, <2>4 DEF ParkedNewest
    <3>3. PICK j \in done : events[j].at = p.at /\ Says(events[j]) = p.status
      BY <1>1, <2>2, <2>4, Sayings DEF ParkedNewest
    <3> HIDE DEF p, e
    <3>4. CASE p.at < e.at
      <4>1. \A k \in done : events[k].at <= e.at
        BY <1>1, <1>2, <3>1, <3>2, <3>4
      <4>2. RowNewest'
        BY <1>1, <2>1, <3>1, <3>4, <4>1 DEF RowNewest, e
      <4> QED BY <2>1, <4>2, Nothings DEF Newest
    <3>5. CASE ~(p.at < e.at)
      <4>1. e.at <= p.at
        BY <1>1, <3>1, <3>5
      <4>2. RowNewest'
        BY <1>1, <3>1, <3>2, <3>3, <3>5, <4>1 DEF RowNewest, e
      <4> QED BY <2>1, <4>2, Nothings DEF Newest
    <3> QED BY <3>4, <3>5
  <2> QED BY <2>3, <2>4
<1> QED BY <1>4, <1>5, <1>6, <1>7, <1>8 DEF HandledBy

\* What the worker read stays what is there.
LEMMA InHandStep ==
  ASSUME Alone, Typed, Claims, Word, [Next]_vars
  PROVE  InHand'
<1>1. CASE QuietStep /\ jobs' = jobs
  <2> SUFFICES ASSUME NEW w \in Workers, Busy(w)
               PROVE  /\ jobs[w].stash = parked'[events'[jobs[w].event].sub]
                      /\ IF Exists(jobs[w].seen) THEN Same(jobs[w].seen, row')
                         ELSE row'.sub \notin Subs
    BY <1>1 DEF InHand, Busy, Exists, Same
  <2>1. parked' = parked /\ events'[jobs[w].event] = events[jobs[w].event]
    BY <1>1, JobFields, EmittedStay DEF QuietStep
  <2>2. /\ jobs[w].stash = parked[events[jobs[w].event].sub]
        /\ IF Exists(jobs[w].seen) THEN Same(jobs[w].seen, row) ELSE row.sub \notin Subs
    BY DEF Word, InHand
  <2>3. CASE Same(row', row)
    BY <2>1, <2>2, <2>3 DEF Same
  <2>4. CASE row = NoRow /\ row' = FreeRow
    <3>1. ~Exists(jobs[w].seen)
      BY <2>4, JobFields DEF Exists
    <3> QED BY <2>1, <2>2, <2>4, <3>1, FreeRowTypes, Nothings
  <2> QED BY <1>1, <2>3, <2>4 DEF QuietStep
<1>2. ASSUME NEW w \in Workers, Begin(w)
      PROVE  InHand'
  <2>1. PICK i \in DOMAIN events \ done :
          /\ events[i].sub \in Subs /\ jobs'[w].event = i
          /\ jobs'[w].stash = parked[events[i].sub]
          /\ jobs'[w].seen =
               IF events[i].kind = "checkout" THEN row
               ELSE IF Resolves(row, events[i].sub) THEN Bound(row, events[i].sub) ELSE NoRow
          /\ UNCHANGED <<events, row, parked>>
    BY <1>2, BeginSteps
  <2> DEFINE s == events[i].sub
  <2>2. jobs'[w].seen = row \/ (jobs'[w].seen = NoRow /\ row.sub \notin Subs)
    <3>1. CASE Resolves(row, s)
      <4>1. row.sub # NoSub
        BY <2>1, <3>1, Nothings DEF Resolves, Alone
      <4> QED BY <2>1, <3>1, <4>1 DEF Bound
    <3>2. CASE ~Resolves(row, s)
      <4>1. row.sub \notin Subs
        BY <2>1, <3>2, Nothings DEF Resolves, Exists, Alone, OneSub
      <4> QED BY <2>1, <3>2, <4>1
    <3> QED BY <3>1, <3>2
  <2>3. IF Exists(jobs'[w].seen) THEN Same(jobs'[w].seen, row) ELSE row.sub \notin Subs
    BY <2>2, Nothings DEF Exists, Same
  <2>4. ASSUME NEW v \in Workers
        PROVE  v = w
    BY DEF Alone, OneWorker
  <2>5. /\ jobs'[w].stash = parked'[events'[jobs'[w].event].sub]
        /\ IF Exists(jobs'[w].seen) THEN Same(jobs'[w].seen, row') ELSE row'.sub \notin Subs
    BY <2>1, <2>3
  <2> QED BY <2>4, <2>5 DEF InHand, Exists, Same
<1>3. ASSUME NEW w \in Workers, Rollback(w)
      PROVE  InHand'
  <2>1. \A v \in Workers : jobs'[v] = Idle
    BY <1>3, NothingInHand DEF Rollback, Alone
  <2> QED BY <2>1 DEF InHand, Busy
<1>4. ASSUME NEW i \in DOMAIN events, HandledBy(i)
      PROVE  InHand'
  BY <1>4 DEF HandledBy, InHand, Busy
<1> QED BY <1>1, <1>2, <1>3, <1>4, StepSorts

LEMMA WordStep ==
  ASSUME Alone, Typed, Claims, Word, [Next]_vars
  PROVE  Word'
<1>1. row'.sub = NoSub => row'.clock = 0
  BY StepSorts, QuietNewest, HandledNewest
<1>2. Newest'
  BY StepSorts, QuietNewest, HandledNewest
<1> QED BY <1>1, <1>2, InHandStep, NoRepair DEF Word

\* NewestWordHeld: where one worker handles one subscription, in whatever order
\* its events come, many of one second among them, however often a handler
\* fails and whenever the purchase is handled, the row holds the newest of what
\* was handled, and its status is what an event of that instant said
\* (_is_stale_lifecycle_event, _advance_provider_clock).
THEOREM WordHeld == Alone => (Spec => []NewestWordHeld)
<1> SUFFICES ASSUME Alone PROVE Spec => []NewestWordHeld
  OBVIOUS
<1>1. Init => Claims /\ Word
  BY Nothings DEF Init, Claims, Found, ParkedIsClaimed, Word, InHand, Newest, ParkedNewest,
     Busy, NoRow
<1>2. (Typed /\ Claims /\ Word) /\ [Next]_vars => (Typed /\ Claims /\ Word)'
  BY ClaimsStep, NextTyped, WordStep DEF Alone
<1>3. Typed /\ Word => NewestWordHeld
  <2> SUFFICES ASSUME Typed, Word, NEW s \in Subs, row.sub = s
               PROVE  /\ \A e \in Handled(s) : events[e].at <= row.clock
                      /\ \E e \in Handled(s) :
                           events[e].at = row.clock /\ Says(events[e]) = row.status
    BY DEF NewestWordHeld
  <2>1. Handled(s) = done
    BY Sayings DEF Handled, Alone, OneSub, Typed, TypeOK
  <2> QED BY <2>1 DEF Word, Newest, RowNewest
<1> QED BY <1>1, <1>2, <1>3, InitTyped, PTL DEF Spec

-------------------------------------------------------------------------------
(***************************************************************************)
(* The mirror.  If moreover no two changes share a second, a stamp says    *)
(* which change it was of: the row, holding the newest word, holds all of  *)
(* the newest change.                                                      *)
(***************************************************************************)

\* A stamp names one change, every change has a lifecycle event, and the change
\* of the newest stamp is what the provider has.
Stamps ==
  /\ \A i \in DOMAIN events :
       /\ events[i].at <= time
       /\ events[i].kind = "checkout" => events[i].status = "active"
       /\ \E j \in DOMAIN events :
            events[j].at = events[i].at /\ events[j].kind # "checkout"
  /\ \A i, j \in DOMAIN events :
       events[i].at = events[j].at =>
         events[i].status = events[j].status /\ events[i].end = events[j].end
  /\ \A i \in DOMAIN events :
       (\A j \in DOMAIN events : events[j].at <= events[i].at) =>
         \A s \in Subs : events[i].status = real[s].status /\ events[i].end = real[s].end

\* The end of the row is the one its clock's change had.
EndHeld ==
  row.sub \in Subs =>
    \A i \in done :
      events[i].kind # "checkout" /\ events[i].at = row.clock => events[i].end = row.end

LEMMA StampsStep ==
  ASSUME OneSub, ~SameSecond, Typed, Stamps, ProviderStep
  PROVE  Stamps'
<1>1. CASE UNCHANGED <<real, events>> /\ time <= time' /\ time' \in 0..MaxTime
  <2>1. time \in Nat /\ time' \in Nat /\ \A i \in DOMAIN events : events[i].at \in Nat
    BY <1>1, Sayings DEF Typed, TypeOK
  <2>2. \A i \in DOMAIN events : events[i].at <= time'
    BY <1>1, <2>1 DEF Stamps
  <2> QED BY <1>1, <2>2 DEF Stamps
<1>2. ASSUME NEW s \in Subs, NEW st \in State, NEW kinds, Kinds(kinds, st), Emits(s, st, kinds)
      PROVE  Stamps'
  <2> DEFINE n == Len(events)
             k == Len(kinds)
  <2>1. /\ time' = time + 1 /\ time \in Nat /\ n \in Nat /\ k \in 1..2 /\ kinds[1] # "checkout"
        /\ DOMAIN events = 1..n /\ DOMAIN events' = 1..(n + k)
        /\ \A i \in 1..n : events'[i] = events[i]
        /\ real' = [real EXCEPT ![s] = st]
    BY <1>2 DEF Emits, Typed, TypeOK
  <2>2. ASSUME NEW m \in 1..k
        PROVE  /\ events'[n + m].at = time' /\ events'[n + m].kind = kinds[m]
               /\ events'[n + m].status = st.status /\ events'[n + m].end = st.end
    <3>1. events'[n + m] = [kind |-> kinds[m], sub |-> s, at |-> time', status |-> st.status,
                            end |-> st.end, leaving |-> st.leaving]
      BY <1>2 DEF Emits
    <3> QED BY <3>1
  <2>3. \A m \in 1..k : kinds[m] = "checkout" => st.status = "active"
    BY <1>2, <2>1 DEF Kinds
  <2>4. \A t \in Subs : real'[t] = st
    BY <2>1 DEF OneSub, Typed, ProviderOK
  <2> HIDE DEF n, k
  <2>5. ASSUME NEW i \in 1..(n + k)
        PROVE  \/ i \in 1..n
               \/ /\ events'[i].at = time' /\ events'[i].status = st.status
                  /\ events'[i].end = st.end
                  /\ events'[i].kind = "checkout" => st.status = "active"
    <3>1. CASE i \notin 1..n
      <4>1. PICK m \in 1..k : i = n + m
        <5>1. i - n \in 1..k /\ i = n + (i - n)
          BY <3>1, <2>1
        <5> QED BY <5>1
      <4> QED BY <4>1, <2>2, <2>3
    <3> QED BY <3>1
  <2>6. /\ n + 1 \in DOMAIN events' /\ events'[n + 1].at = time'
        /\ events'[n + 1].kind # "checkout"
    BY <2>1, <2>2
  <2>7. \A i \in 1..n : /\ i \in DOMAIN events /\ i \in DOMAIN events'
                        /\ events'[i] = events[i] /\ events[i].at \in Nat
                        /\ events[i].at <= time
    <3> TAKE i \in 1..n
    <3>1. i \in DOMAIN events /\ i \in DOMAIN events' /\ events'[i] = events[i]
      BY <2>1
    <3> QED BY <3>1, Sayings DEF Stamps
  <2>8. ASSUME NEW i \in DOMAIN events'
        PROVE  /\ events'[i].at <= time'
               /\ events'[i].kind = "checkout" => events'[i].status = "active"
               /\ \E j \in DOMAIN events' :
                    events'[j].at = events'[i].at /\ events'[j].kind # "checkout"
    <3>1. CASE i \in 1..n
      <4>1. /\ events'[i] = events[i] /\ events[i].at <= time /\ events[i].at \in Nat
            /\ events[i].kind = "checkout" => events[i].status = "active"
            /\ \E j \in DOMAIN events :
                 events[j].at = events[i].at /\ events[j].kind # "checkout"
        BY <2>7, <3>1 DEF Stamps
      <4>2. PICK j \in DOMAIN events :
              events[j].at = events[i].at /\ events[j].kind # "checkout"
        BY <4>1
      <4>3. j \in DOMAIN events' /\ events'[j] = events[j]
        BY <2>1, <2>7, <4>2
      <4> QED BY <2>1, <4>1, <4>2, <4>3
    <3>2. CASE i \notin 1..n
      <4>1. /\ events'[i].at = time'
            /\ events'[i].kind = "checkout" => events'[i].status = "active"
        BY <2>1, <2>5, <3>2
      <4> QED BY <2>1, <2>6, <4>1
    <3> QED BY <3>1, <3>2
  <2>9. ASSUME NEW i \in DOMAIN events', NEW j \in DOMAIN events',
               events'[i].at = events'[j].at
        PROVE  events'[i].status = events'[j].status /\ events'[i].end = events'[j].end
    <3>1. CASE i \in 1..n /\ j \in 1..n
      BY <2>7, <2>9, <3>1 DEF Stamps
    <3>2. CASE i \notin 1..n /\ j \notin 1..n
      BY <2>1, <2>5, <3>2
    <3>3. CASE i \in 1..n /\ j \notin 1..n
      BY <2>1, <2>5, <2>7, <2>9, <3>3
    <3>4. CASE i \notin 1..n /\ j \in 1..n
      BY <2>1, <2>5, <2>7, <2>9, <3>4
    <3> QED BY <3>1, <3>2, <3>3, <3>4
  <2>10. ASSUME NEW i \in DOMAIN events',
                \A j \in DOMAIN events' : events'[j].at <= events'[i].at
         PROVE  \A t \in Subs : events'[i].status = real'[t].status
                                /\ events'[i].end = real'[t].end
    <3>1. time + 1 <= events'[i].at
      BY <2>1, <2>6, <2>10
    <3>2. i \notin 1..n
      BY <2>1, <2>7, <3>1
    <3> QED BY <2>1, <2>4, <2>5, <3>2
  <2> QED BY <2>8, <2>9, <2>10 DEF Stamps
<1> QED BY <1>1, <1>2 DEF ProviderStep

LEMMA EndHeldStep ==
  ASSUME Alone, Typed, Claims, Word, Stamps, EndHeld, [Next]_vars
  PROVE  EndHeld'
<1>1. CASE QuietStep
  <2>1. /\ done' = done /\ \A i \in done : events'[i] = events[i]
    BY <1>1, EmittedStay DEF QuietStep, Typed, TypeOK
  <2> QED BY <1>1, <2>1, FreeRowTypes, Nothings DEF EndHeld, QuietStep, Same
<1>2. ASSUME NEW i \in DOMAIN events, HandledBy(i)
      PROVE  EndHeld'
  <2> DEFINE e == events[i]
  <2>1. /\ done' = done \cup {i} /\ events' = events /\ done \subseteq DOMAIN events
        /\ e \in Event /\ e.at \in Nat /\ e.sub \in Subs /\ e.status \in Status
    BY <1>2, Sayings DEF HandledBy, Typed, TypeOK
  <2>2. /\ \A j \in done : events[j].at \in Nat
        /\ \A j \in DOMAIN events : events[j].at = e.at =>
             events[j].status = e.status /\ events[j].end = e.end
    BY <2>1, Sayings DEF Stamps
  <2>3. row.sub \in Subs => row \in Row /\ row.clock \in Nat
    BY PaidRow, RowFields
  <2>4. CASE Dropped(e)
    <3>1. row' = row /\ row.sub \in Subs
      BY <2>4 DEF Dropped
    <3>2. e.at # row.clock
      <4> SUFFICES ASSUME e.at = row.clock PROVE FALSE
        OBVIOUS
      <4>1. PICK j \in done : events[j].at = row.clock /\ Says(events[j]) = row.status
        BY <3>1 DEF Word, Newest, RowNewest
      <4>2. Says(events[j]) = events[j].status
        BY <2>1, <4>1 DEF Stamps, Says
      <4>3. e.status = row.status
        BY <2>1, <2>2, <4>1, <4>2
      <4>4. LIFECYCLE_RANK[e.status] < LIFECYCLE_RANK[e.status]
        BY <2>1, <2>3, <2>4, <3>1, <4>3 DEF Dropped, Stale
      <4>5. LIFECYCLE_RANK[e.status] \in Nat
        BY <2>1 DEF LIFECYCLE_RANK, Status
      <4> QED BY <4>4, <4>5
    <3> QED BY <2>1, <3>1, <3>2 DEF EndHeld
  <2>5. CASE Applied(e)
    <3>1. row'.clock = e.at /\ row'.end = e.end
      BY <2>1, <2>3, <2>5, Moves DEF Applied
    <3> QED BY <2>1, <2>2, <3>1 DEF EndHeld
  <2>6. CASE Shelved(e)
    BY <2>6 DEF Shelved, EndHeld
  <2>7. CASE BoughtAgain(e)
    <3>1. /\ row.sub \in Subs /\ row'.end = row.end /\ e.kind = "checkout"
          /\ \A j \in done : events[j].at <= row.clock
      BY <2>7 DEF BoughtAgain, Word, Newest, RowNewest
    <3>2. row.clock <= row'.clock
      <4>1. CASE Stale(row, e.at, "active")
        BY <2>3, <2>7, <4>1, <3>1 DEF BoughtAgain
      <4>2. CASE ~Stale(row, e.at, "active")
        BY <2>1, <2>3, <2>7, <3>1, <4>2, Moves DEF BoughtAgain
      <4> QED BY <4>1, <4>2
    <3>3. row'.clock \in Nat
      BY <2>1, <2>3, <2>7, <3>1 DEF BoughtAgain, Latest
    <3>4. \A j \in done : events[j].at = row'.clock => events[j].at = row.clock
      BY <2>2, <2>3, <3>1, <3>2, <3>3
    <3> QED BY <2>1, <3>1, <3>4 DEF EndHeld
  <2>8. CASE BoughtFirst(e)
    <3> DEFINE p == parked[e.sub]
    <3>1. row.sub \notin Subs /\ e.kind = "checkout" /\ ParkedNewest(e.sub)
      BY <2>1, <2>8 DEF BoughtFirst, Word, Newest
    <3>2. CASE p = NoPeriod
      BY <2>1, <3>1, <3>2 DEF ParkedNewest, EndHeld
    <3>3. CASE p # NoPeriod
      <4>1. /\ p \in Period /\ p.at \in Nat /\ row'.end = p.end
            /\ row'.clock = IF p.at < e.at THEN e.at ELSE p.at
        BY <2>8, <3>3 DEF BoughtFirst, Period
      <4>2. \A j \in done : events[j].at <= p.at
        BY <3>1, <3>3 DEF ParkedNewest
      <4>3. PICK g \in done : events[g].at = p.at /\ events[g].end = p.end
        BY <3>1, <3>3 DEF ParkedNewest
      <4>4. \A j \in done : events[j].at = p.at => events[j].end = p.end
        BY <2>1, <4>3 DEF Stamps
      <4> HIDE DEF p
      <4>5. \A j \in done : events[j].at = row'.clock => events[j].at = p.at
        BY <2>1, <2>2, <4>1, <4>2
      <4>6. \A j \in done : events[j].at = row'.clock => events[j].end = row'.end
        BY <4>1, <4>4, <4>5
      <4> QED BY <2>1, <3>1, <4>6 DEF EndHeld
    <3> QED BY <3>2, <3>3
  <2> QED BY <1>2, <2>4, <2>5, <2>6, <2>7, <2>8 DEF HandledBy
<1> QED BY <1>1, <1>2, StepSorts

\* MirrorsOnceHandled: if moreover no two changes share a second, then once all
\* the provider emitted has been handled, in whatever order, a row that carries
\* the id says what the provider says (handle_subscription_updated,
\* _apply_pending_period).
THEOREM Mirrors == Alone /\ ~SameSecond => (Spec => []MirrorsOnceHandled)
<1> SUFFICES ASSUME Alone, ~SameSecond PROVE Spec => []MirrorsOnceHandled
  OBVIOUS
<1> DEFINE IInv == Typed /\ Claims /\ Word /\ Stamps /\ EndHeld
<1>1. Init => IInv
  BY InitTyped, Nothings DEF Init, Claims, Found, ParkedIsClaimed, Word, InHand, Newest,
     ParkedNewest, Busy, NoRow, Stamps, EndHeld
<1>2. IInv /\ [Next]_vars => IInv'
  <2> SUFFICES ASSUME IInv, [Next]_vars PROVE IInv'
    OBVIOUS
  <2>1. ProviderStep
    <3>1. CASE QuietStep
      BY <3>1 DEF QuietStep
    <3>2. ASSUME NEW i \in DOMAIN events, HandledBy(i)
          PROVE  ProviderStep
      BY <3>2 DEF HandledBy, ProviderStep, Typed, TypeOK
    <3> QED BY <3>1, <3>2, StepSorts
  <2> QED BY <2>1, ClaimsStep, NextTyped, WordStep, StampsStep, EndHeldStep DEF Alone
<1>3. IInv => MirrorsOnceHandled
  <2> SUFFICES ASSUME IInv, done = DOMAIN events, NEW s \in Subs, row.sub = s
               PROVE  row.status = real[s].status /\ row.end = real[s].end
    BY DEF MirrorsOnceHandled
  <2>1. PICK i \in done : events[i].at = row.clock /\ Says(events[i]) = row.status
    BY DEF Word, Newest, RowNewest
  <2>2. events[i].status = real[s].status /\ events[i].end = real[s].end
    BY <2>1 DEF Stamps, Word, Newest, RowNewest
  <2>3. row.status = events[i].status
    BY <2>1 DEF Stamps, Says
  <2>4. PICK j \in done : events[j].at = events[i].at /\ events[j].kind # "checkout"
    BY <2>1 DEF Stamps
  <2>5. events[j].end = events[i].end
    BY <2>1, <2>4 DEF Stamps
  <2>6. row.end = events[j].end
    BY <2>1, <2>4 DEF EndHeld
  <2> QED BY <2>2, <2>3, <2>5, <2>6
<1> HIDE DEF IInv
<1> QED BY <1>1, <1>2, <1>3, PTL DEF Spec

===============================================================================
