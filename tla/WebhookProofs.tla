---------------------------- MODULE WebhookProofs ----------------------------
(***************************************************************************)
(* Proofs about WebhookDelivery: for any number of workers, events, faults *)
(* and redeliveries, delivery implements the exactly-once PaymentBook, no  *)
(* sale is marked as processed without its credits, and what is taken back *)
(* of a grant is the largest share anybody asked for, once.                *)
(***************************************************************************)
EXTENDS WebhookDelivery, CreditLotsLemmas

\* What a worker may be doing.
Doing == {Idle} \cup [step : Steps, event : Events, found : BOOLEAN]

\* What the workers and the rows look like.
Shape ==
  /\ log \in [Events -> {"absent", "stored", "processed"}]
  /\ facts \in [Events -> Nat]
  /\ grants \in Seq(GrantRow)
  /\ at \in [Workers -> Doing]

Granted(p) == \E g \in DOMAIN grants : grants[g].payment = p

\* Claims and grants go together, one grant per payment, at the catalogue's price.
ClaimsBacked ==
  /\ \A g \in DOMAIN grants : grants[g].payment \in claims
  /\ \A g, h \in DOMAIN grants : grants[g].payment = grants[h].payment => g = h
  /\ \A g \in DOMAIN grants : \E e \in Events :
       e.type \in Sales /\ grants[g].payment = Payment(e) /\ grants[g].credits = e.credits
  /\ \A e \in Events :
       e.type \in Sales /\ e.credits > 0 /\ Payment(e) \in claims => Granted(Payment(e))

\* An event has told nobody anything before it is processed.
QuietUntilProcessed == \A e \in Events : log[e] # "processed" => facts[e] = 0

\* An event that is being handled is one worker's, and not processed yet.
OneHandler ==
  /\ \A w \in Workers : Is(w, "handle") => log[at[w].event] # "processed"
  /\ \A v, w \in Workers :
       Is(v, "handle") /\ Is(w, "handle") /\ at[v].event = at[w].event => v = w

Inv == Shape /\ ClaimsBacked /\ QuietUntilProcessed /\ OneHandler

-------------------------------------------------------------------------------
\* What an event claims for a clawback is never what a sale claims: the scopes of
\* claim_provider_object() differ.
LEMMA ScopesDiffer ==
  \A d, e : EventClaim(d) # Payment(e)
BY DEF EventClaim, Payment

LEMMA InitInv == Init => Inv
<1> SUFFICES ASSUME Init PROVE Inv
  OBVIOUS
<1> QED
  BY DEF Init, Inv, Shape, Doing, ClaimsBacked, QuietUntilProcessed, OneHandler,
         Granted, Is, Idle

\* What Handle(e, found) may do to the books: nothing to sales, or one sale in whole.
Sold(e) ==
  /\ e.type \in Sales /\ SaleClaim(e) \notin claims
  /\ claims' = claims \cup {SaleClaim(e)}
  /\ grants' = IF e.credits > 0 THEN Append(grants, Grant(e)) ELSE grants
  /\ facts' = [facts EXCEPT ![e] = @ + Announced(e)]

NotSold(e) ==
  /\ \A p \in Payments : p \in claims' <=> p \in claims
  /\ claims \subseteq claims'
  /\ grants' = grants
  /\ facts' = facts \/ facts' = [facts EXCEPT ![e] = @ + 1]

LEMMA HandleSellsOrNot ==
  ASSUME NEW e \in Events, NEW found \in BOOLEAN, Handle(e, found)
  PROVE  Sold(e) \/ NotSold(e)
<1>1. ASSUME e.type \in {"package", "plan"}, CheckoutCompleted(e)
      PROVE  Sold(e) \/ NotSold(e)
  BY <1>1 DEF CheckoutCompleted, Sell, Sold, NotSold, Sales, book
<1>2. ASSUME e.type = "renewal", InvoicePaid(e, found)
      PROVE  Sold(e) \/ NotSold(e)
  BY <1>2 DEF InvoicePaid, Sell, Sold, NotSold, Sales, book
<1>3. ASSUME TakeBack(e, found) \/ Undispute(e, found)
      PROVE  NotSold(e)
  <2>1. claims' = claims \cup {EventClaim(e)} \/ claims' = claims
    BY <1>3 DEF TakeBack, Undispute, book
  <2>2. \A p \in Payments : p # EventClaim(e)
    BY ScopesDiffer DEF Payments
  <2>3. grants' = grants /\ facts' = facts
    BY <1>3 DEF TakeBack, Undispute, book
  <2> QED
    BY <2>1, <2>2, <2>3 DEF NotSold
<1>4. ASSUME Report(e, found)
      PROVE  NotSold(e)
  BY <1>4 DEF Report, NotSold
<1>5. ASSUME UNCHANGED book
      PROVE  NotSold(e)
  BY <1>5 DEF NotSold, book
<1> QED
  BY <1>1, <1>2, <1>3, <1>4, <1>5 DEF Handle

\* The facts of one event are at most two (_announce_credits_granted and
\* _announce_subscription_started).
LEMMA AtMostTwoFacts ==
  ASSUME NEW e PROVE Announced(e) \in 0..2
BY DEF Announced

\* A worker that is not idle works on an event.
LEMMA WorksOnAnEvent ==
  ASSUME Shape, NEW w \in Workers, ~Is(w, "idle")
  PROVE  at[w].event \in Events
<1>1. at[w] # Idle
  BY DEF Is, Idle
<1> QED
  BY <1>1 DEF Shape, Doing

\* With what it looked up, if it handles it.
LEMMA HandlesAnEvent ==
  ASSUME Shape, NEW w \in Workers, Apply(w)
  PROVE  /\ at[w].event \in Events /\ at[w].found \in BOOLEAN
         /\ Handle(at[w].event, at[w].found)
         /\ log' = [log EXCEPT ![at[w].event] = "processed"]
BY DEF Apply, Shape, Doing, Is, Idle

\* Any step of a worker that leaves it idle or at some step of an event is typed.
LEMMA BusyTyped ==
  ASSUME NEW step \in Steps, NEW e \in Events, NEW found \in BOOLEAN
  PROVE  /\ Busy(step, e) \in Doing
         /\ [Busy(step, e) EXCEPT !.found = found] \in Doing
         /\ [Busy(step, e) EXCEPT !.found = found].step = step
         /\ [Busy(step, e) EXCEPT !.found = found].event = e
         /\ Busy(step, e).step = step /\ Busy(step, e).event = e
BY DEF Busy, Doing

\* A replay that is done is idle, a delivery has its answer to give.
LEMMA DoneTyped ==
  ASSUME Shape, NEW w \in Workers, ~Is(w, "idle")
  PROVE  Done(w) \in Doing /\ Done(w).step # "handle"
<1>1. at[w].event \in Events /\ "answer" \in Steps
  BY WorksOnAnEvent DEF Steps
<1>2. Busy("answer", at[w].event) \in Doing /\ Busy("answer", at[w].event).step = "answer"
  BY <1>1, BusyTyped
<1> QED
  BY <1>2 DEF Done, Doing, Idle

\* A worker that goes on with anything but handling changes nobody's hold on an
\* event.
LEMMA LeavingKeepsOneHandler ==
  ASSUME Shape, OneHandler, NEW w \in Workers, NEW x \in Doing, x.step # "handle",
         at' = [at EXCEPT ![w] = x],
         \A v \in Workers : v # w /\ Is(v, "handle") =>
           log'[at[v].event] # "processed"
  PROVE  OneHandler'
<1>1. \A v \in Workers : Is(v, "handle")' => v # w /\ Is(v, "handle") /\ at'[v] = at[v]
  BY DEF Is, Shape
<1> QED
  BY <1>1 DEF OneHandler

-------------------------------------------------------------------------------
\* One sale keeps claims and grants together.
LEMMA SoldKeepsBacked ==
  ASSUME Inv, NEW e \in Events, Sold(e)
  PROVE  ClaimsBacked'
<1>1. e.credits \in Nat /\ Payment(e) \in Payments /\ SaleClaim(e) = Payment(e)
  BY EventsAssumption DEF Sold, Payments, SaleClaim
<1>2. CASE e.credits = 0
  <2>1. grants' = grants /\ claims' = claims \cup {Payment(e)}
    BY <1>1, <1>2 DEF Sold
  <2>2. \A d \in Events : d.type \in Sales /\ d.credits > 0 => Payment(d) # Payment(e)
    <3> SUFFICES ASSUME NEW d \in Events, d.type \in Sales, d.credits > 0,
                        Payment(d) = Payment(e)
                 PROVE  FALSE
      OBVIOUS
    <3>1. d.about = e.about
      BY DEF Payment
    <3> QED
      BY <3>1, <1>2, PricesAssumption DEF Sold
  <2> QED
    BY <2>1, <2>2 DEF Inv, ClaimsBacked, Granted
<1>3. CASE e.credits # 0
  <2>1. grants' = Append(grants, Grant(e)) /\ claims' = claims \cup {Payment(e)}
    BY <1>1, <1>3 DEF Sold
  <2>2. /\ DOMAIN grants = 1..Len(grants) /\ Len(grants) \in Nat
        /\ DOMAIN grants' = 1..(Len(grants) + 1)
        /\ \A g \in DOMAIN grants : grants'[g] = grants[g]
        /\ grants'[Len(grants) + 1] = Grant(e)
    BY <2>1 DEF Inv, Shape
  <2>3. Grant(e).payment = Payment(e) /\ Grant(e).credits = e.credits
    BY DEF Grant
  <2>4. \A g \in DOMAIN grants : grants[g].payment # Payment(e)
    BY <1>1 DEF Inv, ClaimsBacked, Sold
  <2>5. \A g \in DOMAIN grants' : g \in DOMAIN grants \/ g = Len(grants) + 1
    BY <2>2
  <2>6. \A g \in DOMAIN grants : g \in DOMAIN grants'
    BY <2>2
  <2>7. Len(grants) + 1 \in DOMAIN grants'
    BY <2>2
  <2>8. (\A g \in DOMAIN grants : grants[g].payment \in claims)'
    BY <2>1, <2>2, <2>3, <2>5 DEF Inv, ClaimsBacked
  <2>9. (\A g, h \in DOMAIN grants : grants[g].payment = grants[h].payment => g = h)'
    BY <2>2, <2>3, <2>4, <2>5 DEF Inv, ClaimsBacked
  <2>10. (\A g \in DOMAIN grants : \E d \in Events :
            d.type \in Sales /\ grants[g].payment = Payment(d) /\ grants[g].credits = d.credits)'
    BY <2>2, <2>3, <2>5 DEF Inv, ClaimsBacked, Sold
  <2>11. ASSUME NEW d \in Events, d.type \in Sales, d.credits > 0, Payment(d) \in claims'
         PROVE  Granted(Payment(d))'
    <3>1. CASE Payment(d) = Payment(e)
      BY <3>1, <2>2, <2>3, <2>7 DEF Granted
    <3>2. CASE Payment(d) # Payment(e)
      <4>1. PICK g \in DOMAIN grants : grants[g].payment = Payment(d)
        BY <3>2, <2>1, <2>11 DEF Inv, ClaimsBacked, Granted
      <4> QED
        BY <4>1, <2>2, <2>6 DEF Granted
    <3> QED
      BY <3>1, <3>2
  <2> QED
    BY <2>8, <2>9, <2>10, <2>11 DEF ClaimsBacked
<1> QED
  BY <1>2, <1>3

LEMMA NotSoldKeepsBacked ==
  ASSUME Inv, NEW e \in Events, NotSold(e)
  PROVE  ClaimsBacked'
<1>1. \A d \in Events : d.type \in Sales => (Payment(d) \in claims' <=> Payment(d) \in claims)
  BY DEF NotSold, Payments
<1>2. grants' = grants /\ claims \subseteq claims'
  BY DEF NotSold
<1>3. (\A g \in DOMAIN grants : grants[g].payment \in claims)'
  BY <1>2 DEF Inv, ClaimsBacked
<1>4. \A d \in Events : d.type \in Sales /\ d.credits > 0 /\ Payment(d) \in claims'
                        => Granted(Payment(d))'
  BY <1>1, <1>2 DEF Inv, ClaimsBacked, Granted
<1> QED
  BY <1>2, <1>3, <1>4 DEF Inv, ClaimsBacked

LEMMA GrantTyped ==
  ASSUME NEW e \in Events, e.type \in Sales
  PROVE  Grant(e) \in GrantRow
BY EventsAssumption DEF Grant, GrantRow, Payments

\* Apply(w): the handler and the processed mark.
LEMMA AppliedKeepsInv ==
  ASSUME Inv, NEW w \in Workers, Apply(w)
  PROVE  Inv'
<1> DEFINE e == at[w].event
<1>1. /\ e \in Events /\ at[w].found \in BOOLEAN /\ Handle(e, at[w].found)
      /\ log' = [log EXCEPT ![e] = "processed"]
  BY HandlesAnEvent DEF Inv
<1>2. Sold(e) \/ NotSold(e)
  BY <1>1, HandleSellsOrNot
<1>3. Done(w) \in Doing /\ Done(w).step # "handle" /\ at' = [at EXCEPT ![w] = Done(w)]
  BY DoneTyped DEF Apply, Is, Inv
<1>4. facts' \in [Events -> Nat] /\ \A d \in Events : d # e => facts'[d] = facts[d]
  <2>1. Announced(e) \in Nat
    BY AtMostTwoFacts
  <2> QED
    BY <1>1, <1>2, <2>1 DEF Sold, NotSold, Inv, Shape
<1>5. grants' \in Seq(GrantRow)
  <2>1. grants \in Seq(GrantRow)
    BY DEF Inv, Shape
  <2>2. grants' = grants \/ (grants' = Append(grants, Grant(e)) /\ e.type \in Sales)
    BY <1>2 DEF Sold, NotSold
  <2>3. e.type \in Sales => Grant(e) \in GrantRow
    BY <1>1, GrantTyped
  <2> HIDE DEF e
  <2> QED
    BY <2>1, <2>2, <2>3
<1>6. Shape'
  <2>1. at' \in [Workers -> Doing]
    BY <1>3 DEF Inv, Shape
  <2> QED
    BY <1>1, <1>4, <1>5, <2>1 DEF Inv, Shape
<1>7. QuietUntilProcessed'
  BY <1>1, <1>4 DEF Inv, Shape, QuietUntilProcessed
<1>8. OneHandler'
  <2>1. \A v \in Workers : v # w /\ Is(v, "handle") => at[v].event # e
    BY DEF Inv, OneHandler, Apply
  <2>2. \A v \in Workers : v # w /\ Is(v, "handle") => log'[at[v].event] # "processed"
    <3> SUFFICES ASSUME NEW v \in Workers, v # w, Is(v, "handle")
                 PROVE  log'[at[v].event] # "processed"
      OBVIOUS
    <3>1. at[v].event \in Events
      BY WorksOnAnEvent DEF Is, Inv
    <3> QED
      BY <1>1, <2>1, <3>1 DEF Inv, OneHandler, Shape
  <2> QED
    BY <1>3, <2>2, LeavingKeepsOneHandler DEF Inv
<1> QED
  BY <1>1, <1>2, <1>6, <1>7, <1>8, SoldKeepsBacked, NotSoldKeepsBacked DEF Inv

\* Every other step leaves the books alone and marks nothing as processed.
BooksUntouched ==
  /\ UNCHANGED book
  /\ \A e \in Events : log'[e] = "processed" <=> log[e] = "processed"

\* A step that moves one worker to anything but handling.
Moves(w) ==
  \E x \in Doing : x.step # "handle" /\ at' = [at EXCEPT ![w] = x]

LEMMA MovingLeavesBooks ==
  ASSUME Inv, BooksUntouched, log' \in [Events -> {"absent", "stored", "processed"}],
         NEW w \in Workers, Moves(w)
  PROVE  Shape' /\ OneHandler'
<1>1. PICK x \in Doing : x.step # "handle" /\ at' = [at EXCEPT ![w] = x]
  BY DEF Moves
<1>2. Shape'
  BY <1>1 DEF Inv, Shape, BooksUntouched, book
<1>3. ASSUME NEW v \in Workers, Is(v, "handle")
      PROVE  log'[at[v].event] # "processed"
  <2>1. at[v].event \in Events
    BY <1>3, WorksOnAnEvent DEF Is, Inv
  <2> QED
    BY <1>3, <2>1 DEF BooksUntouched, Inv, OneHandler
<1>4. OneHandler'
  BY <1>1, <1>3, LeavingKeepsOneHandler DEF Inv
<1> QED
  BY <1>2, <1>4

LEMMA OthersLeaveBooks ==
  ASSUME Inv, [Next]_vars, ~ \E w \in Workers : Apply(w)
  PROVE  BooksUntouched /\ Shape' /\ OneHandler'
<1>1. ASSUME NEW w \in Workers, Look(w)
      PROVE  BooksUntouched /\ Shape' /\ OneHandler'
  <2> DEFINE e == at[w].event
  <2>1. UNCHANGED <<log, book>> /\ e \in Events /\ ~Is(w, "idle")
    BY <1>1, WorksOnAnEvent DEF Look, Is, Inv
  <2>2. BooksUntouched /\ log' \in [Events -> {"absent", "stored", "processed"}]
    BY <2>1 DEF BooksUntouched, Inv, Shape
  <2>3. CASE Duplicate(e)
    <3>1. Done(w) \in Doing /\ Done(w).step # "handle"
      BY <2>1, DoneTyped DEF Inv
    <3>2. at' = [at EXCEPT ![w] = Done(w)]
      BY <1>1, <2>3 DEF Look
    <3>3. Moves(w)
      BY <3>1, <3>2 DEF Moves
    <3> QED
      BY <2>2, <3>3, MovingLeavesBooks
  <2>4. CASE ~Duplicate(e)
    <3> DEFINE x == [Busy("handle", e) EXCEPT !.found = Finds(e)]
    <3>1. "handle" \in Steps /\ Finds(e) \in BOOLEAN
      BY DEF Steps, Finds
    <3>2. x \in Doing /\ x.step = "handle" /\ x.event = e
      BY <2>1, <3>1, BusyTyped
    <3>3. at' = [at EXCEPT ![w] = x] /\ ~Locked(e) /\ log[e] # "processed"
      BY <1>1, <2>4 DEF Look, Duplicate
    <3> HIDE DEF x, e
    <3>4. Shape'
      BY <2>1, <3>2, <3>3 DEF Inv, Shape, book
    <3>5. \A v \in Workers : v # w => at'[v] = at[v]
      BY <3>3 DEF Inv, Shape
    <3>6. at'[w] = x
      BY <3>3 DEF Inv, Shape
    <3>7. \A v \in Workers : v # w /\ Is(v, "handle")' => Is(v, "handle") /\ at[v].event # e
      BY <3>3, <3>5 DEF Is, Locked
    <3>8. OneHandler'
      BY <2>1, <3>2, <3>3, <3>5, <3>6, <3>7 DEF Inv, OneHandler, Is
    <3> QED
      BY <2>2, <3>4, <3>8
  <2> QED
    BY <2>3, <2>4
<1>2. ASSUME NEW w \in Workers, Fail(w) \/ RecordError(w) \/ Answer(w) \/ Die(w)
      PROVE  BooksUntouched /\ Shape' /\ OneHandler'
  <2>1. UNCHANGED <<log, book>> /\ at[w].event \in Events /\ "failed" \in Steps
    BY <1>2, WorksOnAnEvent DEF Fail, RecordError, Answer, Die, RolledBack, Is, Inv, Steps
  <2>2. BooksUntouched /\ log' \in [Events -> {"absent", "stored", "processed"}]
    BY <2>1 DEF BooksUntouched, Inv, Shape
  <2>3. Moves(w)
    <3>1. Idle \in Doing /\ Idle.step # "handle"
      BY DEF Doing, Idle
    <3>2. Busy("failed", at[w].event) \in Doing /\ Busy("failed", at[w].event).step = "failed"
      BY <2>1, BusyTyped
    <3>3. \/ at' = [at EXCEPT ![w] = Idle]
          \/ at' = [at EXCEPT ![w] = Busy("failed", at[w].event)]
      BY <1>2 DEF Fail, RecordError, Answer, Die
    <3> QED
      BY <3>1, <3>2, <3>3 DEF Moves
  <2> QED
    BY <2>2, <2>3, MovingLeavesBooks
<1>3. ASSUME NEW w \in Workers, NEW e \in Events, Receive(w, e) \/ Replay(w, e)
      PROVE  BooksUntouched /\ Shape' /\ OneHandler'
  <2>1. /\ UNCHANGED book
        /\ log' = log \/ log' = [log EXCEPT ![e] = IF @ = "absent" THEN "stored" ELSE @]
    BY <1>3 DEF Receive, Replay, Stored
  <2>2. BooksUntouched /\ log' \in [Events -> {"absent", "stored", "processed"}]
    BY <2>1 DEF BooksUntouched, Inv, Shape
  <2>3. Moves(w)
    <3>1. PICK step \in {"answer", "apply"} : at' = [at EXCEPT ![w] = Busy(step, e)]
      BY <1>3 DEF Receive, Replay
    <3>2. step \in Steps /\ step # "handle"
      BY DEF Steps
    <3>3. Busy(step, e) \in Doing /\ Busy(step, e).step = step
      BY <3>2, BusyTyped
    <3> QED
      BY <3>1, <3>2, <3>3 DEF Moves
  <2> QED
    BY <2>2, <2>3, MovingLeavesBooks
<1>4. ASSUME NEW e \in Events, GiveUp(e)
      PROVE  BooksUntouched /\ Shape' /\ OneHandler'
  BY <1>4 DEF GiveUp, BooksUntouched, Inv, Shape, OneHandler, Is, book
<1>5. CASE UNCHANGED vars
  BY <1>5 DEF vars, BooksUntouched, Inv, Shape, OneHandler, Is, book
<1> QED
  BY <1>1, <1>2, <1>3, <1>4, <1>5 DEF Next, Work

LEMMA NextKeepsInv == Inv /\ [Next]_vars => Inv'
<1> SUFFICES ASSUME Inv, [Next]_vars PROVE Inv'
  OBVIOUS
<1>1. CASE \E w \in Workers : Apply(w)
  BY <1>1, AppliedKeepsInv
<1>2. CASE ~ \E w \in Workers : Apply(w)
  <2>1. BooksUntouched /\ Shape' /\ OneHandler'
    BY <1>2, OthersLeaveBooks
  <2> QED
    BY <2>1 DEF BooksUntouched, Inv, ClaimsBacked, QuietUntilProcessed, Granted, book
<1> QED
  BY <1>1, <1>2

-------------------------------------------------------------------------------
\* An event that is processed leaves its payment granted if it could be by what its
\* handler had looked up, whatever was committed beside it since:
\* claim_provider_object() is called inside the transaction of the grant.
THEOREM SalesAreKept == Spec => NoSaleLost
<1> DEFINE Kept ==
      \A w \in Workers :
        LET e == at[w].event
        IN  /\ Is(w, "handle") /\ log[e] # "processed" /\ log'[e] = "processed"
            /\ e.type \in Sales /\ e.credits > 0 /\ Sellable(e, at[w].found)
            => \E g \in DOMAIN grants' : grants'[g].payment = Payment(e)
<1>1. Inv /\ [Next]_vars => Kept
  <2> SUFFICES ASSUME Inv, [Next]_vars, NEW w \in Workers, NEW e, e = at[w].event,
                      Is(w, "handle"), log[e] # "processed", log'[e] = "processed",
                      e.type \in Sales, e.credits > 0, Sellable(e, at[w].found)
               PROVE  \E g \in DOMAIN grants' : grants'[g].payment = Payment(e)
    OBVIOUS
  <2>1. e \in Events
    BY WorksOnAnEvent DEF Is, Inv
  <2>2. PICK v \in Workers : Apply(v)
    BY <2>1, OthersLeaveBooks DEF BooksUntouched
  <2>3. /\ at[v].event \in Events /\ Handle(at[v].event, at[v].found)
        /\ log' = [log EXCEPT ![at[v].event] = "processed"] /\ Is(v, "handle")
    BY <2>2, HandlesAnEvent DEF Apply, Inv
  <2>4. at[v].event = e
    BY <2>1, <2>3 DEF Inv, Shape
  <2>5. v = w
    BY <2>3, <2>4 DEF Inv, OneHandler
  <2>6. CheckoutCompleted(e) \/ InvoicePaid(e, at[w].found)
    BY <2>3, <2>4, <2>5 DEF Handle, Sales, TakesBack
  <2>7. Payment(e) \in claims'
    BY <2>6 DEF CheckoutCompleted, InvoicePaid, Sellable, Sell, SaleClaim, book
  <2>8. ClaimsBacked'
    BY NextKeepsInv DEF Inv
  <2> QED
    BY <2>1, <2>7, <2>8 DEF ClaimsBacked, Granted
<1>2. Inv /\ [Next]_vars => [Kept]_vars
  BY <1>1
<1> QED
  BY <1>2, InitInv, NextKeepsInv, PTL DEF Spec, NoSaleLost

-------------------------------------------------------------------------------
\* Where no row grants a payment, nothing was granted for it.
LEMMA NothingCredited ==
  ASSUME NEW p, GrantsFor(p) = {}
  PROVE  Credited(p) = 0
BY SumEmpty DEF Credited

\* The catalogue has one price for a payment, whichever event describes it.
LEMMA OnePrice ==
  ASSUME NEW e \in Events, e.type \in Sales
  PROVE  PriceOf(Payment(e)) = e.credits
<1> DEFINE d == CHOOSE d \in Events : d.type \in Sales /\ Payment(d) = Payment(e)
<1>1. d \in Events /\ d.type \in Sales /\ Payment(d) = Payment(e)
  OBVIOUS
<1>2. d.about = e.about
  BY <1>1 DEF Payment
<1> HIDE DEF d
<1>3. d.credits = e.credits
  BY <1>1, <1>2, PricesAssumption
<1> QED
  BY <1>3 DEF d, PriceOf

\* A sale with credits sets its payment's sum from 0 to the price, no other sum.
LEMMA SaleCredits ==
  ASSUME Inv, NEW e \in Events, Sold(e), e.credits > 0
  PROVE  /\ Credited(Payment(e)) = 0
         /\ Credited(Payment(e))' = PriceOf(Payment(e))
         /\ \A p \in Payments : p # Payment(e) => Credited(p)' = Credited(p)
<1> DEFINE n == Len(grants) + 1
           f == [g \in DOMAIN grants |-> grants[g].credits]
           h == [g \in DOMAIN grants' |-> grants'[g].credits]
<1>1. grants' = Append(grants, Grant(e)) /\ e.type \in Sales
  BY DEF Sold
<1>2. /\ n \in Nat /\ DOMAIN grants = 1..(n - 1) /\ DOMAIN grants' = 1..n /\ n \in 1..n
      /\ \A g \in DOMAIN grants : g \in 1..n /\ g # n /\ grants'[g] = grants[g]
      /\ grants'[n] = Grant(e)
  BY <1>1 DEF Inv, Shape
<1>3. Grant(e).payment = Payment(e) /\ Grant(e).credits = e.credits /\ e.credits \in Nat
  BY EventsAssumption DEF Grant
<1>4. \A g \in DOMAIN grants : grants[g].payment # Payment(e)
  BY <1>1 DEF Inv, ClaimsBacked, Sold, SaleClaim
<1>5. \A g \in DOMAIN grants' : g \in DOMAIN grants \/ g = n
  <2> HIDE DEF n
  <2> QED
    BY <1>2
<1> HIDE DEF n
<1>6. Credited(Payment(e)) = 0
  BY <1>4, NothingCredited DEF GrantsFor
<1>7. Credited(Payment(e))' = PriceOf(Payment(e))
  <2>1. GrantsFor(Payment(e))' = {} \cup {n}
    BY <1>2, <1>3, <1>4, <1>5 DEF GrantsFor
  <2>2. h[n] = e.credits /\ h[n] \in Int
    BY <1>2, <1>3
  <2>3. Credited(Payment(e))' = SumFunctionOnSet(h, {} \cup {n})
    BY <2>1 DEF Credited
  <2> HIDE DEF h
  <2>4. SumFunctionOnSet(h, {} \cup {n}) = SumFunctionOnSet(h, {}) + h[n]
    <3>1. IsFiniteSet({}) /\ n \notin {} /\ \A x \in {} \cup {n} : h[x] \in Int
      BY <2>2, FS_EmptySet
    <3> QED
      BY <3>1, SumAdd
  <2>5. SumFunctionOnSet(h, {}) = 0
    BY SumEmpty
  <2> QED
    BY <2>2, <2>3, <2>4, <2>5, <1>1, OnePrice
<1>8. ASSUME NEW p \in Payments, p # Payment(e)
      PROVE  Credited(p)' = Credited(p)
  <2>1. GrantsFor(p)' = GrantsFor(p) /\ GrantsFor(p) \subseteq DOMAIN grants
    BY <1>2, <1>3, <1>5, <1>8 DEF GrantsFor
  <2>2. \A g \in GrantsFor(p) : h[g] = f[g]
    BY <1>2, <2>1
  <2>3. IsFiniteSet(GrantsFor(p))
    <3>1. 1 \in Int /\ n - 1 \in Int
      BY <1>2
    <3>2. IsFiniteSet(DOMAIN grants)
      BY <1>2, <3>1, FS_Interval
    <3> QED
      BY <2>1, <3>2, FS_Subset
  <2>4. Credited(p)' = SumFunctionOnSet(h, GrantsFor(p))
    BY <2>1 DEF Credited
  <2>5. Credited(p) = SumFunctionOnSet(f, GrantsFor(p))
    BY DEF Credited
  <2> HIDE DEF f, h
  <2> QED
    BY <2>2, <2>3, <2>4, <2>5, SumEqual
<1> QED
  BY <1>6, <1>7, <1>8

\* The books of an event that is handled: what PaymentBook calls Act.
LEMMA HandlingActs ==
  ASSUME Inv, NEW e \in Events, NEW found \in BOOLEAN, Handle(e, found),
         log[e] # "processed",
         log' = [log EXCEPT ![e] = "processed"]
  PROVE  Book!Act(e)
<1> DEFINE handled == {d \in Events : log[d] = "processed"}
           credits == [p \in Payments |-> Credited(p)]
           prices == [p \in Payments |-> PriceOf(p)]
<1>1. log[e] # "processed" /\ log' = [log EXCEPT ![e] = "processed"]
  OBVIOUS
<1>2. e \notin handled /\ handled' = handled \cup {e}
  BY <1>1 DEF Inv, Shape
<1>3. Sold(e) \/ NotSold(e)
  BY HandleSellsOrNot
<1>4. \E n \in 0..2 : facts' = [facts EXCEPT ![e] = n]
  <2>1. facts[e] = 0 /\ facts = [facts EXCEPT ![e] = 0]
    BY <1>1 DEF Inv, Shape, QuietUntilProcessed
  <2>2. Announced(e) \in 0..2
    BY AtMostTwoFacts
  <2>3. facts' = [facts EXCEPT ![e] = Announced(e)] \/ facts' = facts
        \/ facts' = [facts EXCEPT ![e] = 1]
    BY <1>3, <2>1, <2>2 DEF Sold, NotSold
  <2> QED
    BY <2>1, <2>2, <2>3
<1>5. \/ credits' = credits
      \/ \E p \in Payments :
           credits[p] = 0 /\ credits' = [credits EXCEPT ![p] = prices[p]]
  <2>1. CASE grants' = grants
    BY <2>1 DEF Credited, GrantsFor
  <2>2. CASE grants' # grants
    <3>1. Sold(e) /\ e.credits > 0
      BY <1>3, <2>2 DEF Sold, NotSold
    <3>2. Payment(e) \in Payments
      BY <1>1, <3>1 DEF Sold, Payments
    <3>3. /\ Credited(Payment(e)) = 0
          /\ Credited(Payment(e))' = PriceOf(Payment(e))
          /\ \A p \in Payments : p # Payment(e) => Credited(p)' = Credited(p)
      BY <3>1, SaleCredits
    <3>4. Payments' = Payments
      OBVIOUS
    <3> QED
      BY <3>2, <3>3, <3>4
  <2> QED
    BY <2>1, <2>2
<1> QED
  BY <1>1, <1>2, <1>4, <1>5 DEF Book!Act

\* Delivery, redelivery and replay implement a book in which every event is
\* acted on once and every payment is granted once, at the catalogue's price.
THEOREM DeliveryImplementsBook == Spec => ImplementsBook
<1>1. Init => Book!BookInit
  <2> SUFFICES ASSUME Init PROVE Book!BookInit
    OBVIOUS
  <2>1. \A p \in Payments : Credited(p) = 0
    BY NothingCredited DEF Init, GrantsFor
  <2> QED
    BY <2>1 DEF Init, Book!BookInit
<1>2. Inv /\ [Next]_vars => [Book!BookNext]_Book!bookVars
  <2> SUFFICES ASSUME Inv, [Next]_vars PROVE [Book!BookNext]_Book!bookVars
    OBVIOUS
  <2>1. CASE \E w \in Workers : Apply(w)
    <3>1. PICK w \in Workers : Apply(w)
      BY <2>1
    <3>2. PICK e \in Events, found \in BOOLEAN :
            /\ e = at[w].event /\ Handle(e, found)
            /\ log' = [log EXCEPT ![e] = "processed"]
      BY <3>1, HandlesAnEvent DEF Inv
    <3>3. log[e] # "processed"
      BY <3>1, <3>2 DEF Apply, Inv, OneHandler
    <3>4. Book!Act(e)
      BY <3>2, <3>3, HandlingActs
    <3> QED
      BY <3>4 DEF Book!BookNext
  <2>2. CASE ~ \E w \in Workers : Apply(w)
    <3>1. BooksUntouched
      BY <2>2, OthersLeaveBooks
    <3> QED
      BY <3>1 DEF BooksUntouched, book, Book!bookVars, Credited, GrantsFor
  <2> QED
    BY <2>1, <2>2
<1> QED
  BY <1>1, <1>2, InitInv, NextKeepsInv, PTL DEF Spec, ImplementsBook, Book!BookSpec

-------------------------------------------------------------------------------
(***************************************************************************)
(* What is taken back of a grant.  A claim of a refund or a dispute comes  *)
(* with a grant that recorded its payment, so a grant that is made later   *)
(* is of another payment and has not been refunded before.                 *)
(***************************************************************************)
RowsOn(rows) == [event : Events, grant : rows, credits : Nat, undone : BOOLEAN]

RowsSound ==
  /\ IsFiniteSet(clawbacks)
  /\ clawbacks \subseteq RowsOn(DOMAIN grants)
  /\ \A c \in clawbacks : EventClaim(c.event) \in claims
  /\ \A g \in DOMAIN grants : \E d \in Events :
       d.type \in Sales /\ d.ok /\ grants[g] = Grant(d)
  /\ \A e \in Events :
       e.type \in TakesBack /\ EventClaim(e) \in claims => GrantsOf(e) # {}

RowsOf(g) == {c \in clawbacks : c.grant = g /\ ~c.undone}
Standing(g) == \A c \in clawbacks : c.grant = g => ~c.undone

\* What the largest claimant says, or nothing where there is none.
Covers(n, g) ==
  /\ n = 0 \/ \E e \in Claimants(g) : Target(e, g) = n
  /\ \A e \in Claimants(g) : Target(e, g) <= n

Covered == \A g \in DOMAIN grants : Standing(g) => Covers(ClawedBack(g), g)

TakenInv == RowsSound /\ Covered

\* A refund takes back whole credits (_clawback_credits).
LEMMA TargetIsNat ==
  ASSUME Inv, NEW e \in Events, NEW g \in DOMAIN grants
  PROVE  Target(e, g) \in Nat
<1>1. PICK n \in Nat : n = grants[g].credits
  <2>1. grants[g] \in GrantRow
    BY DEF Inv, Shape
  <2> QED
    BY <2>1 DEF GrantRow
<1>2. e.part \in Nat /\ e.whole \in Nat
  BY EventsAssumption
<1>3. CASE e.type = "refund" /\ 0 < e.part /\ e.part < e.whole
  <2>1. n * e.part \in Int
    BY <1>1, <1>2
  <2>2. Rounded(n * e.part, e.whole) \in Int
    BY <1>2, <1>3, <2>1 DEF Rounded
  <2>3. Larger(1, Smaller(n, Rounded(n * e.part, e.whole))) \in Nat
    BY <1>1, <2>2 DEF Larger, Smaller
  <2> QED
    BY <1>1, <1>3, <2>3 DEF Target
<1>4. CASE ~(e.type = "refund" /\ 0 < e.part /\ e.part < e.whole)
  BY <1>1, <1>4 DEF Target
<1> QED
  BY <1>3, <1>4

\* The largest of a set, whatever else is in it.
LEMMA MaxIs ==
  ASSUME NEW S \in SUBSET Int, NEW m \in S, \A x \in S : x <= m
  PROVE  Max(S) = m
<1> DEFINE M == CHOOSE x \in S : \A y \in S : x >= y
<1>1. M \in S /\ \A y \in S : M >= y
  <2>1. \E x \in S : \A y \in S : x >= y
    OBVIOUS
  <2> QED
    BY <2>1, Zenon
<1>2. Max(S) = M
  BY DEF Max
<1> HIDE DEF M
<1> QED
  BY <1>1, <1>2

LEMMA CoveredIsLargest == Inv /\ TakenInv => LargestShareTaken
<1> SUFFICES ASSUME Inv, TakenInv, NEW g \in DOMAIN grants, Standing(g)
             PROVE  ClawedBack(g) = Max({0} \cup {Target(e, g) : e \in Claimants(g)})
  BY DEF LargestShareTaken, Standing
<1> DEFINE S == {0} \cup {Target(e, g) : e \in Claimants(g)}
<1>1. \A e \in Claimants(g) : Target(e, g) \in Nat
  BY TargetIsNat DEF Claimants
<1>2. PICK n : n = ClawedBack(g)
  OBVIOUS
<1>3. Covers(n, g)
  BY <1>2 DEF TakenInv, Covered
<1>4. n \in Nat
  BY <1>1, <1>3 DEF Covers
<1>5. S \in SUBSET Int /\ n \in S
  BY <1>1, <1>3 DEF Covers
<1>6. \A x \in S : x <= n
  BY <1>3, <1>4 DEF Covers
<1> HIDE DEF S
<1>7. Max(S) = n
  BY <1>5, <1>6, MaxIs
<1> QED
  BY <1>2, <1>7 DEF S

\* What is taken back of a grant, as a sum over any function that agrees.
LEMMA SumOfRows ==
  ASSUME NEW S, IsFiniteSet(S), NEW f, \A c \in S : f[c] = c.credits
  PROVE  SumClawbacks(S) = SumFunctionOnSet(f, S)
<1> DEFINE h == [c \in S |-> c.credits]
<1>1. \A c \in S : h[c] = f[c]
  OBVIOUS
<1>2. SumClawbacks(S) = SumFunctionOnSet(h, S)
  BY DEF SumClawbacks, SumFunction
<1> HIDE DEF h
<1> QED
  BY <1>1, <1>2, SumEqual

\* One row more is its credits more.
LEMMA RowAdds ==
  ASSUME NEW S, IsFiniteSet(S), \A c \in S : c.credits \in Nat,
         NEW x, x \notin S, x.credits \in Nat
  PROVE  /\ SumClawbacks(S) \in Nat
         /\ SumClawbacks(S \cup {x}) = SumClawbacks(S) + x.credits
<1> DEFINE f == [c \in S \cup {x} |-> c.credits]
<1>1. /\ \A c \in S \cup {x} : f[c] = c.credits /\ f[c] \in Nat
      /\ f[x] = x.credits
  OBVIOUS
<1>2. IsFiniteSet(S \cup {x})
  BY FS_AddElement
<1> HIDE DEF f
<1>3. /\ SumClawbacks(S) = SumFunctionOnSet(f, S)
      /\ SumClawbacks(S \cup {x}) = SumFunctionOnSet(f, S \cup {x})
  BY <1>1, <1>2, SumOfRows
<1>4. SumFunctionOnSet(f, S) \in Nat
  BY <1>1, SumNat
<1>5. SumFunctionOnSet(f, S \cup {x}) = SumFunctionOnSet(f, S) + f[x]
  <2>1. \A c \in S \cup {x} : f[c] \in Int
    BY <1>1
  <2> QED
    BY <2>1, SumAdd
<1> QED
  BY <1>1, <1>3, <1>4, <1>5

\* What was taken back is a number of credits.
LEMMA RowsCount ==
  ASSUME NEW S, IsFiniteSet(S), \A c \in S : c.credits \in Nat
  PROVE  SumClawbacks(S) \in Nat
<1> DEFINE f == [c \in S |-> c.credits]
<1>1. \A c \in S : f[c] = c.credits /\ f[c] \in Nat
  OBVIOUS
<1> HIDE DEF f
<1>2. SumClawbacks(S) = SumFunctionOnSet(f, S)
  BY <1>1, SumOfRows
<1> QED
  BY <1>1, <1>2, SumNat

\* Nothing was granted and nothing taken back.
LEMMA InitTaken == Init => TakenInv
<1> SUFFICES ASSUME Init PROVE TakenInv
  OBVIOUS
<1> QED
  BY FS_EmptySet DEF Init, TakenInv, RowsSound, Covered

\* The claim of a sale is no claim of an event.
LEMMA SaleClaimsNoEvent ==
  ASSUME NEW e, NEW d, EventClaim(d) \in claims \cup {SaleClaim(e)}
  PROVE  EventClaim(d) \in claims
BY ScopesDiffer DEF SaleClaim

\* A step that changes no row and adds no claim of an event, and keeps every
\* grant, leaves what was taken of the grants there were as it was.
LEMMA OldGrantsKept ==
  ASSUME TakenInv, clawbacks' = clawbacks, claims \subseteq claims',
         \A e \in Events : EventClaim(e) \in claims' => EventClaim(e) \in claims,
         DOMAIN grants \subseteq DOMAIN grants',
         \A g \in DOMAIN grants : grants'[g] = grants[g],
         NEW g \in DOMAIN grants, Standing(g)'
  PROVE  Covers(ClawedBack(g), g)'
<1>1. ClawedBack(g)' = ClawedBack(g) /\ Standing(g)
  BY DEF ClawedBack, SumClawbacks, Standing
<1>2. Claimants(g)' = Claimants(g)
  BY DEF Claimants, EventClaim
<1>3. \A e \in Claimants(g) : Target(e, g)' = Target(e, g)
  BY DEF Target, Larger, Smaller, Rounded
<1>4. Covers(ClawedBack(g), g)
  BY <1>1 DEF TakenInv, Covered
<1> QED
  BY <1>1, <1>2, <1>3, <1>4 DEF Covers

\* Nor do events that touch neither grants nor what was taken back.
LEMMA BooksKeepTaken ==
  ASSUME TakenInv, clawbacks' = clawbacks, claims \subseteq claims', grants' = grants,
         \A e \in Events : EventClaim(e) \in claims' => EventClaim(e) \in claims
  PROVE  TakenInv'
<1>1. RowsSound'
  BY DEF TakenInv, RowsSound, RowsOn, EventClaim, Grant, Payment, GrantsOf
<1>2. \A g \in DOMAIN grants' : Standing(g)' => Covers(ClawedBack(g), g)'
  BY OldGrantsKept
<1> QED
  BY <1>1, <1>2 DEF TakenInv, Covered

\* A new grant is of a payment nothing was taken back for.
LEMMA SaleKeepsTaken ==
  ASSUME Inv, TakenInv, NEW e \in Events, e.type \in Sales, e.ok,
         SaleClaim(e) \notin claims, Sell(e)
  PROVE  TakenInv'
<1>1. /\ claims' = claims \cup {SaleClaim(e)} /\ clawbacks' = clawbacks
      /\ grants' = IF e.credits > 0 THEN Append(grants, Grant(e)) ELSE grants
  BY DEF Sell
<1>2. claims \subseteq claims'
      /\ \A d \in Events : EventClaim(d) \in claims' => EventClaim(d) \in claims
  BY <1>1, SaleClaimsNoEvent
<1>3. CASE grants' = grants
  BY <1>1, <1>2, <1>3, BooksKeepTaken
<1>4. CASE grants' = Append(grants, Grant(e))
  <2>1. PICK n \in Nat : n = Len(grants) + 1
    BY DEF Inv, Shape
  <2>2. /\ DOMAIN grants' = DOMAIN grants \cup {n} /\ n \notin DOMAIN grants
        /\ \A g \in DOMAIN grants : grants'[g] = grants[g]
        /\ grants'[n] = Grant(e)
    BY <1>4, <2>1 DEF Inv, Shape
  <2>3. \A g \in DOMAIN grants : grants[g].pays # e.pays
    <3> SUFFICES ASSUME NEW g \in DOMAIN grants, grants[g].pays = e.pays PROVE FALSE
      OBVIOUS
    <3>1. PICK d \in Events : d.type \in Sales /\ d.ok /\ grants[g] = Grant(d)
      BY DEF TakenInv, RowsSound
    <3>2. d.pays = e.pays /\ grants[g].payment = Payment(d)
      BY <3>1 DEF Grant
    <3>3. Payment(d) = Payment(e)
      BY <3>1, <3>2, PaymentsAssumption
    <3> QED
      BY <3>2, <3>3 DEF Inv, ClaimsBacked, SaleClaim
  <2>4. \A d \in Events : d.type \in TakesBack /\ EventClaim(d) \in claims => d.pays # e.pays
    BY <2>3 DEF TakenInv, RowsSound, GrantsOf
  <2>5. RowsSound'
    <3>1. \A g \in DOMAIN grants' : \E d \in Events :
            d.type \in Sales /\ d.ok /\ grants'[g] = Grant(d)
      BY <2>2 DEF TakenInv, RowsSound
    <3>2. \A d \in Events : GrantsOf(d) # {} => GrantsOf(d)' # {}
      BY <2>2 DEF GrantsOf
    <3>3. \A d \in Events :
            d.type \in TakesBack /\ EventClaim(d) \in claims' => GrantsOf(d)' # {}
      BY <1>2, <3>2 DEF TakenInv, RowsSound
    <3>4. /\ clawbacks' \subseteq RowsOn(DOMAIN grants')
          /\ \A c \in clawbacks' : EventClaim(c.event) \in claims'
      BY <1>1, <1>2, <2>2 DEF TakenInv, RowsSound, RowsOn
    <3>5. IsFiniteSet(clawbacks')
      BY <1>1 DEF TakenInv, RowsSound
    <3> QED
      BY <3>1, <3>3, <3>4, <3>5 DEF RowsSound, RowsOn, EventClaim, Grant, Payment, GrantsOf
  <2>6. \A g \in DOMAIN grants : Standing(g)' => Covers(ClawedBack(g), g)'
    BY <1>1, <1>2, <2>2, OldGrantsKept
  <2>7. Covers(ClawedBack(n), n)'
    <3>1. Claimants(n)' = {}
      BY <1>2, <2>2, <2>4 DEF Claimants, Grant, EventClaim
    <3>2. {c \in clawbacks' : c.grant = n /\ ~c.undone} = {}
      BY <1>1, <2>2 DEF TakenInv, RowsSound, RowsOn
    <3>3. SumClawbacks({}) = 0
      BY SumEmpty DEF SumClawbacks, SumFunction
    <3>4. ClawedBack(n)' = 0
      BY <3>2, <3>3 DEF ClawedBack, SumClawbacks
    <3> QED
      BY <3>1, <3>4 DEF Covers
  <2> QED
    BY <2>2, <2>5, <2>6, <2>7 DEF TakenInv, Covered
<1> QED
  BY <1>1, <1>3, <1>4

\* The row a claimant adds for a grant.
NewRow(e, g) == [event |-> e, grant |-> g, credits |-> StillToTake(e, g), undone |-> FALSE]

\* A claimant brings what is taken back of every grant up to its share.
LEMMA TakeBackKeepsTaken ==
  ASSUME Inv, TakenInv, NEW e \in Events, e.type \in TakesBack,
         GrantsOf(e) # {}, EventClaim(e) \notin claims, TakeBack(e, TRUE)
  PROVE  TakenInv'
<1> DEFINE G == {h \in GrantsOf(e) : StillToTake(e, h) > 0}
           R == {NewRow(e, g) : g \in G}
<1>1. /\ claims' = claims \cup {EventClaim(e)} /\ grants' = grants
      /\ clawbacks' = clawbacks \cup R
  BY DEF TakeBack, NewRow
<1>2. \A d \in Events : EventClaim(d) \in claims' <=> d = e \/ EventClaim(d) \in claims
  BY <1>1, IdsAssumption DEF EventClaim
<1>3. \A c \in clawbacks : c.event # e
  BY DEF TakenInv, RowsSound
<1>4. ASSUME NEW g \in DOMAIN grants
      PROVE  /\ IsFiniteSet(RowsOf(g)) /\ \A c \in RowsOf(g) : c.credits \in Nat
             /\ ClawedBack(g) = SumClawbacks(RowsOf(g)) /\ ClawedBack(g) \in Nat
             /\ StillToTake(e, g) = Target(e, g) - ClawedBack(g)
             /\ Target(e, g) \in Nat /\ StillToTake(e, g) \in Int
  <2>1. IsFiniteSet(RowsOf(g)) /\ \A c \in RowsOf(g) : c.credits \in Nat
    <3>1. RowsOf(g) \subseteq clawbacks
      BY DEF RowsOf
    <3> QED
      BY <3>1, FS_Subset DEF TakenInv, RowsSound, RowsOn
  <2>2. ClawedBack(g) = SumClawbacks(RowsOf(g))
    BY DEF ClawedBack, RowsOf
  <2>3. SumClawbacks(RowsOf(g)) \in Nat
    BY <2>1, RowsCount
  <2>4. Target(e, g) \in Nat
    BY TargetIsNat
  <2> QED
    BY <2>1, <2>2, <2>3, <2>4 DEF StillToTake
<1>5. RowsSound'
  <2>1. G \subseteq DOMAIN grants /\ IsFiniteSet(G)
    <3>1. G \subseteq DOMAIN grants
      BY DEF GrantsOf
    <3>2. IsFiniteSet(DOMAIN grants)
      <4>1. PICK n \in Nat : DOMAIN grants = 1..n
        BY DEF Inv, Shape
      <4> QED
        BY <4>1, FS_Interval
    <3> QED
      BY <3>1, <3>2, FS_Subset
  <2>2. IsFiniteSet(R)
    <3> DEFINE f == [g \in G |-> NewRow(e, g)]
    <3>1. f \in Surjection(G, R)
      BY DEF Surjection
    <3> HIDE DEF f, G, R
    <3> QED
      BY <2>1, <3>1, FS_Surjection
  <2>3. IsFiniteSet(clawbacks')
    <3> HIDE DEF R
    <3> QED
      BY <1>1, <2>2, FS_Union DEF TakenInv, RowsSound
  <2>4. R \subseteq RowsOn(DOMAIN grants) /\ \A c \in R : c.event = e
    <3>1. ASSUME NEW g \in G
          PROVE  NewRow(e, g) \in RowsOn(DOMAIN grants) /\ NewRow(e, g).event = e
      <4>1. g \in DOMAIN grants /\ StillToTake(e, g) \in Nat
        BY <1>4, <2>1
      <4> QED
        BY <4>1 DEF NewRow, RowsOn
    <3> HIDE DEF G
    <3> QED
      BY <3>1
  <2>5. /\ clawbacks' \subseteq RowsOn(DOMAIN grants')
        /\ \A c \in clawbacks' : EventClaim(c.event) \in claims'
    <3> HIDE DEF R
    <3> QED
      BY <1>1, <2>4 DEF TakenInv, RowsSound
  <2>6. \A d \in Events :
          d.type \in TakesBack /\ EventClaim(d) \in claims' => GrantsOf(d)' # {}
    BY <1>1, <1>2 DEF TakenInv, RowsSound, GrantsOf
  <2>7. \A g \in DOMAIN grants' : \E d \in Events :
          d.type \in Sales /\ d.ok /\ grants'[g] = Grant(d)
    BY <1>1 DEF TakenInv, RowsSound
  <2> QED
    BY <2>3, <2>5, <2>6, <2>7 DEF RowsSound, RowsOn, EventClaim, Grant, Payment, GrantsOf
<1>6. ASSUME NEW g \in DOMAIN grants, Standing(g)'
      PROVE  Covers(ClawedBack(g), g)'
  <2>1. Standing(g)
    BY <1>1, <1>6 DEF Standing
  <2>2. \A d \in Events : Target(d, g)' = Target(d, g)
    BY <1>1 DEF Target, Larger, Smaller, Rounded
  <2>3. ClawedBack(g)' = SumClawbacks({c \in clawbacks' : c.grant = g /\ ~c.undone})
    BY DEF ClawedBack, SumClawbacks
  <2>4. Covers(ClawedBack(g), g)
    BY <2>1 DEF TakenInv, Covered
  <2>5. CASE g \in G
    <3>1. \A c \in R : c.grant = g <=> c = NewRow(e, g)
      BY DEF NewRow
    <3>2. NewRow(e, g) \in R /\ ~NewRow(e, g).undone /\ NewRow(e, g).grant = g
          /\ NewRow(e, g).event = e /\ NewRow(e, g).credits = StillToTake(e, g)
      BY <2>5 DEF NewRow
    <3>3. {c \in clawbacks' : c.grant = g /\ ~c.undone} = RowsOf(g) \cup {NewRow(e, g)}
      <4> HIDE DEF R
      <4> QED
        BY <1>1, <3>1, <3>2 DEF RowsOf
    <3>4. NewRow(e, g) \notin RowsOf(g)
      BY <1>3, <3>2 DEF RowsOf
    <3>5. StillToTake(e, g) \in Nat /\ StillToTake(e, g) > 0
      BY <1>4, <2>5
    <3>6. SumClawbacks(RowsOf(g) \cup {NewRow(e, g)}) = SumClawbacks(RowsOf(g)) + StillToTake(e, g)
      BY <1>4, <3>2, <3>4, <3>5, RowAdds
    <3>7. ClawedBack(g)' = Target(e, g) /\ Target(e, g) > ClawedBack(g)
      <4>1. PICK a, t, d : /\ a = ClawedBack(g) /\ t = Target(e, g) /\ d = StillToTake(e, g)
        OBVIOUS
      <4>2. a \in Nat /\ t \in Nat /\ d \in Nat /\ d > 0 /\ d = t - a
        BY <1>4, <3>5, <4>1
      <4>3. ClawedBack(g)' = a + d
        BY <1>4, <2>3, <3>3, <3>6, <4>1, Zenon
      <4> QED
        BY <4>1, <4>2, <4>3
    <3>8. Claimants(g)' = Claimants(g) \cup {e}
      BY <1>1, <1>2, <2>5 DEF Claimants, GrantsOf, EventClaim
    <3>9. \A d \in Claimants(g) : Target(d, g) \in Nat /\ Target(d, g) <= ClawedBack(g)
      BY <2>4, TargetIsNat DEF Covers, Claimants
    <3>10. \A d \in Claimants(g)' : d \in Events /\ Target(d, g) <= Target(e, g)
      BY <1>4, <3>7, <3>8, <3>9 DEF Claimants
    <3>11. e \in Claimants(g)'
      BY <3>8
    <3> QED
      BY <2>2, <3>7, <3>10, <3>11 DEF Covers
  <2>6. CASE g \notin G
    <3>1. \A c \in R : c.grant # g
      BY <2>6 DEF NewRow
    <3>2. {c \in clawbacks' : c.grant = g /\ ~c.undone} = RowsOf(g)
      <4> HIDE DEF R
      <4> QED
        BY <1>1, <3>1 DEF RowsOf
    <3>3. ClawedBack(g)' = ClawedBack(g)
      BY <1>4, <2>3, <3>2
    <3>4. \A d \in Claimants(g)' : d \in Claimants(g) \/ (d = e /\ e.pays = grants[g].pays)
      BY <1>1, <1>2 DEF Claimants, EventClaim
    <3>5. e.pays = grants[g].pays => Target(e, g) <= ClawedBack(g)
      BY <1>4, <2>6 DEF GrantsOf
    <3>6. Claimants(g) \subseteq Claimants(g)' /\ Claimants(g) \subseteq Events
      BY <1>1, <1>2 DEF Claimants, EventClaim
    <3>7. \A d \in Claimants(g)' : d \in Events /\ Target(d, g) <= ClawedBack(g)
      BY <2>4, <3>4, <3>5, <3>6 DEF Covers
    <3> QED
      BY <2>2, <2>4, <3>3, <3>6, <3>7 DEF Covers
  <2> QED
    BY <2>5, <2>6
<1> QED
  BY <1>1, <1>5, <1>6 DEF TakenInv, Covered

\* A won dispute leaves the grants it took nothing from as they were; of the
\* others nothing is said any more.
LEMMA UndisputeKeepsTaken ==
  ASSUME TakenInv, NEW e \in Events, NEW found \in BOOLEAN, e.type = "closed",
         Undispute(e, found)
  PROVE  TakenInv'
<1> DEFINE D == DisputeRows(e)
           Undone(c) == [c EXCEPT !.undone = TRUE]
           U == {Undone(c) : c \in D}
<1>1. CASE UNCHANGED book
  BY <1>1, BooksKeepTaken DEF book
<1>2. CASE ~UNCHANGED book
  <2>1. /\ claims' = claims \cup {EventClaim(e)} /\ grants' = grants
        /\ clawbacks' = (clawbacks \ D) \cup U
    BY <1>2 DEF Undispute
  <2>2. \A d \in Events :
          d.type \in TakesBack => (EventClaim(d) \in claims' <=> EventClaim(d) \in claims)
    BY <2>1, IdsAssumption DEF EventClaim, TakesBack
  <2>3. ASSUME NEW c \in D
        PROVE  /\ c \in clawbacks /\ Undone(c) \in RowsOn(DOMAIN grants)
               /\ Undone(c).event = c.event /\ Undone(c).grant = c.grant /\ Undone(c).undone
    BY DEF DisputeRows, TakenInv, RowsSound, RowsOn
  <2>4. RowsSound'
    <3>1. IsFiniteSet(clawbacks')
      <4>1. IsFiniteSet(clawbacks) /\ D \subseteq clawbacks
        BY DEF DisputeRows, TakenInv, RowsSound
      <4>2. IsFiniteSet(D) /\ IsFiniteSet(clawbacks \ D)
        BY <4>1, FS_Subset
      <4>3. IsFiniteSet(U)
        <5> DEFINE f == [c \in D |-> Undone(c)]
        <5>1. f \in Surjection(D, U)
          BY DEF Surjection
        <5> HIDE DEF f, D, U
        <5> QED
          BY <4>2, <5>1, FS_Surjection
      <4> HIDE DEF D, U
      <4> QED
        BY <2>1, <4>2, <4>3, FS_Union
    <3>2. \A c \in clawbacks' : c \in clawbacks \/ \E d \in D : c = Undone(d)
      BY <2>1
    <3>3. /\ clawbacks' \subseteq RowsOn(DOMAIN grants')
          /\ \A c \in clawbacks' : EventClaim(c.event) \in claims'
      <4> HIDE DEF D, Undone, U
      <4> QED
        BY <2>1, <2>3, <3>2 DEF TakenInv, RowsSound
    <3>4. \A d \in Events :
            d.type \in TakesBack /\ EventClaim(d) \in claims' => GrantsOf(d)' # {}
      BY <2>1, <2>2 DEF TakenInv, RowsSound, GrantsOf
    <3>5. \A g \in DOMAIN grants' : \E d \in Events :
            d.type \in Sales /\ d.ok /\ grants'[g] = Grant(d)
      BY <2>1 DEF TakenInv, RowsSound
    <3> QED
      BY <3>1, <3>3, <3>4, <3>5 DEF RowsSound, RowsOn, EventClaim, Grant, Payment, GrantsOf
  <2>5. ASSUME NEW g \in DOMAIN grants, Standing(g)'
        PROVE  Covers(ClawedBack(g), g)'
    <3>1. \A c \in D : c.grant # g
      <4> SUFFICES ASSUME NEW c \in D, c.grant = g PROVE FALSE
        OBVIOUS
      <4>1. Undone(c) \in clawbacks'
        BY <2>1
      <4> HIDE DEF Undone
      <4> QED
        BY <2>3, <2>5, <4>1 DEF Standing
    <3>2. \A c \in U : c.grant # g
      BY <2>3, <3>1
    <3>3. \A c : c.grant = g => (c \in clawbacks' <=> c \in clawbacks)
      <4> HIDE DEF D, U
      <4> QED
        BY <2>1, <3>1, <3>2
    <3>4. Standing(g) /\ ClawedBack(g)' = ClawedBack(g)
      <4>1. {c \in clawbacks' : c.grant = g /\ ~c.undone} = RowsOf(g)
        BY <3>3 DEF RowsOf
      <4>2. ClawedBack(g) = SumClawbacks(RowsOf(g))
        BY DEF ClawedBack, RowsOf
      <4>3. ClawedBack(g)' = SumClawbacks({c \in clawbacks' : c.grant = g /\ ~c.undone})
        BY DEF ClawedBack, SumClawbacks
      <4> QED
        BY <2>5, <3>3, <4>1, <4>2, <4>3 DEF Standing
    <3>5. Claimants(g)' = Claimants(g) /\ Claimants(g) \subseteq Events
      BY <2>1, <2>2 DEF Claimants, EventClaim
    <3>6. \A d \in Events : Target(d, g)' = Target(d, g)
      BY <2>1 DEF Target, Larger, Smaller, Rounded
    <3>7. Covers(ClawedBack(g), g)
      BY <3>4 DEF TakenInv, Covered
    <3> QED
      BY <3>4, <3>5, <3>6, <3>7 DEF Covers
  <2> QED
    BY <2>1, <2>4, <2>5 DEF TakenInv, Covered
<1> QED
  BY <1>1, <1>2

\* A handler that found the grant of a payment still finds it when it writes.
FoundStands ==
  \A w \in Workers :
    Is(w, "handle") /\ at[w].event.type \in TakesBack /\ at[w].found =>
      GrantsOf(at[w].event) # {}

\* Grants are never taken out of the ledger.
LEMMA GrantsStay ==
  ASSUME Inv, [Next]_vars, NEW e \in Events, GrantsOf(e) # {}
  PROVE  GrantsOf(e)' # {}
<1>1. CASE grants' = grants
  BY <1>1 DEF GrantsOf
<1>2. CASE grants' # grants
  <2>1. PICK w \in Workers : Apply(w)
    BY <1>2, OthersLeaveBooks DEF BooksUntouched, book
  <2>2. PICK d \in Events : Sold(d) \/ NotSold(d)
    BY <2>1, HandlesAnEvent, HandleSellsOrNot DEF Inv
  <2>3. grants' = Append(grants, Grant(d))
    BY <1>2, <2>2 DEF Sold, NotSold
  <2>4. \A g \in DOMAIN grants : g \in DOMAIN grants' /\ grants'[g] = grants[g]
    BY <2>3 DEF Inv, Shape
  <2> QED
    BY <2>4 DEF GrantsOf
<1> QED
  BY <1>1, <1>2

\* A worker that is at its handler was there before, or has just looked.
LEMMA HandlersLooked ==
  ASSUME Inv, [Next]_vars, NEW v \in Workers, Is(v, "handle")'
  PROVE  (Is(v, "handle") /\ at'[v] = at[v]) \/ Look(v)
<1>1. ASSUME NEW w \in Workers, NEW x \in Doing, x.step # "handle",
             at' = [at EXCEPT ![w] = x]
      PROVE  Is(v, "handle") /\ at'[v] = at[v]
  BY <1>1 DEF Inv, Shape, Is
<1>2. ASSUME NEW w \in Workers, Apply(w) PROVE Is(v, "handle") /\ at'[v] = at[v]
  <2>1. Done(w) \in Doing /\ Done(w).step # "handle" /\ at' = [at EXCEPT ![w] = Done(w)]
    BY <1>2, DoneTyped DEF Apply, Is, Inv
  <2> QED
    BY <1>1, <2>1
<1>3. ASSUME NEW w \in Workers, w # v, Look(w)
      PROVE  Is(v, "handle") /\ at'[v] = at[v]
  BY <1>3 DEF Look, Inv, Shape, Is
<1>4. ASSUME NEW w \in Workers, Fail(w) \/ RecordError(w) \/ Answer(w) \/ Die(w)
      PROVE  Is(v, "handle") /\ at'[v] = at[v]
  <2>1. Idle \in Doing /\ Idle.step # "handle"
    BY DEF Doing, Idle
  <2>2. at[w].event \in Events /\ "failed" \in Steps
    BY <1>4, WorksOnAnEvent DEF Fail, RecordError, Answer, Die, Is, Inv, Steps
  <2>3. Busy("failed", at[w].event) \in Doing /\ Busy("failed", at[w].event).step = "failed"
    BY <2>2, BusyTyped
  <2>4. \/ at' = [at EXCEPT ![w] = Idle]
        \/ at' = [at EXCEPT ![w] = Busy("failed", at[w].event)]
    BY <1>4 DEF Fail, RecordError, Answer, Die
  <2> QED
    BY <1>1, <2>1, <2>3, <2>4
<1>5. ASSUME NEW w \in Workers, NEW e \in Events, Receive(w, e) \/ Replay(w, e)
      PROVE  Is(v, "handle") /\ at'[v] = at[v]
  <2>1. PICK step \in {"answer", "apply"} : at' = [at EXCEPT ![w] = Busy(step, e)]
    BY <1>5 DEF Receive, Replay
  <2>2. step \in Steps /\ step # "handle"
    BY DEF Steps
  <2>3. Busy(step, e) \in Doing /\ Busy(step, e).step = step
    BY <2>2, BusyTyped
  <2> QED
    BY <1>1, <2>1, <2>2, <2>3
<1>6. ASSUME NEW e \in Events, GiveUp(e) PROVE Is(v, "handle") /\ at'[v] = at[v]
  BY <1>6 DEF GiveUp, Is
<1>7. CASE UNCHANGED vars
  BY <1>7 DEF vars, Is
<1> QED
  BY <1>2, <1>3, <1>4, <1>5, <1>6, <1>7 DEF Next, Work

LEMMA NextKeepsFound == Inv /\ FoundStands /\ [Next]_vars => FoundStands'
<1> SUFFICES ASSUME Inv, FoundStands, [Next]_vars, NEW v \in Workers, Is(v, "handle")',
                    NEW d, d = at'[v].event, d.type \in TakesBack, at'[v].found
             PROVE  GrantsOf(d)' # {}
  BY DEF FoundStands, GrantsOf
<1>1. CASE Is(v, "handle") /\ at'[v] = at[v]
  <2>1. d \in Events /\ d = at[v].event
    BY <1>1, WorksOnAnEvent DEF Is, Inv
  <2>2. GrantsOf(d) # {}
    BY <1>1, <2>1 DEF FoundStands
  <2> QED
    BY <2>1, <2>2, GrantsStay
<1>2. CASE Look(v)
  <2>1. PICK e \in Events : e = at[v].event /\ ~Is(v, "idle")
    BY <1>2, WorksOnAnEvent DEF Look, Is, Inv
  <2>2. ~Duplicate(e)
    <3>1. Done(v).step # "handle"
      BY <2>1, DoneTyped DEF Inv
    <3> QED
      BY <1>2, <2>1, <3>1 DEF Look, Is, Inv, Shape
  <2>3. at'[v] = [Busy("handle", e) EXCEPT !.found = Finds(e)] /\ UNCHANGED grants
    BY <1>2, <2>1, <2>2 DEF Look, Inv, Shape, book
  <2>4. at'[v].event = e /\ at'[v].found = Finds(e)
    BY <2>3 DEF Busy
  <2>5. d = e /\ GrantsOf(d) # {}
    BY <2>4 DEF Finds, TakesBack
  <2> QED
    BY <2>1, <2>5, GrantsStay
<1> QED
  BY <1>1, <1>2, HandlersLooked

\* Only an event that is handled changes what was taken back.
LEMMA NextKeepsTaken == Inv /\ TakenInv /\ FoundStands /\ [Next]_vars => TakenInv'
<1> SUFFICES ASSUME Inv, TakenInv, FoundStands, [Next]_vars PROVE TakenInv'
  OBVIOUS
<1>1. ASSUME UNCHANGED book PROVE TakenInv'
  BY <1>1, BooksKeepTaken DEF book
<1>2. CASE ~ \E w \in Workers : Apply(w)
  BY <1>1, <1>2, OthersLeaveBooks DEF BooksUntouched
<1>3. CASE \E w \in Workers : Apply(w)
  <2>1. PICK w \in Workers : Apply(w)
    BY <1>3
  <2>2. PICK e \in Events, found \in BOOLEAN :
          e = at[w].event /\ found = at[w].found /\ Handle(e, found) /\ Is(w, "handle")
    BY <2>1, HandlesAnEvent DEF Inv, Apply
  <2>3. CASE e.type \in {"package", "plan"} /\ CheckoutCompleted(e)
    BY <1>1, <2>3, SaleKeepsTaken DEF CheckoutCompleted, Sales
  <2>4. CASE e.type = "renewal" /\ InvoicePaid(e, found)
    BY <1>1, <2>4, SaleKeepsTaken DEF InvoicePaid, Sellable, Sales
  <2>5. CASE e.type \in TakesBack /\ TakeBack(e, found)
    <3>1. CASE found /\ EventClaim(e) \notin claims
      <4>1. GrantsOf(e) # {} /\ found = TRUE
        BY <2>2, <2>5, <3>1 DEF FoundStands
      <4> QED
        BY <2>5, <3>1, <4>1, TakeBackKeepsTaken
    <3>2. CASE ~(found /\ EventClaim(e) \notin claims)
      BY <1>1, <2>5, <3>2 DEF TakeBack
    <3> QED
      BY <3>1, <3>2
  <2>6. CASE e.type = "closed" /\ Undispute(e, found)
    BY <2>6, UndisputeKeepsTaken
  <2>7. CASE e.type = "declined" /\ Report(e, found)
    BY <2>7, BooksKeepTaken DEF Report
  <2> QED
    BY <1>1, <2>2, <2>3, <2>4, <2>5, <2>6, <2>7 DEF Handle
<1> QED
  BY <1>2, <1>3

LEMMA InitFound == Init => FoundStands
BY DEF Init, FoundStands, Is, Idle

\* However refunds, credit notes and disputes of a payment overlap, repeat its
\* running total or come in another order, what stands taken back of its grant is
\* what the largest of them says (_clawback_credits, _claw_back_remaining).
THEOREM LargestShareHolds == Spec => []LargestShareTaken
BY InitInv, NextKeepsInv, InitTaken, NextKeepsTaken, InitFound, NextKeepsFound,
   CoveredIsLargest, PTL DEF Spec
===============================================================================
