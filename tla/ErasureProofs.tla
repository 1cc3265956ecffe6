---------------------------- MODULE ErasureProofs ----------------------------
(***************************************************************************)
(* Erasure keeps its promise for any number of requests, service calls,    *)
(* webhooks, rows and deaths: what a request has not read yet is either    *)
(* still to be erased by it, or gone with the request that detached the    *)
(* wallet or the subscription before it; and what a call that waited for   *)
(* the erasure writes afterwards is nothing of what was there.             *)
(***************************************************************************)
EXTENDS Erasure, TLAPS

Under == {"scrub", "detach", "payloads", "commit"}

\* What a request knows of its transaction.
Going ==
  [step : Under, sub : BOOLEAN, ids : SUBSET Ids,
   wallet : BOOLEAN, table : 1..4, scrubbed : SUBSET Nat, erased : SUBSET Events]
Erasing == {Idle} \cup [step : {"sub"}, sub : BOOLEAN, ids : SUBSET Ids] \cup Going

\* ... and a service call or webhook worker of its own.
Saving == [step : {step \in {"save"} : story.saves}]
Capturing == [step : {"capture"}, hold : DOMAIN rows]
Handles ==
  [step : {"bind", "grant", "give back"}, event : story.events, found : BOOLEAN,
   ids : SUBSET Ids, rows : SUBSET DOMAIN rows]
Calling == {Idle} \cup Saving \cup Capturing \cup Handles

\* How many of the tables a request has been through.
Through(call) == {Tables[i] : i \in 1..(call.table - 1)}

\* The rows and payloads there were that still name the person.
Texts == {k \in 1..first.rows : "before" \in rows[k].text}
Left == payloads \cap first.payloads

\* Nobody writes ids on a row that was looked up before.
NoAdopters == \A e \in story.events : e.kind # "subscription"

Shape ==
  /\ story \in Stories /\ story.events \subseteq Events /\ sub \in SubType
  /\ owned \in BOOLEAN /\ rows \in Seq(RowType)
  /\ log \in [Events -> {"absent", "stored", "processed"}]
  /\ \A e \in Events : log[e] # "absent" => e \in story.events
  /\ payloads \subseteq {e \in Events : log[e] # "absent"}
  /\ at \in [Requests -> Erasing] /\ calls \in [Callers -> Calling]
  /\ first \in [rows : Nat, sub : BOOLEAN, payloads : SUBSET Events, begun : BOOLEAN]
  /\ first.rows <= Len(rows) /\ \A e \in first.payloads : log[e] # "absent"

\* Nothing is detached, and nothing receipted, before the first request began.
BegunFirst ==
  ~first.begun => /\ owned /\ receipts = {} /\ first = NoneYet
                  /\ \A r \in Requests : at[r] = Idle

\* The subscription is detached with its ids, after the payloads they find; the
\* wallet, after the texts of its rows, and only a settings save brings it back.
GoneWithTheirs ==
  /\ first.sub => sub.of # "nobody"
  /\ ~first.sub => first.payloads = {}
  /\ first.sub /\ sub.of = "account" => first.payloads \subseteq NamedBy(sub.ids)
  /\ first.sub /\ sub.of = "erased" => Left = {}
  /\ sub.of = "erased" /\ NoAdopters => sub.ids = {}
  /\ ~owned => Texts = {}
  /\ receipts # {} => /\ Texts = {} /\ Left = {} /\ (first.sub => sub.of = "erased")
                      /\ story.saves \/ ~owned

\* What a request has been through it will erase; what it did not find is gone.
WillErase(call) ==
  /\ call.step # "idle" /\ first.sub =>
       /\ call.sub => first.payloads \subseteq NamedBy(call.ids)
       /\ ~call.sub => sub.of = "erased"
  /\ call.step \in Under =>
       /\ ~call.wallet => Texts = {} /\ (story.saves \/ ~owned)
       /\ call.wallet =>
            \A k \in Texts : rows[k].table \in Through(call) => k \in call.scrubbed
       /\ call.step \in {"detach", "payloads", "commit"} /\ call.wallet =>
            call.table = 4
       /\ call.step = "scrub" => call.wallet /\ call.table \in 1..3
       /\ call.step = "commit" /\ call.sub /\ first.sub => Left \subseteq call.erased

EInv ==
  /\ Shape /\ BegunFirst /\ GoneWithTheirs
  /\ \A r \in Requests : WillErase(at[r])

-------------------------------------------------------------------------------
\* The tables are the three kinds of rows, in the order they are scrubbed.
LEMMA TheTables ==
  /\ Tables[1] = "transaction" /\ Tables[2] = "hold" /\ Tables[3] = "debt"
  /\ Len(Tables) = 3 /\ DOMAIN Tables = 1..3
BY DEF Tables

\* A call under way is one of its kinds.
LEMMA CallKinds ==
  ASSUME NEW call \in Erasing
  PROVE  /\ call.step = "idle" <=> call = Idle
         /\ call.step \in {"idle", "sub"} \cup Under
         /\ call.step # "idle" => call.sub \in BOOLEAN /\ call.ids \in SUBSET Ids
         /\ call.step \in Under =>
              /\ call.wallet \in BOOLEAN /\ call.table \in 1..4
              /\ call.scrubbed \in SUBSET Nat /\ call.erased \in SUBSET Events
BY DEF Erasing, Going, Idle, Under

\* ... and these are all there are.
LEMMA Kinds ==
  /\ Idle \in Erasing
  /\ \A s \in BOOLEAN, i \in SUBSET Ids : [step |-> "sub", sub |-> s, ids |-> i] \in Erasing
  /\ \A t \in Under, s, w \in BOOLEAN, i \in SUBSET Ids, n \in 1..4,
        ks \in SUBSET Nat, es \in SUBSET Events :
       [step |-> t, sub |-> s, ids |-> i, wallet |-> w, table |-> n,
        scrubbed |-> ks, erased |-> es] \in Erasing
BY DEF Erasing, Going, Under

\* Rows are added and closed; what they said stays, and nothing older is added.
Grows ==
  /\ rows' \in Seq(RowType) /\ Len(rows) <= Len(rows')
  /\ \A k \in 1..Len(rows) :
       /\ rows'[k].table = rows[k].table
       /\ first.begun /\ "before" \in rows'[k].text => "before" \in rows[k].text

\* The subscription is bound or gets ids; an erased one, those of an adopter.
Binds ==
  /\ sub' \in SubType /\ sub.ids \subseteq sub'.ids
  /\ sub.of # "nobody" => sub'.of = sub.of
  /\ sub'.of = "erased" => sub.of = "erased"
  /\ sub.of = "erased" /\ NoAdopters => sub' = sub

\* Nothing else becomes of the account, and no event is stored twice.
Outside ==
  /\ UNCHANGED <<story, at, first, receipts>>
  /\ owned' = owned \/ (owned' = TRUE /\ story.saves)
  /\ log' \in [Events -> {"absent", "stored", "processed"}]
  /\ payloads' \subseteq {e \in Events : log'[e] # "absent"}
  /\ \A e \in Events : log'[e] # "absent" => e \in story.events
  /\ \A e \in Events : log[e] # "absent" =>
       log'[e] # "absent" /\ (e \in payloads' <=> e \in payloads)

\* More ids find more payloads.
LEMMA MoreIds ==
  ASSUME NEW ids, NEW more, ids \subseteq more
  PROVE  NamedBy(ids) \subseteq NamedBy(more)
BY DEF NamedBy

\* What happens on the account writes no text of before into a row the erasure has
\* seen, and stores no event twice.
LEMMA AccountStays ==
  ASSUME EInv, Grows, Binds, Outside, calls' \in [Callers -> Calling']
  PROVE  EInv'
<1>1. /\ Shape /\ BegunFirst /\ GoneWithTheirs
      /\ story' = story /\ at' = at /\ first' = first /\ receipts' = receipts
      /\ \A r \in Requests : WillErase(at[r])
  BY DEF EInv, Outside
<1>2. /\ first.rows \in Nat /\ first.payloads \in SUBSET Events
      /\ first.rows <= Len(rows) /\ rows \in Seq(RowType)
      /\ \A e \in first.payloads : log[e] # "absent"
      /\ first.begun \in BOOLEAN /\ owned \in BOOLEAN
  BY <1>1 DEF Shape
<1>3. first.rows <= Len(rows') /\ 1..first.rows \subseteq 1..Len(rows)
  BY <1>2 DEF Grows
<1>4. Texts' \subseteq Texts /\ \A k \in Texts : rows'[k].table = rows[k].table
  <2>1. CASE first.begun
    BY <1>1, <1>3, <2>1 DEF Texts, Grows
  <2>2. CASE ~first.begun
    <3>1. first.rows = 0
      BY <1>1, <2>2 DEF BegunFirst, NoneYet
    <3> QED BY <1>1, <3>1 DEF Texts
  <2> QED BY <2>1, <2>2
<1>5. Left' = Left /\ \A e \in first.payloads : log'[e] # "absent"
  BY <1>1, <1>2 DEF Left, Outside
<1>6. owned' \in BOOLEAN /\ (owned' # owned => story.saves) /\ (owned => owned')
  BY <1>2 DEF Outside
<1>7. Shape'
  BY <1>1, <1>3, <1>5, <1>6, Zenon DEF Shape, Grows, Binds, Outside
<1>8. BegunFirst'
  BY <1>1, <1>6 DEF BegunFirst
<1>9. GoneWithTheirs'
  <2>1. /\ first.sub /\ sub'.of = "account" => first.payloads \subseteq NamedBy(sub'.ids)
        /\ first.sub => sub'.of # "nobody"
    <3>1. NamedBy(sub.ids) \subseteq NamedBy(sub'.ids)
      BY MoreIds DEF Binds
    <3> QED BY <1>1, <3>1 DEF GoneWithTheirs, Binds
  <2>2. /\ first.sub /\ sub'.of = "erased" => Left = {}
        /\ sub'.of = "erased" /\ NoAdopters => sub'.ids = {}
        /\ NoAdopters' = NoAdopters
        /\ receipts # {} => (first.sub => sub'.of = "erased")
    BY <1>1 DEF GoneWithTheirs, Binds, NoAdopters
  <2>3. (~owned' => Texts' = {}) /\ (receipts # {} => Texts' = {} /\ (story.saves \/ ~owned'))
    BY <1>1, <1>2, <1>4, <1>6 DEF GoneWithTheirs
  <2>4. NamedBy(sub.ids)' = NamedBy(sub'.ids)
    BY DEF NamedBy
  <2> QED BY <1>1, <1>5, <2>1, <2>2, <2>3, <2>4 DEF GoneWithTheirs
<1>10. ASSUME NEW r \in Requests PROVE WillErase(at[r])'
  <2>1. PICK call : call = at[r] /\ WillErase(call)
    BY <1>1
  <2>2. sub.of = "erased" => sub'.of = "erased"
    BY DEF Binds
  <2>3. WillErase(call)'
    BY <1>1, <1>4, <1>5, <1>6, <2>1, <2>2 DEF WillErase, Through, NamedBy
  <2> QED BY <1>1, <2>1, <2>3
<1> QED BY <1>1, <1>7, <1>8, <1>9, <1>10, Zenon DEF EInv

\* A request goes on, or is gone.
LEMMA RequestStays ==
  ASSUME EInv, NEW r \in Requests, NEW call \in Erasing, WillErase(call),
         call # Idle => first.begun,
         at' = [at EXCEPT ![r] = call],
         UNCHANGED <<story, sub, owned, rows, inbox, calls, receipts, first>>
  PROVE  EInv'
<1>1. /\ Shape /\ BegunFirst /\ GoneWithTheirs
      /\ story' = story /\ sub' = sub /\ owned' = owned /\ first' = first
      /\ receipts' = receipts /\ rows' = rows /\ log' = log /\ payloads' = payloads
      /\ calls' = calls /\ Calling' = Calling
      /\ \A q \in Requests : WillErase(at[q])
  BY DEF EInv, inbox, Calling, Saving, Capturing, Handles
<1>2. at \in [Requests -> Erasing]
  BY <1>1, Zenon DEF Shape
<1>3. /\ at' \in [Requests -> Erasing] /\ at'[r] = call
      /\ \A q \in Requests : q # r => at'[q] = at[q]
  BY <1>2
<1>4. Shape' /\ GoneWithTheirs'
  BY <1>1, <1>3 DEF Shape, GoneWithTheirs, Texts, Left, NoAdopters, NamedBy
<1>5. BegunFirst'
  BY <1>1, <1>3 DEF BegunFirst
<1>6. ASSUME NEW q \in Requests PROVE WillErase(at[q])'
  <2>1. PICK c : c = at'[q]
    OBVIOUS
  <2>2. WillErase(c)
    BY <1>1, <1>3, <2>1, Zenon
  <2>3. WillErase(c)'
    BY <1>1, <2>2 DEF WillErase, Through, Texts, Left, NamedBy
  <2> QED BY <2>1, <2>3
<1> QED BY <1>4, <1>5, <1>6, Zenon DEF EInv

\* A row at the end, of one of the tables.
LEMMA AddedRow ==
  ASSUME Shape, NEW row \in RowType, NEW rs \in Seq(RowType), Len(rows) <= Len(rs),
         \A k \in 1..Len(rows) :
           /\ rs[k].table = rows[k].table
           /\ first.begun /\ "before" \in rs[k].text => "before" \in rows[k].text,
         rows' = Append(rs, row)
  PROVE  Grows
BY DEF Shape, Grows

\* A row at the end, and nothing else.
LEMMA AppendedRow ==
  ASSUME Shape, NEW row \in RowType, rows' = Append(rows, row)
  PROVE  Grows
<1>1. rows \in Seq(RowType) /\ Len(rows) \in Nat
  BY DEF Shape
<1>2. /\ rows' \in Seq(RowType) /\ Len(rows') = Len(rows) + 1
      /\ \A k \in 1..Len(rows) : rows'[k] = rows[k]
  BY <1>1
<1> QED BY <1>1, <1>2 DEF Grows

\* Rows that stay what they are.
LEMMA RowsStay ==
  ASSUME Shape, rows' = rows
  PROVE  Grows
BY DEF Shape, Grows

\* Calls under way go on when rows are added; another one begins, or ends.
LEMMA CallsGoOn ==
  ASSUME Shape, Grows, story' = story
  PROVE  /\ Calling \subseteq Calling'
         /\ calls' = calls => calls' \in [Callers -> Calling']
         /\ \A c \in Callers, call \in Calling :
              calls' = [calls EXCEPT ![c] = call] => calls' \in [Callers -> Calling']
         /\ \A c \in Callers : calls' = [calls EXCEPT ![c] = Idle] =>
              calls' \in [Callers -> Calling']
<1>1. DOMAIN rows \subseteq DOMAIN rows'
  BY DEF Shape, Grows
<1>2. Calling \subseteq Calling'
  BY <1>1 DEF Calling, Saving, Capturing, Handles
<1>3. Idle \in Calling
  BY DEF Calling
<1> QED BY <1>2, <1>3 DEF Shape

\* A call's step tells what it is.
LEMMA CallSteps ==
  /\ Idle.step = "idle"
  /\ \A call \in Saving : call.step = "save" /\ story.saves
  /\ \A call \in Capturing : call.step = "capture" /\ call.hold \in DOMAIN rows
  /\ \A call \in Handles :
       /\ call.step \in {"bind", "grant", "give back"} /\ call.event \in story.events
       /\ call.found \in BOOLEAN /\ call.ids \in SUBSET Ids /\ call.rows \in SUBSET DOMAIN rows
<1>1. Idle.step = "idle"
  BY DEF Idle
<1>2. \A call \in Saving : call.step = "save" /\ story.saves
  BY DEF Saving
<1>3. \A call \in Capturing : call.step = "capture" /\ call.hold \in DOMAIN rows
  BY DEF Capturing
<1>4. \A call \in Handles :
        /\ call.step \in {"bind", "grant", "give back"} /\ call.event \in story.events
        /\ call.found \in BOOLEAN /\ call.ids \in SUBSET Ids /\ call.rows \in SUBSET DOMAIN rows
  BY DEF Handles
<1> QED BY <1>1, <1>2, <1>3, <1>4

\* What a handler was given.
LEMMA HandlerKnows ==
  ASSUME Shape, NEW c \in Callers, Handling(c)
  PROVE  /\ calls[c] \in Handles
         /\ calls[c].ids \in SUBSET Ids
         /\ calls[c].event \in story.events /\ calls[c].event \in Events
<1>1. calls[c] \in Calling /\ story.events \subseteq Events
  BY DEF Shape
<1>2. calls[c].step \in {"bind", "grant", "give back"}
  BY DEF Handling
<1> QED BY <1>1, <1>2, CallSteps DEF Calling

\* The inbox and the requests, left alone.
LEMMA OutsideStays ==
  ASSUME Shape, UNCHANGED <<story, owned, inbox, requests>>
  PROVE  Outside
BY DEF Shape, Outside, inbox, requests

\* The subscription, left alone.
LEMMA BindsNothing ==
  ASSUME Shape, sub' = sub
  PROVE  Binds
BY DEF Shape, Binds

\* A handler's transaction commits.
LEMMA HandledStays ==
  ASSUME EInv, NEW c \in Callers, Handling(c), Handled(c), Grows, Binds
  PROVE  EInv'
<1>1. /\ Shape /\ calls[c].event \in story.events
      /\ log' = [log EXCEPT ![calls[c].event] = "processed"]
      /\ calls' = [calls EXCEPT ![c] = Idle]
      /\ UNCHANGED <<story, owned, payloads, at, first, receipts>>
  BY HandlerKnows DEF EInv, Handled, requests
<1>2. Outside
  BY <1>1 DEF Shape, Outside
<1>3. calls' \in [Callers -> Calling']
  BY <1>1, CallsGoOn
<1> QED BY <1>2, <1>3, AccountStays

\* A call or a webhook worker begins, goes on or is rolled back, or nothing happens.
LEMMA BegunCallStays ==
  ASSUME EInv, UNCHANGED <<story, sub, owned, rows, inbox, at, receipts, first>>,
         \/ calls' = calls
         \/ \E c \in Callers, call \in Calling : calls' = [calls EXCEPT ![c] = call]
  PROVE  EInv'
<1>1. Shape /\ Grows /\ Binds
  BY RowsStay, BindsNothing DEF EInv
<1>2. Outside
  BY <1>1 DEF Shape, Outside, inbox
<1>3. calls' \in [Callers -> Calling']
  BY <1>1, CallsGoOn
<1> QED BY <1>1, <1>2, <1>3, AccountStays

\* debit(), hold() and operators write a row.
LEMMA SpendStays ==
  ASSUME EInv, Spend
  PROVE  EInv'
<1>1. /\ Shape /\ rows \in Seq(RowType) /\ calls' = calls /\ story' = story
      /\ Binds /\ Outside
  BY BindsNothing, OutsideStays DEF EInv, Shape, Spend
<1>2. PICK w \in Written :
        rows' = Append(rows, Row(w[1], {t \in {Era} : w[2]}, w[3], w[1] = "hold"))
  BY DEF Spend
<1>3. Row(w[1], {t \in {Era} : w[2]}, w[3], w[1] = "hold") \in RowType
  <2>1. {t \in {Era} : w[2]} \subseteq {"before", "since"}
    BY DEF Era
  <2> QED BY <2>1, MarksAssumption DEF Row, RowType
<1>4. Grows
  BY <1>1, <1>2, <1>3, AppendedRow
<1>5. calls' \in [Callers -> Calling']
  BY <1>1, <1>4, CallsGoOn
<1> QED BY <1>1, <1>4, <1>5, AccountStays

\* capture() writes a row with the hold's text, and closes the hold.
LEMMA CaptureStays ==
  ASSUME EInv, NEW c \in Callers, Capture(c)
  PROVE  EInv'
<1>1. /\ Shape /\ rows \in Seq(RowType) /\ story' = story
      /\ Binds /\ Outside /\ calls' = [calls EXCEPT ![c] = Idle]
  BY BindsNothing, OutsideStays DEF EInv, Shape, Capture
<1>2. PICK h : h = calls[c].hold /\ h \in DOMAIN rows
  <2>1. calls[c] \in Calling /\ calls[c].step = "capture"
    BY <1>1 DEF Shape, Capture
  <2> QED BY <2>1, CallSteps DEF Calling
<1>3. PICK old \in RowType : old = rows[h]
  BY <1>1, <1>2
<1>4. PICK shut, copy : /\ shut = [old EXCEPT !.open = FALSE]
                        /\ copy = [old EXCEPT !.table = Charge, !.open = FALSE]
  OBVIOUS
<1>5. /\ shut \in RowType /\ shut.text = old.text /\ shut.table = old.table
      /\ copy \in RowType
  BY <1>4 DEF RowType, Charge
<1>6. PICK rs : rs = [rows EXCEPT ![h] = shut]
  OBVIOUS
<1>7. rows' = Append(rs, copy)
  BY <1>2, <1>3, <1>4, <1>6 DEF Capture
<1>8. /\ rs \in Seq(RowType) /\ Len(rs) = Len(rows)
      /\ \A k \in 1..Len(rows) : rs[k].text = rows[k].text /\ rs[k].table = rows[k].table
  BY <1>1, <1>2, <1>3, <1>5, <1>6
<1>9. Grows
  <2>1. Len(rows) <= Len(rs)
    BY <1>1, <1>8
  <2> QED BY <1>1, <1>5, <1>7, <1>8, <2>1, AddedRow
<1>10. calls' \in [Callers -> Calling']
  BY <1>1, <1>9, CallsGoOn
<1> QED BY <1>1, <1>9, <1>10, AccountStays

\* A settings save gives the wallet back the user it had read.
LEMMA SaveStays ==
  ASSUME EInv, NEW c \in Callers, Save(c)
  PROVE  EInv'
<1>1. /\ Shape /\ Binds /\ Grows /\ story' = story /\ calls' = [calls EXCEPT ![c] = Idle]
  BY BindsNothing, RowsStay DEF EInv, Save
<1>2. Outside
  <2>1. calls[c] \in Calling /\ calls[c].step = "save"
    BY <1>1 DEF Shape, Save
  <2>2. story.saves
    BY <2>1, CallSteps DEF Calling
  <2> QED BY <1>1, <2>2 DEF Shape, Outside, Save, inbox, requests
<1>3. calls' \in [Callers -> Calling']
  BY <1>1, CallsGoOn
<1> QED BY <1>1, <1>2, <1>3, AccountStays

\* A subscription event writes the ids it has on the row it had found.
LEMMA AdoptStays ==
  ASSUME EInv, NEW c \in Callers, Adopt(c)
  PROVE  EInv'
<1>1. /\ Shape /\ Handling(c) /\ Handled(c) /\ Grows
      /\ calls[c].event.kind = "subscription"
  BY RowsStay DEF EInv, Adopt, Handling
<1>2. calls[c].ids \subseteq Ids /\ calls[c].event \in story.events
  BY <1>1, HandlerKnows
<1>3. sub \in SubType /\ ~NoAdopters
  BY <1>1, <1>2 DEF Shape, NoAdopters
<1>4. CASE calls[c].found
  <2>1. PICK ids : ids = calls[c].ids /\ ids \subseteq Ids
    BY <1>2
  <2>2. sub' = [sub EXCEPT !.ids = @ \cup ids]
    BY <1>4, <2>1 DEF Adopt
  <2>3. sub' \in SubType /\ sub.ids \subseteq sub'.ids /\ sub'.of = sub.of
    BY <1>3, <2>1, <2>2 DEF SubType
  <2>4. Binds
    BY <1>3, <2>3 DEF Binds
  <2> QED BY <1>1, <2>4, HandledStays
<1>5. CASE ~calls[c].found
  <2>1. Binds
    BY <1>1, <1>5, BindsNothing DEF Adopt
  <2> QED BY <1>1, <2>1, HandledStays
<1> QED BY <1>4, <1>5

\* A sale or a checkout grants a payment, and binds the account's subscription.
LEMMA GrantStays ==
  ASSUME EInv, NEW c \in Callers, Grant(c)
  PROVE  EInv'
<1>1. Shape /\ Handling(c) /\ Handled(c) /\ rows \in Seq(RowType) /\ sub \in SubType
  BY DEF EInv, Shape, Grant, Handling
<1>2. Row(Charge, {Era}, NoMark, FALSE) \in RowType
  BY DEF Row, RowType, Charge, Era
<1>3. Grows
  <2>1. CASE owned
    <3>1. rows' = Append(rows, Row(Charge, {Era}, NoMark, FALSE))
      BY <2>1 DEF Grant
    <3> QED BY <1>1, <1>2, <3>1, AppendedRow
  <2>2. CASE ~owned
    BY <1>1, <2>2, RowsStay DEF Grant
  <2> QED BY <2>1, <2>2
<1>4. Binds
  <2>1. CASE calls[c].event.kind = "checkout" /\ sub.of # "erased"
    <3>1. sub' = [of |-> "account", ids |-> Ids]
      BY <2>1 DEF Grant
    <3> QED BY <1>1, <2>1, <3>1 DEF Binds, SubType
  <2>2. CASE ~(calls[c].event.kind = "checkout" /\ sub.of # "erased")
    <3>1. sub' = sub
      BY <2>2 DEF Grant
    <3> QED BY <1>1, <3>1, BindsNothing
  <2> QED BY <2>1, <2>2
<1> QED BY <1>1, <1>3, <1>4, HandledStays

\* A claw-back adds a row, and perhaps a debt.
LEMMA ClawBackStays ==
  ASSUME EInv, NEW c \in Callers, ClawBack(c)
  PROVE  EInv'
<1>1. /\ Shape /\ Handling(c) /\ Handled(c) /\ Binds /\ rows \in Seq(RowType)
  BY BindsNothing DEF EInv, Shape, ClawBack, Handling
<1>2. PICK refund, debt : /\ refund = Row(Charge, {Era}, NoMark, calls[c].event.kind = "dispute")
                          /\ debt = [refund EXCEPT !.table = "debt"]
  OBVIOUS
<1>3. refund \in RowType /\ debt \in RowType
  BY <1>2 DEF Row, RowType, Charge, Era
<1>4. rows' = Append(rows, refund) \/ rows' = Append(Append(rows, refund), debt)
  BY <1>2 DEF ClawBack
<1>5. PICK rs : rs = Append(rows, refund)
  OBVIOUS
<1>6. /\ rs \in Seq(RowType) /\ Len(rows) <= Len(rs)
      /\ \A k \in 1..Len(rows) : rs[k] = rows[k]
  BY <1>1, <1>3, <1>5
<1>7. Grows
  <2>1. CASE rows' = rs
    BY <1>6, <2>1 DEF Grows
  <2>2. CASE rows' = Append(rs, debt)
    BY <1>1, <1>3, <1>6, <2>2, AddedRow
  <2> QED BY <1>4, <1>5, <2>1, <2>2
<1> QED BY <1>1, <1>7, HandledStays

\* A won dispute notes its event in the rows it found, which adds nothing of before
\* once a request has begun.
LEMMA GiveBackStays ==
  ASSUME EInv, NEW c \in Callers, GiveBack(c)
  PROVE  EInv'
<1>1. /\ Shape /\ Handling(c) /\ Handled(c) /\ Binds /\ rows \in Seq(RowType)
      /\ first.begun \in BOOLEAN
  BY BindsNothing DEF EInv, Shape, GiveBack, Handling
<1>2. PICK noted : noted = [k \in DOMAIN rows |->
                     IF k \in calls[c].rows /\ rows[k].open
                       THEN [rows[k] EXCEPT !.text = @ \cup {Era}, !.open = FALSE]
                       ELSE rows[k]]
  OBVIOUS
<1>3. rows' = Append(noted, Row(Charge, {Era}, NoMark, FALSE))
  BY <1>2 DEF GiveBack
<1>4. Row(Charge, {Era}, NoMark, FALSE) \in RowType
  BY DEF Row, RowType, Charge, Era
<1>5. ASSUME NEW k \in DOMAIN rows
      PROVE  /\ noted[k] \in RowType /\ noted[k].table = rows[k].table
             /\ first.begun /\ "before" \in noted[k].text => "before" \in rows[k].text
  <2>1. PICK row \in RowType : row = rows[k]
    BY <1>1
  <2>2. PICK era \in {"before", "since"} : era = Era
    BY DEF Era
  <2>3. first.begun => era = "since"
    BY <2>2 DEF Era
  <2>4. PICK more : more = [row EXCEPT !.text = @ \cup {era}, !.open = FALSE]
    OBVIOUS
  <2>5. /\ more \in RowType /\ more.table = row.table
        /\ more.text = row.text \cup {era}
    BY <2>1, <2>4 DEF RowType
  <2>6. noted[k] = row \/ noted[k] = more
    BY <1>2, <2>1, <2>2, <2>4
  <2> QED BY <2>1, <2>3, <2>5, <2>6
<1>6. noted \in Seq(RowType) /\ Len(noted) = Len(rows)
  <2>1. DOMAIN rows = 1..Len(rows) /\ Len(rows) \in Nat
    BY <1>1
  <2>2. noted \in [1..Len(rows) -> RowType]
    BY <1>2, <1>5, <2>1
  <2> QED BY <2>1, <2>2
<1>7. Grows
  <2>1. /\ Len(rows) <= Len(noted) /\ 1..Len(rows) = DOMAIN rows
    BY <1>1, <1>6
  <2> QED BY <1>1, <1>3, <1>4, <1>5, <1>6, <2>1, AddedRow
<1> QED BY <1>1, <1>7, HandledStays

\* A refund that names nothing changes nothing.
LEMMA UnmatchedStays ==
  ASSUME EInv, NEW c \in Callers, Unmatched(c)
  PROVE  EInv'
BY RowsStay, BindsNothing, HandledStays DEF EInv, Unmatched, Handling

\* A checkout or a won dispute has its first lock.
LEMMA GoesOnStays ==
  ASSUME EInv, NEW c \in Callers, Bind(c) \/ Won(c)
  PROVE  EInv'
<1>1. /\ Handling(c) /\ Shape
      /\ UNCHANGED <<story, sub, owned, rows, inbox, at, receipts, first>>
  BY DEF EInv, Bind, Won, Handling, requests
<1>2. PICK step \in {"grant", "give back"} : calls' = [calls EXCEPT ![c].step = step]
  BY DEF Bind, Won
<1>3. PICK old : old = calls[c]
  OBVIOUS
<1>4. PICK new : new = [old EXCEPT !.step = step]
  OBVIOUS
<1>5. new \in Calling
  BY <1>1, <1>2, <1>3, <1>4, HandlerKnows DEF Calling, Handles
<1>6. calls' = [calls EXCEPT ![c] = new]
  BY <1>2, <1>3, <1>4
<1> QED BY <1>1, <1>5, <1>6, BegunCallStays

\* A payload is stored once, when its event arrives.
LEMMA StoreStays ==
  ASSUME EInv, NEW e \in Events, Store(e)
  PROVE  EInv'
<1>1. /\ Shape /\ Grows /\ Binds /\ calls' = calls /\ e \in story.events
      /\ UNCHANGED <<story, owned, at, first, receipts>>
      /\ log[e] = "absent" /\ log' = [log EXCEPT ![e] = "stored"]
      /\ payloads' = payloads \cup {e}
  BY RowsStay, BindsNothing DEF EInv, Store, requests
<1>2. Outside
  BY <1>1 DEF Shape, Outside
<1>3. calls' \in [Callers -> Calling']
  BY <1>1, CallsGoOn
<1> QED BY <1>1, <1>2, <1>3, AccountStays

\* A request that is under way began after the first of them.
LEMMA UnderWay ==
  ASSUME EInv, NEW r \in Requests, at[r].step # "idle"
  PROVE  /\ first.begun /\ at[r] \in Erasing /\ WillErase(at[r])
         /\ first.rows \in Nat /\ first.rows <= Len(rows) /\ rows \in Seq(RowType)
BY DEF EInv, Shape, BegunFirst, Idle

\* erase_subject() begins: what the first one finds is what is to be erased.
LEMMA BeginStays ==
  ASSUME EInv, NEW r \in Requests, Begin(r)
  PROVE  EInv'
<1> DEFINE call == [step |-> "sub", sub |-> sub.of = "account",
                    ids |-> IF sub.of = "account" THEN sub.ids ELSE {}]
<1>1. /\ Shape /\ BegunFirst /\ GoneWithTheirs /\ at[r] = Idle
      /\ at' = [at EXCEPT ![r] = call]
      /\ UNCHANGED <<story, sub, owned, rows, inbox, calls, receipts>>
  BY DEF EInv, Begin
<1>2. call \in Erasing
  <2>1. call.sub \in BOOLEAN /\ call.ids \in SUBSET Ids
    BY <1>1 DEF Shape, SubType
  <2> QED BY <2>1, Kinds
<1>3. CASE first.begun
  <2>1. first' = first
    BY <1>3 DEF Begin
  <2>2. WillErase(call)
    BY <1>1 DEF WillErase, GoneWithTheirs, Under, Shape, SubType
  <2> QED BY <1>1, <1>2, <1>3, <2>1, <2>2, RequestStays
<1>4. CASE ~first.begun
  <2>1. /\ owned /\ receipts = {} /\ \A q \in Requests : at[q] = Idle
        /\ first' = [rows |-> Len(rows), sub |-> sub.of = "account",
                     payloads |-> IF sub.of = "account" THEN payloads \cap NamedBy(sub.ids)
                                                        ELSE {},
                     begun |-> TRUE]
    BY <1>1, <1>4 DEF BegunFirst, Begin
  <2>2. /\ story' = story /\ sub' = sub /\ owned' = owned /\ rows' = rows /\ log' = log
        /\ payloads' = payloads /\ receipts' = receipts
        /\ calls' = calls /\ Calling' = Calling
    BY <1>1 DEF inbox, Calling, Saving, Capturing, Handles
  <2>3. at' \in [Requests -> Erasing]
    BY <1>1, <1>2 DEF Shape
  <2>4. /\ first'.rows = Len(rows) /\ first'.begun
        /\ first'.sub = (sub.of = "account")
        /\ first'.payloads \subseteq payloads
        /\ first'.sub => first'.payloads \subseteq NamedBy(sub.ids)
        /\ ~first'.sub => first'.payloads = {}
        /\ first' \in [rows : Nat, sub : BOOLEAN, payloads : SUBSET Events, begun : BOOLEAN]
    <3>1. PICK f : f = first'
      OBVIOUS
    <3>2. Len(rows) \in Nat /\ payloads \in SUBSET Events
      BY <1>1 DEF Shape
    <3>3. /\ f = [rows |-> Len(rows), sub |-> sub.of = "account",
                  payloads |-> IF sub.of = "account" THEN payloads \cap NamedBy(sub.ids)
                                                     ELSE {},
                  begun |-> TRUE]
      BY <2>1, <3>1
    <3>4. f.payloads \in SUBSET Events /\ f.sub \in BOOLEAN
      BY <3>2, <3>3
    <3>5. f.rows = Len(rows) /\ f.begun /\ f.sub = (sub.of = "account")
      BY <3>3
    <3>6. /\ f.payloads \subseteq payloads
          /\ sub.of = "account" => f.payloads \subseteq NamedBy(sub.ids)
          /\ sub.of # "account" => f.payloads = {}
      BY <3>3
    <3>7. f \in [rows : Nat, sub : BOOLEAN, payloads : SUBSET Events, begun : BOOLEAN]
      BY <3>2, <3>3, <3>4
    <3> QED BY <3>1, <3>5, <3>6, <3>7
  <2>5. Shape'
    BY <1>1, <2>2, <2>3, <2>4 DEF Shape
  <2>6. BegunFirst'
    BY <2>4 DEF BegunFirst
  <2>7. NamedBy(sub.ids)' = NamedBy(sub.ids) /\ NoAdopters' = NoAdopters
    BY <2>2 DEF NamedBy, NoAdopters
  <2>8. GoneWithTheirs'
    <3>1. PICK f : f = first'
      OBVIOUS
    <3>2. /\ f.sub = (sub.of = "account") /\ (f.sub => f.payloads \subseteq NamedBy(sub.ids))
          /\ ~f.sub => f.payloads = {}
      BY <2>4, <3>1
    <3>3. sub.of = "erased" /\ NoAdopters => sub.ids = {}
      BY <1>1 DEF GoneWithTheirs
    <3> QED BY <2>1, <2>2, <2>7, <3>1, <3>2, <3>3 DEF GoneWithTheirs
  <2>9. ASSUME NEW q \in Requests PROVE WillErase(at[q])'
    <3>1. PICK c : c = at'[q]
      OBVIOUS
    <3>2. c = Idle \/ c = call
      BY <1>1, <2>1, <3>1 DEF Shape
    <3>3. c.step \notin Under
      BY <3>2 DEF Idle, Under
    <3>4. c.step # "idle" /\ first'.sub => c.sub /\ c.ids = sub.ids
      BY <2>4, <3>2 DEF Idle
    <3>5. first'.sub => first'.payloads \subseteq NamedBy(sub.ids)
      BY <2>4
    <3>6. NamedBy(c.ids)' = NamedBy(c.ids)
      BY DEF NamedBy
    <3> QED BY <3>1, <3>3, <3>4, <3>5, <3>6 DEF WillErase
  <2> QED BY <2>5, <2>6, <2>8, <2>9 DEF EInv
<1> QED BY <1>3, <1>4

\* The subscription is detached and the wallet pinned: without a wallet there
\* is no text left, the request that detached it has committed.
LEMMA PinStays ==
  ASSUME EInv, NEW r \in Requests, Pin(r)
  PROVE  EInv'
<1> DEFINE call == [step |-> IF owned THEN "scrub" ELSE "payloads", sub |-> at[r].sub,
                    ids |-> at[r].ids, wallet |-> owned, table |-> 1,
                    scrubbed |-> {}, erased |-> {}]
<1>1. /\ at[r].step = "sub" /\ at' = [at EXCEPT ![r] = call]
      /\ UNCHANGED <<story, sub, owned, rows, inbox, calls, receipts, first>>
  BY DEF Pin, KnownIds
<1>2. first.begun /\ at[r] \in Erasing /\ WillErase(at[r]) /\ owned \in BOOLEAN
  BY <1>1, UnderWay DEF EInv, Shape
<1>3. at[r].sub \in BOOLEAN /\ at[r].ids \in SUBSET Ids
  BY <1>1, <1>2, CallKinds
<1>4. call \in Erasing
  <2>1. call.step \in Under /\ 1 \in 1..4 /\ {} \in SUBSET Nat /\ {} \in SUBSET Events
    BY <1>2 DEF Under
  <2> QED BY <1>2, <1>3, <2>1, Kinds
<1>5. WillErase(call)
  <2>1. Through(call) = {}
    BY DEF Through
  <2>2. /\ first.sub /\ at[r].sub => first.payloads \subseteq NamedBy(at[r].ids)
        /\ first.sub /\ ~at[r].sub => sub.of = "erased"
    BY <1>1, <1>2 DEF WillErase
  <2>3. ~owned => Texts = {}
    BY DEF EInv, GoneWithTheirs
  <2>4. PICK c : c = call
    OBVIOUS
  <2>5. /\ c.step = IF owned THEN "scrub" ELSE "payloads"
        /\ c.sub = at[r].sub /\ c.ids = at[r].ids /\ c.wallet = owned
        /\ c.table = 1 /\ Through(c) = {}
    BY <2>1, <2>4
  <2> QED BY <1>2, <2>2, <2>3, <2>4, <2>5 DEF WillErase
<1> QED BY <1>1, <1>2, <1>4, <1>5, RequestStays

\* A request after its next statement.
After(call, step, n, ks, es) ==
  [call EXCEPT !.step = step, !.table = n, !.scrubbed = ks, !.erased = es]

\* It is under way, and remembers what it has read.
LEMMA GoesOn ==
  ASSUME NEW call \in Erasing, call.step \in Under,
         NEW step \in Under, NEW n \in 1..4, NEW ks \in SUBSET Nat, NEW es \in SUBSET Events,
         NEW new, new = After(call, step, n, ks, es)
  PROVE  /\ new \in Erasing /\ new # Idle
         /\ new.step = step /\ new.table = n /\ new.scrubbed = ks /\ new.erased = es
         /\ new.sub = call.sub /\ new.ids = call.ids /\ new.wallet = call.wallet
<1>1. call \in Going
  BY DEF Erasing, Under, Idle
<1>2. /\ new \in Going
      /\ new.step = step /\ new.table = n /\ new.scrubbed = ks /\ new.erased = es
      /\ new.sub = call.sub /\ new.ids = call.ids /\ new.wallet = call.wallet
  BY <1>1 DEF Going, After
<1>3. new \in Erasing /\ new # Idle
  BY <1>2 DEF Erasing, Idle, Under
<1> QED BY <1>2, <1>3

\* The texts of one table are to be erased with those of the tables before it.
LEMMA ScrubStays ==
  ASSUME EInv, NEW r \in Requests, Scrub(r)
  PROVE  EInv'
<1>1. PICK call : call = at[r]
  OBVIOUS
<1>2. /\ call.step = "scrub" /\ first.begun /\ call \in Erasing /\ WillErase(call)
      /\ first.rows \in Nat /\ first.rows <= Len(rows) /\ rows \in Seq(RowType)
      /\ UNCHANGED <<story, sub, owned, rows, inbox, calls, receipts, first>>
  BY <1>1, UnderWay DEF Scrub
<1>3. /\ first.sub /\ call.sub => first.payloads \subseteq NamedBy(call.ids)
      /\ first.sub /\ ~call.sub => sub.of = "erased"
      /\ call.wallet /\ call.table \in 1..3
      /\ \A k \in Texts : rows[k].table \in Through(call) => k \in call.scrubbed
  BY <1>2 DEF WillErase, Under
<1>4. PICK step, n, ks :
        /\ step = IF call.table = 3 THEN "detach" ELSE "scrub"
        /\ n = call.table + 1 /\ ks = call.scrubbed \cup Dirty(Tables[call.table])
  OBVIOUS
<1>5. step \in Under /\ call.step \in Under /\ n \in 2..4 /\ n \in 1..4
  BY <1>2, <1>3, <1>4 DEF Under
<1>6. ks \in SUBSET Nat /\ call.erased \in SUBSET Events
  <2>1. Dirty(Tables[call.table]) \subseteq Nat
    BY <1>2 DEF Dirty
  <2> QED BY <1>2, <1>4, <1>5, <2>1, CallKinds
<1>7. PICK new : new = After(call, step, n, ks, call.erased)
  OBVIOUS
<1>8. /\ new \in Erasing /\ new.step = step /\ new.table = n /\ new.scrubbed = ks
      /\ new.sub = call.sub /\ new.ids = call.ids /\ new.wallet = call.wallet
  <2>1. /\ call \in Erasing /\ call.step \in Under /\ step \in Under /\ n \in 1..4
        /\ ks \in SUBSET Nat /\ call.erased \in SUBSET Events
    BY <1>2, <1>5, <1>6
  <2>2. call \in Going
    BY <2>1 DEF Erasing, Under, Idle
  <2>3. /\ new \in Going /\ new.step = step /\ new.table = n /\ new.scrubbed = ks
        /\ new.sub = call.sub /\ new.ids = call.ids /\ new.wallet = call.wallet
    BY <1>7, <2>1, <2>2 DEF Going, After
  <2> QED BY <2>3 DEF Erasing
<1>9. at' = [at EXCEPT ![r] = new]
  <2>1. new = [call EXCEPT !.scrubbed = @ \cup Dirty(Tables[call.table]),
                           !.table = @ + 1,
                           !.step = IF call.table = Len(Tables) THEN "detach" ELSE @]
    <3>1. call \in Going
      BY <1>2 DEF Erasing, Idle, Under
    <3> QED BY <1>2, <1>4, <1>7, TheTables, <3>1 DEF Going, After
  <2> QED BY <1>1, <2>1 DEF Scrub
<1>10. \A k \in Texts : rows[k].table \in Through(new) => k \in ks
  <2>1. ASSUME NEW k \in Texts, rows[k].table \in Through(new) PROVE k \in ks
    <3>1. k \in DOMAIN rows /\ rows[k].text # {}
      BY <1>2 DEF Texts
    <3>2. rows[k].table = Tables[call.table] \/ rows[k].table \in Through(call)
      <4>1. PICK i \in 1..(n - 1) : rows[k].table = Tables[i]
        BY <1>8, <2>1 DEF Through
      <4>2. i = call.table \/ i \in 1..(call.table - 1)
        BY <1>3, <1>4, <4>1
      <4> QED BY <4>1, <4>2 DEF Through
    <3> QED BY <1>3, <1>4, <2>1, <3>1, <3>2 DEF Dirty
  <2> QED BY <2>1
<1>11. WillErase(new)
  <2>1. /\ step \in {"scrub", "detach"} /\ (step = "scrub" => n \in 1..3)
        /\ (step = "detach" => n = 4)
    BY <1>3, <1>4
  <2> QED BY <1>3, <1>8, <1>10, <2>1 DEF WillErase
<1> QED BY <1>2, <1>8, <1>9, <1>11, RequestStays

\* The wallet's lock is taken, the texts are known.
LEMMA DetachStays ==
  ASSUME EInv, NEW r \in Requests, Detach(r)
  PROVE  EInv'
<1>1. PICK call : call = at[r]
  OBVIOUS
<1>2. /\ call.step = "detach" /\ first.begun /\ call \in Erasing /\ WillErase(call)
      /\ call.step \in Under
      /\ UNCHANGED <<story, sub, owned, rows, inbox, calls, receipts, first>>
  BY <1>1, UnderWay DEF Detach, Under
<1>3. PICK new : new = After(call, "payloads", call.table, call.scrubbed, call.erased)
  OBVIOUS
<1>4. /\ new \in Erasing /\ new.step = "payloads" /\ new.table = call.table
      /\ new.scrubbed = call.scrubbed
      /\ new.sub = call.sub /\ new.ids = call.ids /\ new.wallet = call.wallet
  <2>1. /\ call \in Erasing /\ call.step \in Under
        /\ call.table \in 1..4 /\ call.scrubbed \in SUBSET Nat
        /\ call.erased \in SUBSET Events
    BY <1>2, CallKinds
  <2>2. "payloads" \in Under
    BY DEF Under
  <2> QED BY <1>3, <2>1, <2>2, GoesOn
<1>5. at' = [at EXCEPT ![r] = new]
  <2>1. new = [call EXCEPT !.step = "payloads"]
    <3>1. call \in Going
      BY <1>2 DEF Erasing, Idle, Under
    <3> QED BY <1>2, <1>3, <3>1 DEF Going, After
  <2> QED BY <1>1, <2>1 DEF Detach
<1>6. WillErase(new)
  BY <1>2, <1>4 DEF WillErase, Under, Through
<1> QED BY <1>2, <1>4, <1>5, <1>6, RequestStays

\* The payloads of the ids the request remembered.
LEMMA ScrubPayloadsStays ==
  ASSUME EInv, NEW r \in Requests, ScrubPayloads(r)
  PROVE  EInv'
<1>1. PICK call : call = at[r]
  OBVIOUS
<1>2. /\ call.step = "payloads" /\ first.begun /\ call \in Erasing /\ WillErase(call)
      /\ call.step \in Under
      /\ UNCHANGED <<story, sub, owned, rows, inbox, calls, receipts, first>>
  BY <1>1, UnderWay DEF ScrubPayloads, Under
<1>3. /\ Known(r) \in SUBSET Events
      /\ call.sub /\ first.sub => Left \subseteq Known(r)
  <2>1. call.sub /\ first.sub => first.payloads \subseteq NamedBy(call.ids)
    BY <1>2 DEF WillErase
  <2> QED BY <1>1, <2>1 DEF Known, EInv, Shape, Left
<1>4. PICK new : new = After(call, "commit", call.table, call.scrubbed, Known(r))
  OBVIOUS
<1>5. /\ new \in Erasing /\ new.step = "commit" /\ new.table = call.table
      /\ new.scrubbed = call.scrubbed /\ new.erased = Known(r)
      /\ new.sub = call.sub /\ new.ids = call.ids /\ new.wallet = call.wallet
  <2>1. /\ call \in Erasing /\ call.step \in Under
        /\ call.table \in 1..4 /\ call.scrubbed \in SUBSET Nat
        /\ call.erased \in SUBSET Events
    BY <1>2, CallKinds
  <2>2. "commit" \in Under
    BY DEF Under
  <2> QED BY <1>3, <1>4, <2>1, <2>2, GoesOn
<1>6. at' = [at EXCEPT ![r] = new]
  <2>1. new = [call EXCEPT !.step = "commit", !.erased = Known(r)]
    <3>1. call \in Going
      BY <1>2 DEF Erasing, Idle, Under
    <3> QED BY <1>2, <1>4, <3>1 DEF Going, After
  <2> QED BY <1>1, <2>1 DEF ScrubPayloads
<1>7. WillErase(new)
  BY <1>2, <1>3, <1>5 DEF WillErase, Under, Through, Left
<1> QED BY <1>2, <1>5, <1>6, <1>7, RequestStays

\* The transaction commits: what the request has been through is gone, and what
\* it has not was gone before.
LEMMA CommitStays ==
  ASSUME EInv, NEW r \in Requests, Commit(r)
  PROVE  EInv'
<1>1. PICK call : call = at[r]
  OBVIOUS
<1>2. /\ call.step = "commit" /\ first.begun /\ call \in Erasing /\ WillErase(call)
      /\ call.step \in Under /\ Shape /\ GoneWithTheirs
      /\ story' = story /\ log' = log /\ calls' = calls /\ first' = first
      /\ at' = [at EXCEPT ![r] = Idle]
      /\ receipts' = receipts \cup {r} /\ payloads' = payloads \ call.erased
      /\ sub' = (IF call.sub THEN [of |-> "erased", ids |-> {}] ELSE sub)
      /\ owned' = (owned /\ ~call.wallet)
  BY <1>1, UnderWay DEF Commit, Under, Receipted, EInv
<1>3. /\ rows' = [k \in DOMAIN rows |->
           IF k \in call.scrubbed THEN [rows[k] EXCEPT !.text = {}, !.mark = NoMark]
                                  ELSE rows[k]]
  BY <1>1, <1>2 DEF Commit
<1>12. rows \in Seq(RowType)
  BY <1>2 DEF Shape
<1>4. /\ rows' \in Seq(RowType) /\ Len(rows') = Len(rows) /\ DOMAIN rows' = DOMAIN rows
      /\ \A k \in 1..Len(rows) :
           /\ rows'[k].table = rows[k].table
           /\ "before" \in rows'[k].text =>
                "before" \in rows[k].text /\ k \notin call.scrubbed
  <2>1. ASSUME NEW row \in RowType
        PROVE  [row EXCEPT !.text = {}, !.mark = NoMark] \in RowType
    BY DEF RowType
  <2>3. /\ DOMAIN rows = 1..Len(rows) /\ Len(rows) \in Nat
        /\ \A k \in DOMAIN rows : rows[k] \in RowType
    BY <1>12
  <2>2. \A k \in DOMAIN rows : rows'[k] \in RowType
    BY <1>3, <2>1, <2>3
  <2>4. \A k \in DOMAIN rows : k \in call.scrubbed =>
          rows'[k].text = {} /\ rows'[k].table = rows[k].table
    <3>1. ASSUME NEW k \in DOMAIN rows, k \in call.scrubbed
          PROVE  rows'[k].text = {} /\ rows'[k].table = rows[k].table
      <4>1. PICK row \in RowType : row = rows[k]
        BY <2>3
      <4>2. rows'[k] = [row EXCEPT !.text = {}, !.mark = NoMark]
        BY <1>3, <3>1, <4>1
      <4> QED BY <4>1, <4>2 DEF RowType
    <3> QED BY <3>1
  <2>5. \A k \in DOMAIN rows : k \notin call.scrubbed => rows'[k] = rows[k]
    BY <1>3
  <2>6. rows' \in Seq(RowType) /\ Len(rows') = Len(rows) /\ DOMAIN rows' = DOMAIN rows
    <3>1. rows' = [k \in 1..Len(rows) |-> rows'[k]]
      BY <1>3, <2>3
    <3>2. PICK f : f = rows'
      OBVIOUS
    <3>3. f \in [1..Len(rows) -> RowType]
      BY <2>2, <2>3, <3>1, <3>2
    <3> QED BY <2>3, <3>2, <3>3
  <2> QED BY <2>3, <2>4, <2>5, <2>6
<1>5. Texts' \subseteq Texts /\ Texts' \cap call.scrubbed = {}
  BY <1>2, <1>4 DEF Texts, Shape
<1>6. Texts' = {}
  <2>1. CASE ~call.wallet
    BY <1>2, <1>5, <2>1 DEF WillErase, GoneWithTheirs
  <2>2. CASE call.wallet
    <3>1. call.table = 4
      BY <1>2, <2>2 DEF WillErase
    <3>2. \A k \in Texts : rows[k].table \in Through(call)
      <4>1. Through(call) = {"transaction", "hold", "debt"}
        <5>1. 1..(call.table - 1) = {1, 2, 3}
          BY <3>1
        <5> QED BY <5>1, TheTables DEF Through
      <4>2. ASSUME NEW k \in Texts PROVE rows[k].table \in Through(call)
        <5>1. rows[k] \in RowType
          BY <1>2, <1>12 DEF Texts, Shape
        <5> QED BY <4>1, <5>1 DEF RowType
      <4> QED BY <4>2
    <3> QED BY <1>2, <1>5, <2>2, <3>2 DEF WillErase
  <2> QED BY <1>2, <2>1, <2>2, CallKinds
<1>7. /\ sub' \in SubType /\ (first.sub => sub'.of = "erased")
      /\ sub.of = "erased" => sub'.of = "erased"
      /\ sub'.of = "erased" /\ NoAdopters => sub'.ids = {}
      /\ (story.saves \/ ~owned') /\ owned' \in BOOLEAN
  <2>1. /\ sub \in SubType /\ (call.wallet \/ story.saves \/ ~owned) /\ owned \in BOOLEAN
        /\ first.sub /\ ~call.sub => sub.of = "erased"
        /\ sub.of = "erased" /\ NoAdopters => sub.ids = {}
        /\ call.wallet \in BOOLEAN
    BY <1>2, CallKinds DEF WillErase, GoneWithTheirs, Shape
  <2>2. story.saves \/ ~owned'
    BY <1>2, <2>1
  <2>3. CASE call.sub
    BY <1>2, <2>1, <2>2, <2>3 DEF SubType
  <2>4. CASE ~call.sub
    BY <1>2, <2>1, <2>2, <2>4
  <2> QED BY <2>3, <2>4
<1>8. Left' = {}
  <2>1. Left' = Left \ call.erased
    BY <1>2 DEF Left
  <2>2. CASE ~first.sub
    BY <1>2, <2>1, <2>2 DEF GoneWithTheirs, Left
  <2>3. CASE first.sub /\ call.sub
    BY <1>2, <2>1, <2>3 DEF WillErase
  <2>4. CASE first.sub /\ ~call.sub
    BY <1>2, <2>1, <2>4 DEF WillErase, GoneWithTheirs
  <2> QED BY <2>2, <2>3, <2>4
<1>9. Shape'
  <2>1. Idle \in Erasing /\ Calling' = Calling
    BY <1>2, <1>4, Kinds DEF Calling, Saving, Capturing, Handles
  <2> QED BY <1>2, <1>4, <1>7, <2>1 DEF Shape
<1>10. BegunFirst' /\ GoneWithTheirs'
  <2>1. NoAdopters' = NoAdopters
    BY <1>2 DEF NoAdopters
  <2>2. (first.sub => sub'.of = "erased") /\ (~first.sub => first.payloads = {})
    BY <1>2, <1>7 DEF GoneWithTheirs
  <2> QED BY <1>2, <1>6, <1>7, <1>8, <2>1, <2>2 DEF BegunFirst, GoneWithTheirs
<1>11. ASSUME NEW q \in Requests PROVE WillErase(at[q])'
  <2>1. PICK d : d = at'[q]
    OBVIOUS
  <2>2. d = Idle \/ d = at[q]
    BY <1>2, <2>1 DEF Shape
  <2>3. d = Idle \/ WillErase(d)
    BY <2>2 DEF EInv
  <2>4. CASE d = Idle
    BY <2>1, <2>4 DEF WillErase, Idle, Under
  <2>5. CASE WillErase(d)
    <3>1. /\ d.step # "idle" /\ first.sub /\ d.sub => first.payloads \subseteq NamedBy(d.ids)
          /\ d.step \in {"detach", "payloads", "commit"} /\ d.wallet => d.table = 4
          /\ d.step = "scrub" => d.wallet /\ d.table \in 1..3
      BY <2>5 DEF WillErase, Under
    <3>2. NamedBy(d.ids)' = NamedBy(d.ids)
      BY DEF NamedBy
    <3> QED BY <1>2, <1>6, <1>7, <1>8, <2>1, <3>1, <3>2 DEF WillErase
  <2> QED BY <2>3, <2>4, <2>5
<1> QED BY <1>9, <1>10, <1>11 DEF EInv

\* A request dies, or is rolled back: its transaction leaves nothing.
LEMMA GivenUp ==
  ASSUME EInv, NEW r \in Requests, at' = [at EXCEPT ![r] = Idle] \/ at' = at,
         UNCHANGED <<story, sub, owned, rows, inbox, calls, receipts, first>>
  PROVE  EInv'
<1>1. Idle \in Erasing /\ WillErase(Idle)
  BY Kinds DEF WillErase, Idle, Under
<1>2. CASE at' = [at EXCEPT ![r] = Idle]
  BY <1>1, <1>2, RequestStays
<1>3. CASE at' = at
  BY <1>3, BegunCallStays
<1> QED BY <1>2, <1>3

\* Nothing has been stored, detached or begun.
LEMMA InitEInv == Init => EInv
<1> SUFFICES ASSUME Init PROVE EInv
  OBVIOUS
<1>1. /\ story \in Stories /\ sub = story.sub /\ rows = story.rows
      /\ payloads = {} /\ owned = TRUE /\ receipts = {} /\ first = NoneYet
      /\ log = [e \in Events |-> "absent"]
      /\ at = [r \in Requests |-> Idle] /\ calls = [c \in Callers |-> Idle]
  BY DEF Init
<1>2. Idle \in Erasing /\ Idle \in Calling
  BY Kinds DEF Calling
<1>3. /\ first.rows = 0 /\ first.payloads = {} /\ ~first.begun /\ ~first.sub
      /\ first \in [rows : Nat, sub : BOOLEAN, payloads : SUBSET Events, begun : BOOLEAN]
  BY <1>1 DEF NoneYet
<1>4. /\ sub \in SubType /\ sub.of # "erased" /\ rows \in Seq(RowType)
      /\ story.events \subseteq Events /\ first.rows <= Len(rows)
  BY <1>1, <1>3, StoriesAssumption DEF Events
<1>5. Shape
  BY <1>1, <1>2, <1>3, <1>4 DEF Shape
<1>6. BegunFirst
  BY <1>1 DEF BegunFirst
<1>7. GoneWithTheirs
  BY <1>1, <1>3, <1>4 DEF GoneWithTheirs
<1>8. \A r \in Requests : WillErase(at[r])
  <2>1. WillErase(Idle)
    BY DEF WillErase, Idle, Under
  <2> QED BY <1>1, <2>1
<1> QED BY <1>5, <1>6, <1>7, <1>8 DEF EInv

\* Every statement, call, death and rollback keeps the invariant.
LEMMA NextEInv == EInv /\ [Next]_vars => EInv'
<1> SUFFICES ASSUME EInv, [Next]_vars PROVE EInv'
  OBVIOUS
<1>0. Idle \in Calling
  BY DEF Calling
<1>1. CASE UNCHANGED vars
  BY <1>1, BegunCallStays DEF vars, requests
<1>2. ASSUME NEW c \in Callers,
             \/ BeginCapture(c) \/ BeginSave(c) \/ \E e \in Events : BeginHandle(c, e)
      PROVE  EInv'
  <2>1. Shape /\ UNCHANGED <<story, sub, owned, rows, inbox, at, receipts, first>>
    BY <1>2 DEF EInv, BeginCapture, BeginSave, BeginHandle, requests
  <2>2. PICK call : call \in Calling /\ calls' = [calls EXCEPT ![c] = call]
    <3>1. CASE BeginCapture(c)
      <4>1. PICK h \in DOMAIN rows :
              calls' = [calls EXCEPT ![c] = [step |-> "capture", hold |-> h]]
        BY <3>1 DEF BeginCapture
      <4>2. [step |-> "capture", hold |-> h] \in Calling
        BY DEF Calling, Capturing
      <4> QED BY <4>1, <4>2
    <3>2. CASE BeginSave(c)
      <4>1. calls' = [calls EXCEPT ![c] = [step |-> "save"]] /\ story.saves
        BY <3>2 DEF BeginSave
      <4>2. [step |-> "save"] \in Calling
        BY <4>1 DEF Calling, Saving
      <4> QED BY <4>1, <4>2
    <3>3. CASE \E e \in Events : BeginHandle(c, e)
      <4>1. PICK e \in Events : BeginHandle(c, e)
        BY <3>3
      <4>2. e \in story.events
        BY <2>1, <4>1 DEF BeginHandle, Shape
      <4>3. PICK step, found, ids, ks :
              /\ step = IF e.kind \in {"checkout", "subscription"} THEN "bind" ELSE "grant"
              /\ found = CASE e.kind = "subscription" -> Resolves
                           [] e.kind \in {"refund", "dispute"} -> Payments # {}
                           [] e.kind = "closed" -> Disputed # {}
                           [] OTHER -> TRUE
              /\ ids = Adopted /\ ks = Disputed \cup Owing(Disputed)
        OBVIOUS
      <4>4. /\ step \in {"bind", "grant", "give back"} /\ found \in BOOLEAN
            /\ ids \in SUBSET Ids /\ ks \in SUBSET DOMAIN rows
        BY <4>3 DEF Resolves, Adopted, Disputed, Owing
      <4>5. calls' = [calls EXCEPT ![c] = [step |-> step, event |-> e, found |-> found,
                                           ids |-> ids, rows |-> ks]]
        BY <4>1, <4>3, Zenon DEF BeginHandle
      <4>6. [step |-> step, event |-> e, found |-> found, ids |-> ids, rows |-> ks] \in Calling
        BY <4>2, <4>4 DEF Calling, Handles
      <4> QED BY <4>5, <4>6
    <3> QED BY <1>2, <3>1, <3>2, <3>3
  <2> QED BY <2>1, <2>2, BegunCallStays
<1>3. CASE \E r \in Requests : Erase(r)
  BY <1>3, BeginStays, PinStays, ScrubStays, DetachStays, ScrubPayloadsStays,
     CommitStays DEF Erase
<1>4. CASE \E r \in Requests : Die(r)
  <2>1. PICK r \in Requests : Die(r)
    BY <1>4
  <2>2. /\ at' = [at EXCEPT ![r] = Idle] \/ at' = at
        /\ UNCHANGED <<story, sub, owned, rows, inbox, calls, receipts, first>>
    BY <2>1 DEF Die
  <2> QED BY <2>2, GivenUp
<1>5. CASE \E x \in Transactions : BreakDeadlock(x)
  <2>1. PICK x \in Transactions : BreakDeadlock(x)
    BY <1>5
  <2>2. UNCHANGED <<story, sub, owned, rows, inbox, receipts, first>>
    BY <2>1 DEF BreakDeadlock
  <2>3. CASE x \in Requests
    <3>1. at' = [at EXCEPT ![x] = Idle] /\ calls' = calls
      BY <2>1, <2>3 DEF BreakDeadlock
    <3> QED BY <2>2, <2>3, <3>1, GivenUp
  <2>4. CASE x \notin Requests
    <3>1. x \in Callers /\ calls' = [calls EXCEPT ![x] = Idle] /\ at' = at
      BY <2>1, <2>4 DEF BreakDeadlock, Transactions
    <3> QED BY <1>0, <2>2, <3>1, BegunCallStays
  <2> QED BY <2>3, <2>4
<1>6. ASSUME NEW c \in Callers, Call(c) PROVE EInv'
  BY <1>6, CaptureStays, SaveStays, AdoptStays, GrantStays, ClawBackStays, GiveBackStays,
     UnmatchedStays, GoesOnStays DEF Call, Waiting, WaitingLocked
<1> QED BY <1>1, <1>2, <1>3, <1>4, <1>5, <1>6, SpendStays, StoreStays DEF Next

\* gdpr.section.erased: once a request has its receipt, nothing of what was there
\* when the first one began names the person any more, whichever calls and webhooks
\* ran beside it, however many deliveries there were and whichever died or were
\* rolled back; but for a settings save that gives the wallet back its user and a
\* subscription event that gives the erased row its ids, where there are any.
THEOREM ErasedHolds == Spec => []ErasedWhatWas
<1>1. EInv => ErasedWhatWas
  BY DEF EInv, GoneWithTheirs, ErasedWhatWas, Texts, Left, NoAdopters
<1>2. Spec => []EInv
  BY InitEInv, NextEInv, PTL DEF Spec
<1> QED BY <1>1, <1>2, PTL

===============================================================================
