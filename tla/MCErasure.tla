------------------------------ MODULE MCErasure ------------------------------
(* Model-checking instances of Erasure: two requests for one account. *)
EXTENDS Erasure

CONSTANTS internal_meter_only

\* A waived reservation with a caller's text.
WaivedHolds == {<<"hold", TRUE, internal_meter_only>>}

Event(kind) == [kind |-> kind, no |-> 1]
Subscribed == [of |-> "account", ids |-> Ids]
Customer == [of |-> "account", ids |-> {"customer"}]
NoRow == [of |-> "nobody", ids |-> {}]

Payment == Row(Charge, {"before"}, NoMark, FALSE)
Dispute == <<Row(Charge, {"before"}, NoMark, TRUE), Row("debt", {"before"}, NoMark, TRUE)>>

Story(s, rs, kinds) ==
  [sub |-> s, rows |-> rs, events |-> {Event(k) : k \in kinds}, saves |-> FALSE]

\* Wallet settings that are saved; a subscriber's invoice, a first checkout, a
\* subscription event that finds its row by the customer, a payment disputed, and a
\* dispute that is won.
SettingsStory == {[Story(Subscribed, <<>>, {}) EXCEPT !.saves = TRUE]}
InvoiceStory == {Story(Subscribed, <<>>, {"sale"})}
SubscriberStory == {Story(Customer, <<>>, {"subscription"})}
EveryStory ==
  SettingsStory \cup InvoiceStory \cup SubscriberStory
  \cup {Story(NoRow, <<>>, {"checkout"}), Story(Subscribed, <<Payment>>, {"dispute"}),
        Story(Customer, Dispute, {"closed"})}

===============================================================================
