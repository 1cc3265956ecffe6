-------------------------- MODULE MCWebhookDelivery --------------------------
(***************************************************************************)
(* One subscriber: a plan bought, renewed by an invoice that two event     *)
(* types report, its first payment refunded in part and disputed.          *)
(***************************************************************************)
EXTENDS WebhookDelivery

CONSTANTS w1, w2, op

Event(id, type, about, pays, credits, ok) ==
  [id |-> id, type |-> type, about |-> about, pays |-> pays, sub |-> "sub1",
   credits |-> credits, part |-> 0, whole |-> 0, ok |-> ok]

Bought == Event("bought", "plan", "session1", "in1", 3, TRUE)
Paid == Event("paid", "renewal", "in2", "in2", 3, TRUE)
PaymentSucceeded == [Paid EXCEPT !.id = "succeeded"]
Refunded ==
  [Event("refunded", "refund", "charge1", "in1", 0, TRUE) EXCEPT !.part = 1, !.whole = 2]
Disputed == Event("disputed", "dispute", "dispute1", "in1", 0, TRUE)
Won == Event("won", "closed", "dispute1", "in1", 0, TRUE)
Declined == Event("declined", "declined", "in3", "in3", 0, TRUE)
Unknown == Event("unknown", "other", "customer1", "none", 0, TRUE)

RefundedMore == [Refunded EXCEPT !.id = "refundedMore", !.part = 2]

Renewed == {Bought, Paid, PaymentSucceeded}
Unpaid == {Bought, Declined}
PaidBack == {Bought, Refunded, RefundedMore, Unknown}
DisputeWon == {Bought, Refunded, Disputed, Won}

SubscriberStories == {Renewed, Unpaid, PaidBack, DisputeWon}
DisputeStories == {DisputeWon}

===============================================================================
