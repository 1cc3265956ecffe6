------------------------------ MODULE MCLetters ------------------------------
(***************************************************************************)
(* A payment; an invoice declined three times, the last time for good, with *)
(* the charge of the attempt reported beside it; a cancellation announced   *)
(* twice within a day and once more for the next period.                    *)
(***************************************************************************)
EXTENDS Letters

CONSTANTS c1, c2

Event(id, kind, about) ==
  [id |-> id, kind |-> kind, about |-> about, invoice |-> NoInvoice, known |-> TRUE,
   next |-> "absent", automatic |-> TRUE, checkout |-> FALSE, cancelling |-> FALSE,
   ends |-> 0]

Paid == Event("paid", "paid", "txn1")
First == [Event("first", "invoice failed", "in1") EXCEPT !.next = "set"]
Second == [First EXCEPT !.id = "second"]
Last == [First EXCEPT !.id = "last", !.next = "null"]
Charge == [Event("charge", "charge failed", "ch1") EXCEPT !.invoice = "in1"]
Bare == Event("bare", "charge failed", "ch2")
Stranger == [Event("stranger", "charge failed", "ch3") EXCEPT !.known = FALSE]
AtCheckout == [First EXCEPT !.id = "checkout", !.about = "in2", !.next = "null", !.checkout = TRUE]
Manual == [First EXCEPT !.id = "manual", !.about = "in3", !.next = "null", !.automatic = FALSE]
Change == Event("change", "subscription", "sub1")
Ends(id, ends) == [Event(id, "subscription", "sub1") EXCEPT !.cancelling = TRUE, !.ends = ends]

PayerStories ==
  {{Paid, First, Second}, {First, Last, Charge}, {Bare, Stranger}, {AtCheckout, Manual},
   {Change, Ends("e2", 2), Ends("e3", 3)}, {Ends("e3", 3), Ends("e4", 4)}}

===============================================================================
