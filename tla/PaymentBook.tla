----------------------------- MODULE PaymentBook -----------------------------
(***************************************************************************)
(* What webhook delivery promises (src/MODULE.md, the docstrings of        *)
(* StripeWebhookView and ProviderGrant): however often the provider        *)
(* describes a payment and however often each description arrives, fails   *)
(* or is replayed, a description is acted on once and a payment is turned  *)
(* into credits once.                                                      *)
(***************************************************************************)
EXTENDS Naturals

CONSTANTS
  Events,    \* what the provider has to say
  Payments,  \* what it may be paid for: sessions and invoices
  Price      \* the credits the catalogue sells each of them for

VARIABLES
  handled,   \* the events acted on
  credits,   \* what was granted for each payment
  facts      \* what each event made us tell other services

bookVars == <<handled, credits, facts>>

BookInit ==
  /\ handled = {}
  /\ credits = [p \in Payments |-> 0]
  /\ facts = [e \in Events |-> 0]

\* An event is acted on: it may grant one payment that was not granted yet,
\* take credits back, or do nothing.
Act(e) ==
  /\ e \in Events \ handled
  /\ handled' = handled \cup {e}
  /\ \/ credits' = credits
     \/ \E p \in Payments :
          credits[p] = 0 /\ credits' = [credits EXCEPT ![p] = Price[p]]
  /\ \E n \in 0..2 : facts' = [facts EXCEPT ![e] = n]

BookNext == \E e \in Events : Act(e)

BookSpec == BookInit /\ [][BookNext]_bookVars

===============================================================================
