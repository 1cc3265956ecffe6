---- MODULE MCSubscriptionLifecycle ----
(* Model-checking instances of SubscriptionLifecycle. *)
EXTENDS SubscriptionLifecycle
====
