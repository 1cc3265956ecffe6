---- MODULE MCCreditWallet ----
(* Model-checking instances of CreditWallet. *)
EXTENDS CreditWalletRefinement, TLC

HoldKeySymmetry == Permutations(HoldKeys)
====
