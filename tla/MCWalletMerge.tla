---------------------------- MODULE MCWalletMerge ----------------------------
(* Model-checking instances of WalletMerge: guests folded into an account. *)
EXTENDS WalletMerge, TLC

CONSTANTS ann, guest, p1, p2, s1, s2

OneGuest == {<<guest, ann>>}
NoMerge == {}

\* Both have a plan, or the guest only.
Plans == {(s1 :> guest) @@ (s2 :> ann), (s1 :> guest) @@ (s2 :> NoUser)}

ProcSymmetry == Permutations(Procs)

===============================================================================
