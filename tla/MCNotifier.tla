----------------------------- MODULE MCNotifier -----------------------------
(***************************************************************************)
(* The notifier for TLC: two interchangeable callers, one namespace.       *)
(***************************************************************************)
EXTENDS Notifier, TLC

CONSTANTS c1, c2, u1, w1, ns1

OneNamespace == [p \in Places |-> ns1]
CallerSymmetry == Permutations(Callers)

=============================================================================
