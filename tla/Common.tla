------------------------------- MODULE Common -------------------------------
(***************************************************************************)
(* What components that are reasoned about together share.                 *)
(***************************************************************************)
CONSTANT None   \* no value: a nil pointer, a missing entry, nothing stored

=============================================================================
