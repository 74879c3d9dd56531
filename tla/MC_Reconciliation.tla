------------------------- MODULE MC_Reconciliation -------------------------
(* Instances of Reconciliation for TLC. *)
EXTENDS Reconciliation

CONSTANTS trader, operator

\* Enough to open, to close and to reverse a position.
UpAndDown == {-1, 0, 2}
\* The same target again and again.
UpOnly == {2}

=============================================================================
