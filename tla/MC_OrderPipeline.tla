--------------------------- MODULE MC_OrderPipeline ---------------------------
(* Instances of OrderPipeline for TLC. *)
EXTENDS OrderPipeline, TLC

CONSTANTS trader, operator, i1, i2, i3, i4

\* One trading process, every intent given to it.
OneHandles == [p \in Procs |-> Intents]

\* A trading process and operator commands: intents of their own.
SplitHandles == trader :> {i1} @@ operator :> {i2}

\* Intents are interchangeable when every process may be handed all of them.
IntentSymmetry == Permutations(Intents)

TwoSizes == {1, -2}

=============================================================================
