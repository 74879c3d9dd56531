--------------------------- MODULE TradingSession ---------------------------
(***************************************************************************)
(* What the trading process promises about one order at a time, with none  *)
(* of the loop: it is approved on what was learnt from the session it goes *)
(* to, it is handed over to that session or not at all, and a kill switch  *)
(* that latches between the approval and the hand-over lets this order out *)
(* and no later one.  Lifecycle implements it.                             *)
(***************************************************************************)
EXTENDS Integers

VARIABLES
  session,   \* the latest broker session, 0 before the first
  trusted,   \* the session whose books were found to agree, 0 for none
  seen,      \* the session the quote came from, 0 for none
  latch,     \* the kill switch is latched
  order,     \* an approved order is in hand
  late       \* orders handed over after the latch

vars == <<session, trusted, seen, latch, order, late>>

Init ==
  /\ session = 0 /\ trusted = 0 /\ seen = 0
  /\ latch \in BOOLEAN /\ order = FALSE /\ late = 0

\* A new session vouches for nothing by itself.
Connect ==
  /\ ~ order
  /\ session' = session + 1
  /\ UNCHANGED <<trusted, seen, latch, order, late>>

\* Knowledge is of the current session when it is gained, and may be lost at any time,
\* though never under an order in hand.
Learn ==
  /\ ~ order
  /\ trusted' \in {trusted, session, 0} /\ seen' \in {seen, session, 0}
  /\ UNCHANGED <<session, latch, order, late>>

Approve ==
  /\ ~ order /\ ~ latch
  /\ trusted = session /\ seen = session
  /\ order' = TRUE
  /\ UNCHANGED <<session, trusted, seen, latch, late>>

HandOver ==
  /\ order
  /\ order' = FALSE
  /\ late' = IF latch THEN late + 1 ELSE late
  /\ UNCHANGED <<session, trusted, seen, latch>>

\* The call fails, or the process dies with the order in hand.
Withdraw ==
  /\ order
  /\ order' = FALSE
  /\ trusted' \in {trusted, 0} /\ seen' \in {seen, 0}
  /\ UNCHANGED <<session, latch, late>>

Latch ==
  /\ ~ latch
  /\ latch' = TRUE
  /\ UNCHANGED <<session, trusted, seen, order, late>>

Next == Connect \/ Learn \/ Approve \/ HandOver \/ Withdraw \/ Latch

Spec == Init /\ [][Next]_vars

=============================================================================
