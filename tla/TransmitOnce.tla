---------------------------- MODULE TransmitOnce ----------------------------
(***************************************************************************)
(* What the order pipeline promises about one trade intent, with none of   *)
(* the machinery: an intent is committed to durable storage before the     *)
(* broker is called, the call is made at most once, and an intent whose    *)
(* fate is settled never goes back.  OrderPipeline implements it, and so   *)
(* does Reconciliation for the orders sized from its book.                 *)
(***************************************************************************)

CONSTANT Intents   \* the economic intents, one per idempotency key

VARIABLES
  fate,     \* fate[i]: how far intent i has come, as durable storage knows it
  sent      \* the intents the broker has been handed an order for

vars == <<fate, sent>>

Fates == {"open",        \* never committed: free to be tried (again)
          "committed",   \* written down as in flight, broker not called yet
          "settled"}     \* the call was made, refused, or lost with a crash

TypeOK ==
  /\ fate \in [Intents -> Fates]
  /\ sent \subseteq Intents

Init ==
  /\ fate = [i \in Intents |-> "open"]
  /\ sent = {}

\* The intent is written down as in flight before the broker hears of it.
Commit(i) ==
  /\ fate[i] = "open"
  /\ fate' = [fate EXCEPT ![i] = "committed"]
  /\ UNCHANGED sent

\* The broker is handed the order; that settles the intent.
Deliver(i) ==
  /\ fate[i] = "committed"
  /\ fate' = [fate EXCEPT ![i] = "settled"]
  /\ sent' = sent \cup {i}

\* The call fails before anything leaves the process, or the process dies.
Abandon(i) ==
  /\ fate[i] = "committed"
  /\ fate' = [fate EXCEPT ![i] = "settled"]
  /\ UNCHANGED sent

Next == \E i \in Intents : Commit(i) \/ Deliver(i) \/ Abandon(i)

Spec == Init /\ [][Next]_vars

-----------------------------------------------------------------------------
\* Only a settled intent has an order at the broker.
SentIsSettled == \A i \in sent : fate[i] = "settled"

=============================================================================
