--------------------------- MODULE MC_Deployment ---------------------------
(* Instances of Deployment for TLC. *)
EXTENDS Deployment

\* .env files: one with the approved posture, and one that is armed.
Halting == [mode |-> "mock", switch |-> [v \in Switches |-> "absent"],
            number |-> [v \in Numbers |-> 0]]
ArmedPaper ==
  [mode |-> "paper",
   switch |-> [v \in Switches |->
                 CASE v = "LIVE_TRADING_ENABLED" -> "false" [] v = "KILL_SWITCH" -> "false"
                   [] OTHER -> "true"],
   number |-> [v \in Numbers |-> 2]]
MCFiles == {Halting, ArmedPaper}

MCNumbers == {-1, 0, 1}
MCEdited == Switches \cup {"MAX_POSITION_CONTRACTS", "MARKET_DATA_MAX_AGE_SECONDS"}

\* What the bot may know: everything green, with one thing otherwise.
Vary(x) ==
  {[x EXCEPT !.app_state = v] : v \in {"SAFE", "HALTED"}}
    \cup {[x EXCEPT !.connected = FALSE], [x EXCEPT !.account_available = FALSE],
          [x EXCEPT !.positions_reconciled = FALSE], [x EXCEPT !.open_orders_reconciled = FALSE],
          [x EXCEPT !.quoted = FALSE], [x EXCEPT !.is_delayed = TRUE],
          [x EXCEPT !.broker_permission_ready = FALSE], [x EXCEPT !.strategy_enabled = FALSE]}
    \cup {[x EXCEPT !.contract = v] : v \in {"none", "continuous", "unnumbered"}}
    \cup {[x EXCEPT !.age = v] : v \in {-1, 2, 3}}
    \cup {[x EXCEPT !.late = v] : v \in {2, 3}}
    \cup {[x EXCEPT !.price = v] : v \in {0, 2, 3}}
    \cup {[x EXCEPT !.open_orders_count = v] : v \in {1, 2}}
    \cup {[x EXCEPT !.orders_last_hour = v] : v \in {1, 2}}
    \cup {[x EXCEPT !.current_position = v, !.side = -1] : v \in {-2, -1, 0, 3}}
    \cup {[x EXCEPT !.quantity = v] : v \in {0, 2, 3}}
Greens == {[AllGreen EXCEPT !.account_type = t] : t \in AccountTypes}
MCObservations == Greens \cup Vary(AllGreen)

=============================================================================
