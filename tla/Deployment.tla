----------------------------- MODULE Deployment -----------------------------
(***************************************************************************)
(* The safety controls in operation: the .env file an operator edits, the  *)
(* container that was created from it, the processes that parse the        *)
(* container's environment (the bot, and the commands executed beside it), *)
(* the latched kill switch, and the orders that get through.               *)
(*                                                                         *)
(* What the bot knows of its session when an intent comes is any element   *)
(* of Observations: Lifecycle says how it comes to know it.                *)
(***************************************************************************)
EXTENDS Controls, FiniteSets

CONSTANTS
  InitialFiles,   \* the .env files at hand
  NumberTexts,    \* the numbers an operator may write, negative for any refused text
  Observations,   \* what may be known when an intent is handled
  Edited,         \* the switches and numbers edited, besides the mode
  MaxEdits,       \* bound on the edits of file and container
  MaxLoss         \* bound on the loss of the day

ASSUME DeploymentAssumption ==
  /\ InitialFiles \subseteq {e \in Environment : Starts(e)}
  /\ NumberTexts \subseteq Int
  /\ Observations \subseteq Observation
  /\ Edited \subseteq Switches \cup Numbers
  /\ MaxEdits \in Nat /\ MaxLoss \in Nat

VARIABLES
  file,        \* the .env file
  container,   \* the environment of the container, fixed when it is created
  edits,       \* edits made so far
  bot,         \* the configuration the running bot parsed, {} when it is down
  before,      \* history: the environment the bot last started with
  latched,     \* the durable kill switch
  assurance,   \* history: what was said of this container, by which command
  loss,        \* history: what was lost today at the broker
  wire,        \* the last order sent from this container, with what it rested on
  passed       \* the last report of a read-only checkout that passed, if any

vars == <<file, container, edits, bot, before, latched, assurance, loss, wire, passed>>

-----------------------------------------------------------------------------
SomeEdit(env) ==
  {[env EXCEPT !.mode = t] : t \in ModeTexts}
    \cup {[env EXCEPT !.switch[v] = t] : v \in Switches \cap Edited, t \in SwitchTexts}
    \cup {[env EXCEPT !.number[v] = n] : v \in Numbers \cap Edited, n \in NumberTexts}

Init ==
  /\ file \in InitialFiles
  /\ container = file /\ before = file
  /\ edits = 0 /\ bot = {} /\ latched = FALSE
  /\ assurance = {} /\ loss = 0 /\ wire = {} /\ passed = {}

-----------------------------------------------------------------------------
(* The operator and the container.                                          *)

\* One variable is edited, or another .env put in its place.
EditFile ==
  /\ edits < MaxEdits
  /\ file' \in SomeEdit(file) \cup InitialFiles
  /\ edits' = edits + 1
  /\ UNCHANGED <<container, bot, before, latched, assurance, loss, wire, passed>>

\* The container is created anew, from the file or from the file with a value that a
\* control panel or an override puts over it.
Recreate ==
  /\ \/ container' = file /\ UNCHANGED edits
     \/ edits < MaxEdits /\ container' \in SomeEdit(file) /\ edits' = edits + 1
  /\ bot' = {} /\ assurance' = {} /\ wire' = {} /\ passed' = {}
  /\ UNCHANGED <<file, before, latched, loss>>

\* Config.from_env.  On an environment that is refused the process does not start.
Start ==
  /\ bot = {} /\ Starts(container)
  /\ bot' = {FromEnv(container)}
  /\ before' = container
  /\ UNCHANGED <<file, container, edits, latched, assurance, loss, wire, passed>>

\* The process ends, or is restarted in the same container.
Stop ==
  /\ bot # {}
  /\ bot' = {}
  /\ UNCHANGED <<file, container, edits, before, latched, assurance, loss, wire, passed>>

\* kill-switch-on: durable, and no command takes it back.
EngageKillSwitch ==
  /\ Starts(container)
  /\ latched' = TRUE
  /\ UNCHANGED <<file, container, edits, bot, before, assurance, loss, wire, passed>>

\* What was ordered is filled and turns out a loss; no row of daily_performance is
\* written.
Lose ==
  /\ wire # {}
  /\ loss < MaxLoss
  /\ loss' = loss + 1
  /\ UNCHANGED <<file, container, edits, bot, before, latched, assurance, wire, passed>>

\* What verify says of an environment: the effective kill switch is the configured or
\* the latched one (KillSwitch.engaged).
Judgement(env) ==
  LET c == FromEnv(env)
      engaged == c.on["KILL_SWITCH"] \/ latched
  IN {name \in {"halted", "paper-armed"} :
        IF name = "halted" THEN Halted(c, engaged) ELSE ArmedNotLive(c, engaged)}

\* Mutant: the file is verified, not what the container has.
Verify_Bug ==
  /\ Starts(file)
  /\ \E name \in Judgement(file) : assurance' = assurance \cup {name}
  /\ UNCHANGED <<file, container, edits, bot, before, latched, loss, wire, passed>>

\* verify, executed in the container, where it parses what the bot parsed.
Verify ==
  /\ Starts(container)
  /\ \E name \in Judgement(container) : assurance' = assurance \cup {name}
  /\ UNCHANGED <<file, container, edits, bot, before, latched, loss, wire, passed>>

-----------------------------------------------------------------------------
(* Orders.  The bot and the place-order command run the same pipeline.      *)

Permitted(c, x) == RiskApproves(c, x, latched) /\ GateAllows(c, x)

Send(c, x) ==
  /\ Permitted(c, x)
  /\ wire' = {[config |-> c, seen |-> x, loss |-> loss]}
  /\ UNCHANGED <<file, container, edits, bot, before, latched, assurance, loss, passed>>

BotOrder == \E c \in bot, x \in Observations : Send(c, x)

OperatorOrder ==
  Starts(container) /\ \E x \in Observations : Send(FromEnv(container), x)

-----------------------------------------------------------------------------
\* ibkr-checkout, in the container and on a client id of its own, with the container's
\* mode or, as the runbook has it, with paper for this one command: it reads, hangs up
\* and reports.  (What ends without a report is not seen here.)
Checkout ==
  /\ \E env \in {container, [container EXCEPT !.mode = "paper"]} :
       /\ Starts(env)
       /\ \E report \in Reports(FromEnv(env)) :
            /\ Passed(report)
            /\ passed' = {report}
  /\ UNCHANGED <<file, container, edits, bot, before, latched, assurance, loss, wire>>

-----------------------------------------------------------------------------
Next ==
  \/ EditFile \/ Recreate \/ Start \/ Stop \/ EngageKillSwitch \/ Lose \/ Verify
  \/ BotOrder \/ OperatorOrder \/ Checkout

Spec == Init /\ [][Next]_vars

-----------------------------------------------------------------------------
(* Properties.                                                              *)

TypeOK ==
  /\ file \in Environment /\ container \in Environment /\ before \in Environment
  /\ edits \in 0..MaxEdits /\ loss \in 0..MaxLoss
  /\ bot \subseteq Config
  /\ latched \in BOOLEAN
  /\ assurance \subseteq {"halted", "paper-armed"}
  /\ wire \subseteq [config : Config, seen : Observation, loss : 0..MaxLoss]
  /\ passed \subseteq [Probes -> Statuses \cup {"none"}]

\* An order leaves only from a container in whose environment somebody spelled out
\* every permission it takes, and only to the kind of account the mode is for:
\* nothing absent, defaulted or misread can add up to it (config.py's rules, through
\* both lists of checks).
ExplicitConsent ==
  \A o \in wire :
    /\ container.mode \in {"mock", "paper", "live"}
    /\ o.seen.account_type = ExpectedAccountType(container.mode)
    /\ container.switch["KILL_SWITCH"] = "false"
    /\ container.switch["ALLOW_ORDER_TRANSMIT"] = "true"
    /\ container.mode # "mock" => container.switch["SOL_FUTURES_PERMISSION_READY"] = "true"
    /\ container.mode = "live" => container.switch["LIVE_TRADING_ENABLED"] = "true"
    /\ \A v \in Numbers : container.number[v] > 0

\* With an order filled, the position on either side, its exposure and the counts are
\* within the limits of the container's environment, and the quote it was priced by
\* was fresh at both readings of its age.
WithinLimits ==
  \A o \in wire :
    LET x == o.seen
        limit == container.number
    IN /\ ProjectedPosition(x) \in (- limit["MAX_POSITION_CONTRACTS"])..limit["MAX_POSITION_CONTRACTS"]
       /\ x.quantity \in 1..limit["MAX_ORDER_SIZE"]
       /\ Exposure(x) <= limit["MAX_NOTIONAL_EXPOSURE_USD"]
       /\ x.orders_last_hour + 1 <= limit["MAX_ORDERS_PER_HOUR"]
       /\ x.open_orders_count + 1 <= limit["MAX_OPEN_ORDERS"]
       /\ {x.age, x.age + x.late} \subseteq 0..limit["MARKET_DATA_MAX_AGE_SECONDS"]

\* What verify and the checkout say of a container stays true of every order sent from
\* it, whatever is edited in the file and however often the bot restarts
\* (posture.py's reason to look at the process and not at the file).
AssurancesHold ==
  /\ "halted" \in assurance \/ passed # {} => wire = {}
  /\ "paper-armed" \in assurance => \A o \in wire : o.seen.account_type # "LIVE"

\* The two lists of checks agree wherever both can look: the gate does not know the
\* latch and the limits, the risk manager does not know delayed quotes and judges the
\* age a moment earlier (gate.py: "independent" checks).
ListsAgree ==
  \A c \in bot, x \in Observations :
    NumericLimits(c, x) /\ ~ x.is_delayed /\ x.late = 0 =>
      (RiskApproves(c, x, FALSE) <=> GateAllows(c, x))

\* Every setting of c is that of d or a more restrictive one; the mode is the same, or
\* disabled.
NoLooser(c, d) ==
  /\ c.mode \in {d.mode, "disabled"}
  /\ d.on["KILL_SWITCH"] => c.on["KILL_SWITCH"]
  /\ \A v \in Switches \ {"KILL_SWITCH"} : c.on[v] => d.on[v]
  /\ \A v \in Numbers : c.number[v] <= d.number[v]

\* Editing towards safety is safe: once the container is created from a file that is in
\* nothing looser than what the bot runs with, no order goes that the bot would not
\* have sent (config.py's rule 3: zero "never means unlimited"; both lists of checks,
\* for every combination of settings).
TighterIsSafer ==
  \A c \in bot :
    Starts(file) /\ NoLooser(FromEnv(file), c) =>
      \A x \in Observations : Permitted(FromEnv(file), x) => Permitted(c, x)

\* A checkout that passes saw a paper account, read everything there is to read, had
\* the gate refuse (CheckoutReport.ok, run_checkout).
PassedMeansObserved ==
  \A report \in passed :
    /\ \A n \in Reads \cup {"SOCKET_CONNECT", "GATE_REFUSES_WHEN_EVERYTHING_ELSE_IS_GREEN"} :
         report[n] = "PASS"
    /\ report["CONTRACT_QUALIFIES"] = "PASS" \/ report["CONTRACT_MONTHS_AVAILABLE"] = "PASS"

\* From one start of the bot to the next, live trading takes two edits at least: no
\* single variable does it (config.py's rule 4, validate).
GoesLive(env, next) == FromEnv(env).mode # "live" /\ FromEnv(next).mode = "live"
Differ(env, next) ==
  {v \in {"TRADING_MODE"} : env.mode # next.mode}
    \cup {v \in Switches : env.switch[v] # next.switch[v]}
    \cup {v \in Numbers : env.number[v] # next.number[v]}
LiveTakesTwoEdits ==
  [][GoesLive(before, before') => \E v, w \in Differ(before, before') : v # w]_before

\* No order leaves on a day whose loss has reached the limit (state/models.py: "Drives
\* the daily-loss risk limit").
DailyLossStops ==
  \A o \in wire : o.loss < container.number["MAX_DAILY_LOSS_USD"]

=============================================================================
