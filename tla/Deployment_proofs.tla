-------------------------- MODULE Deployment_proofs --------------------------
(***************************************************************************)
(* What holds of the safety controls for every environment, whatever may   *)
(* be known when an intent comes, and any number of edits.                 *)
(***************************************************************************)
EXTENDS Deployment, TLAPS

\* Everything said or done in a container rests on the environment it was created with.
Pinned ==
  /\ Starts(before)
  /\ \A c \in bot : c = FromEnv(container) /\ Starts(container)
  /\ "halted" \in assurance => ~ FromEnv(container).on["ALLOW_ORDER_TRANSMIT"]
  /\ "paper-armed" \in assurance => FromEnv(container).mode # "live"
  /\ passed # {} => ~ FromEnv(container).on["ALLOW_ORDER_TRANSMIT"]

\* An order that left passed both lists of checks, under that environment.
Cleared ==
  \A o \in wire :
    /\ o.config = FromEnv(container) /\ Starts(container)
    /\ o.seen \in Observations
    /\ RiskApproves(o.config, o.seen, FALSE) /\ GateAllows(o.config, o.seen)

-----------------------------------------------------------------------------
(* Environments and configurations.                                         *)

LEMMA EditedEnvironment ==
  ASSUME NEW env \in Environment
  PROVE  SomeEdit(env) \subseteq Environment
<1>1. ASSUME NEW t \in ModeTexts PROVE [env EXCEPT !.mode = t] \in Environment
  BY DEF Environment
<1>2. ASSUME NEW v \in Switches, NEW t \in SwitchTexts
      PROVE  [env EXCEPT !.switch[v] = t] \in Environment
  BY DEF Environment
<1>3. ASSUME NEW v \in Numbers, NEW n \in NumberTexts
      PROVE  [env EXCEPT !.number[v] = n] \in Environment
  BY DeploymentAssumption DEF Environment
<1> QED BY <1>1, <1>2, <1>3 DEF SomeEdit

LEMMA ConfigOfEnvironment ==
  ASSUME NEW env \in Environment, Parses(env)
  PROVE  FromEnv(env) \in Config
<1>1. ParseMode(env.mode) \in Modes
  BY DEF Environment, Parses, ParseMode, ModeTexts, Modes
<1>2. [v \in Switches |-> ParseBool(env.switch[v], Default(v))] \in [Switches -> BOOLEAN]
  <2>1. ASSUME NEW text, NEW v
      PROVE  ParseBool(text, Default(v)) \in BOOLEAN
    <3>1. CASE text = "absent"
      BY <3>1 DEF ParseBool, Default
    <3>2. CASE text # "absent"
      BY <3>2 DEF ParseBool
    <3> QED BY <3>1, <3>2
  <2> QED BY <2>1, Zenon
<1>3. env.number \in [Numbers -> Nat]
  BY DEF Environment, Parses
<1> QED BY <1>1, <1>2, <1>3 DEF FromEnv, Config

LEMMA InitialEnvironments ==
  \A env \in InitialFiles : env \in Environment /\ Starts(env)
  BY DeploymentAssumption

LEMMA ReportTypes ==
  ASSUME NEW c, NEW report \in Reports(c)
  PROVE  report \in [Probes -> Statuses \cup {"none"}]
<1>1. ASSUME NEW read \in [Reads -> ReadStatuses], NEW finding \in ContractFindings
      PROVE  SessionReport(c, read, finding) \in [Probes -> Statuses \cup {"none"}]
  <2>1. /\ finding.contract \in Statuses \cup {"none"}
        /\ finding.months \in Statuses \cup {"none"}
        /\ finding.data \in Statuses \cup {"none"}
    BY <1>1 DEF ContractFindings, Statuses
  <2>2. \A n \in Reads : read[n] \in Statuses \cup {"none"}
    BY <1>1 DEF ReadStatuses, Statuses
  <2>3. GateProbe(c) \in Statuses \cup {"none"}
    BY DEF GateProbe, Statuses
  <2> QED BY <2>1, <2>2, <2>3 DEF SessionReport, Statuses
<1> QED BY <1>1 DEF Reports, Statuses

-----------------------------------------------------------------------------
(* Types.                                                                   *)

LEMMA TypeInit == Init => TypeOK
<1> SUFFICES ASSUME Init PROVE TypeOK
  OBVIOUS
<1>1. file \in Environment /\ container \in Environment /\ before \in Environment
  BY InitialEnvironments DEF Init
<1>2. edits \in 0..MaxEdits /\ loss \in 0..MaxLoss
  BY DeploymentAssumption DEF Init
<1>3. bot = {} /\ latched \in BOOLEAN /\ assurance = {} /\ wire = {} /\ passed = {}
  BY DEF Init
<1> QED BY <1>1, <1>2, <1>3 DEF TypeOK

LEMMA OrderTypes ==
  ASSUME TypeOK, NEW c \in Config, NEW x \in Observations, Send(c, x)
  PROVE  TypeOK'
<1>1. x \in Observation
  BY DeploymentAssumption
<1>2. wire' \subseteq [config : Config, seen : Observation, loss : 0..MaxLoss]
  BY <1>1 DEF Send, TypeOK
<1> QED BY <1>2 DEF Send, TypeOK

LEMMA TypeNext == TypeOK /\ [Next]_vars => TypeOK'
<1> SUFFICES ASSUME TypeOK, [Next]_vars PROVE TypeOK'
  OBVIOUS
<1> USE DEF TypeOK
<1>1. CASE EditFile
  <2>1. file' \in Environment
    BY <1>1, EditedEnvironment, InitialEnvironments DEF EditFile
  <2>2. edits' \in 0..MaxEdits
    BY <1>1, DeploymentAssumption DEF EditFile
  <2> QED BY <1>1, <2>1, <2>2 DEF EditFile
<1>2. CASE Recreate
  <2>1. container' \in Environment
    BY <1>2, EditedEnvironment DEF Recreate
  <2>2. edits' \in 0..MaxEdits
    BY <1>2, DeploymentAssumption DEF Recreate
  <2> QED BY <1>2, <2>1, <2>2 DEF Recreate
<1>3. CASE Start
  BY <1>3, ConfigOfEnvironment DEF Start, Starts
<1>4. CASE Stop
  BY <1>4 DEF Stop
<1>5. CASE EngageKillSwitch
  BY <1>5 DEF EngageKillSwitch
<1>6. CASE Lose
  <2>1. loss' \in 0..MaxLoss
    BY <1>6, DeploymentAssumption DEF Lose
  <2> QED BY <1>6, <2>1 DEF Lose
<1>7. CASE Verify
  <2>1. assurance' \subseteq {"halted", "paper-armed"}
    BY <1>7 DEF Verify, Judgement
  <2> QED BY <1>7, <2>1 DEF Verify
<1>8. CASE BotOrder
  BY <1>8, OrderTypes DEF BotOrder
<1>9. CASE OperatorOrder
  BY <1>9, OrderTypes, ConfigOfEnvironment DEF OperatorOrder, Starts
<1>10. CASE Checkout
  <2>1. passed' \subseteq [Probes -> Statuses \cup {"none"}]
    BY <1>10, ReportTypes DEF Checkout
  <2> QED BY <1>10, <2>1 DEF Checkout
<1>11. CASE UNCHANGED vars
  BY <1>11 DEF vars
<1> QED BY <1>1, <1>2, <1>3, <1>4, <1>5, <1>6, <1>7, <1>8, <1>9, <1>10, <1>11 DEF Next

\* Every variable keeps its type: in particular the bot only ever runs a configuration
\* every part of which was understood (Config.from_env).
THEOREM TypeCorrect == Spec => []TypeOK
  BY TypeInit, TypeNext, PTL DEF Spec

-----------------------------------------------------------------------------
(* The environment is the ground of everything.                             *)

LEMMA PinnedInit == Init => Pinned
  BY InitialEnvironments DEF Init, Pinned

LEMMA JudgementStands ==
  ASSUME NEW env
  PROVE  /\ "halted" \in Judgement(env) => ~ FromEnv(env).on["ALLOW_ORDER_TRANSMIT"]
         /\ "paper-armed" \in Judgement(env) => FromEnv(env).mode # "live"
  BY DEF Judgement, Halted, ArmedNotLive

LEMMA ReportStands ==
  ASSUME NEW c, NEW report \in Reports(c), Passed(report)
  PROVE  Preconditions(c)
<1>1. SUFFICES ASSUME ~ Preconditions(c) PROVE FALSE
  OBVIOUS
<1>2. report = [n \in Probes |-> IF n = "PRECONDITIONS" THEN "FAIL" ELSE "none"]
  BY <1>1 DEF Reports
<1>3. report["PRECONDITIONS"] = "FAIL" /\ "PRECONDITIONS" \in Probes
  BY <1>2 DEF Probes
<1> QED BY <1>3 DEF Passed

LEMMA PinnedNext == TypeOK /\ Pinned /\ [Next]_vars => Pinned'
<1> SUFFICES ASSUME TypeOK, Pinned, [Next]_vars PROVE Pinned'
  OBVIOUS
<1> USE DEF Pinned
<1>1. CASE EditFile \/ Stop \/ EngageKillSwitch \/ Lose
  BY <1>1 DEF EditFile, Stop, EngageKillSwitch, Lose
<1>2. CASE Recreate
  BY <1>2 DEF Recreate
<1>3. CASE Start
  BY <1>3 DEF Start
<1>4. CASE Verify
  BY <1>4, JudgementStands DEF Verify
<1>5. CASE BotOrder \/ OperatorOrder
  BY <1>5 DEF BotOrder, OperatorOrder, Send
<1>6. CASE Checkout
  \* The mode is not a switch: the override leaves the permission to transmit as it is.
  <2>1. ASSUME NEW env \in {container, [container EXCEPT !.mode = "paper"]},
               NEW report \in Reports(FromEnv(env)), Passed(report)
        PROVE  ~ FromEnv(container).on["ALLOW_ORDER_TRANSMIT"]
    <3>1. Preconditions(FromEnv(env))
      BY <2>1, ReportStands
    <3>2. env.switch = container.switch
      BY DEF TypeOK, Environment
    <3>3. FromEnv(env).on = FromEnv(container).on
      BY <3>2 DEF FromEnv
    <3> QED BY <3>1, <3>3 DEF Preconditions
  <2> QED BY <1>6, <2>1 DEF Checkout
<1>7. CASE UNCHANGED vars
  BY <1>7 DEF vars
<1> QED BY <1>1, <1>2, <1>3, <1>4, <1>5, <1>6, <1>7 DEF Next

LEMMA ClearedInit == Init => Cleared
  BY DEF Init, Cleared

LEMMA ClearedNext == Pinned /\ Cleared /\ [Next]_vars => Cleared'
<1> SUFFICES ASSUME Pinned, Cleared, [Next]_vars PROVE Cleared'
  OBVIOUS
<1>1. CASE EditFile \/ Start \/ Stop \/ EngageKillSwitch \/ Lose \/ Verify \/ Checkout
  BY <1>1 DEF Cleared, EditFile, Start, Stop, EngageKillSwitch, Lose, Verify, Checkout
<1>2. CASE Recreate
  BY <1>2 DEF Cleared, Recreate
<1>3. ASSUME NEW c, NEW x \in Observations, Send(c, x),
             c = FromEnv(container), Starts(container)
      PROVE  Cleared'
  <2>1. RiskApproves(c, x, FALSE)
    BY <1>3 DEF Send, Permitted, RiskApproves, MasterControls
  <2>2. wire' = {[config |-> c, seen |-> x, loss |-> loss]} /\ container' = container
    BY <1>3 DEF Send
  <2>3. GateAllows(c, x)
    BY <1>3 DEF Send, Permitted
  <2> SUFFICES ASSUME NEW o \in wire'
               PROVE  /\ o.config = FromEnv(container) /\ Starts(container)
                      /\ o.seen \in Observations
                      /\ RiskApproves(o.config, o.seen, FALSE) /\ GateAllows(o.config, o.seen)
    BY <2>2, Zenon DEF Cleared
  <2>4. o.config = c /\ o.seen = x
    BY <2>2
  <2> QED BY <1>3, <2>1, <2>3, <2>4, Zenon
<1>4. CASE BotOrder
  BY <1>3, <1>4 DEF BotOrder, Pinned
<1>5. CASE OperatorOrder
  BY <1>3, <1>5 DEF OperatorOrder
<1>6. CASE UNCHANGED vars
  BY <1>6 DEF Cleared, vars
<1> QED BY <1>1, <1>2, <1>4, <1>5, <1>6 DEF Next

LEMMA Grounded == Spec => [](TypeOK /\ Pinned /\ Cleared)
  BY TypeInit, TypeNext, PinnedInit, PinnedNext, ClearedInit, ClearedNext, PTL DEF Spec

-----------------------------------------------------------------------------
(* What follows from it.                                                    *)

LEMMA ConsentOfCleared == TypeOK /\ Cleared => ExplicitConsent
<1> SUFFICES ASSUME TypeOK, Cleared, NEW o \in wire
             PROVE  /\ container.mode \in {"mock", "paper", "live"}
                    /\ o.seen.account_type = ExpectedAccountType(container.mode)
                    /\ container.switch["KILL_SWITCH"] = "false"
                    /\ container.switch["ALLOW_ORDER_TRANSMIT"] = "true"
                    /\ container.mode # "mock" =>
                         container.switch["SOL_FUTURES_PERMISSION_READY"] = "true"
                    /\ container.mode = "live" =>
                         container.switch["LIVE_TRADING_ENABLED"] = "true"
                    /\ \A v \in Numbers : container.number[v] > 0
  BY DEF ExplicitConsent
<1> DEFINE c == FromEnv(container)
<1>1. c = o.config /\ Parses(container) /\ Validate(c)
  BY DEF Cleared, Starts
<1>2. RiskApproves(c, o.seen, FALSE)
  BY <1>1 DEF Cleared
<1>3. c.mode = ParseMode(container.mode) /\ c.number = container.number
  BY DEF FromEnv
<1>4. \A v \in Switches : c.on[v] <=> ParseBool(container.switch[v], Default(v))
  BY DEF FromEnv
<1>5. container.mode \in ModeTexts \ {"garbage", "absent"} /\ c.mode = container.mode
  <2>1. c.mode # "disabled"
    BY <1>2 DEF RiskApproves, MasterControls
  <2>2. container.mode \in ModeTexts
    BY DEF TypeOK, Environment
  <2> QED BY <1>1, <1>3, <2>1, <2>2 DEF Parses, ParseMode
<1>6. container.mode \in {"mock", "paper", "live"}
  BY <1>2, <1>5 DEF ModeTexts, Modes, RiskApproves, MasterControls
<1>7. o.seen.account_type = ExpectedAccountType(container.mode)
  BY <1>2, <1>5, <1>6 DEF RiskApproves, Account
<1>8. \A v \in Switches : container.switch[v] \in {"absent", "true", "false"}
  BY <1>1 DEF TypeOK, Environment, SwitchTexts, Parses
<1>9. ~ c.on["KILL_SWITCH"] /\ c.on["ALLOW_ORDER_TRANSMIT"]
      /\ (c.mode \in {"paper", "live"} => c.on["SOL_FUTURES_PERMISSION_READY"])
  BY <1>2 DEF RiskApproves, MasterControls, Permissions, UsesIBKR
<1>10. container.switch["KILL_SWITCH"] = "false"
  BY <1>4, <1>8, <1>9 DEF ParseBool, Default, Switches
<1>11. container.switch["ALLOW_ORDER_TRANSMIT"] = "true"
  BY <1>4, <1>8, <1>9 DEF ParseBool, Default, Switches
<1>12. container.mode # "mock" => container.switch["SOL_FUTURES_PERMISSION_READY"] = "true"
  BY <1>4, <1>5, <1>6, <1>8, <1>9 DEF ParseBool, Default, Switches
<1>13. container.mode = "live" => container.switch["LIVE_TRADING_ENABLED"] = "true"
  BY <1>1, <1>4, <1>5, <1>8 DEF Validate, ParseBool, Default, Switches
<1>14. \A v \in Numbers : container.number[v] > 0
  BY <1>2, <1>3 DEF RiskApproves, NumericLimits, MarketData, Numbers
<1> QED BY <1>6, <1>7, <1>10, <1>11, <1>12, <1>13, <1>14

\* Nothing absent, defaulted or misread adds up to an order.
THEOREM ConsentIsExplicit == Spec => []ExplicitConsent
  BY Grounded, ConsentOfCleared, PTL

LEMMA LimitsOfCleared == TypeOK /\ Cleared => WithinLimits
<1> SUFFICES ASSUME TypeOK, Cleared, NEW o \in wire
    PROVE LET x == o.seen
              limit == container.number
          IN /\ ProjectedPosition(x) \in (- limit["MAX_POSITION_CONTRACTS"])..limit["MAX_POSITION_CONTRACTS"]
             /\ x.quantity \in 1..limit["MAX_ORDER_SIZE"]
             /\ Exposure(x) <= limit["MAX_NOTIONAL_EXPOSURE_USD"]
             /\ x.orders_last_hour + 1 <= limit["MAX_ORDERS_PER_HOUR"]
             /\ x.open_orders_count + 1 <= limit["MAX_OPEN_ORDERS"]
             /\ {x.age, x.age + x.late} \subseteq 0..limit["MARKET_DATA_MAX_AGE_SECONDS"]
  BY Zenon DEF WithinLimits
<1> DEFINE x == o.seen
           limit == container.number
<1>1. o.config.number = limit /\ Parses(container)
  <2>1. o.config = FromEnv(container) /\ Parses(container)
    BY Zenon DEF Cleared, Starts
  <2>2. FromEnv(container).number = container.number
    BY DEF FromEnv
  <2> QED BY <2>1, <2>2
<1>2. limit \in [Numbers -> Int] /\ x \in Observation
  BY DeploymentAssumption DEF TypeOK, Environment, Cleared
<1>3. NumericLimits(o.config, x) /\ MarketData(o.config, x) /\ GateMarketData(o.config, x)
  BY DEF Cleared, RiskApproves, GateAllows
<1>4. /\ x.current_position \in Int /\ x.side \in {1, -1} /\ x.quantity \in Nat
      /\ x.orders_last_hour \in Nat /\ x.open_orders_count \in Nat
      /\ x.age \in Int /\ x.late \in Nat
  BY <1>2 DEF Observation
<1>5. \A v \in Numbers : limit[v] \in Int
  BY <1>2
<1>6. ProjectedPosition(x) \in Int
  <2>1. x.side * x.quantity \in Int
    BY <1>4
  <2> QED BY <1>4, <2>1 DEF ProjectedPosition
<1>7. ProjectedPosition(x) \in (- limit["MAX_POSITION_CONTRACTS"])..limit["MAX_POSITION_CONTRACTS"]
  <2> DEFINE p == ProjectedPosition(x)
             m == limit["MAX_POSITION_CONTRACTS"]
  <2>1. m \in Int
    BY <1>5 DEF Numbers, Limits
  <2>2. (IF p < 0 THEN -p ELSE p) <= m
    BY <1>1, <1>3 DEF NumericLimits, Abs
  <2> HIDE DEF p, m
  <2>3. p \in (-m)..m
    BY <1>6, <2>1, <2>2 DEF p
  <2> QED BY <2>3 DEF p, m
<1>8. x.quantity \in 1..limit["MAX_ORDER_SIZE"]
  BY <1>1, <1>3, <1>4, <1>5 DEF NumericLimits, Numbers, Limits
<1>9. Exposure(x) <= limit["MAX_NOTIONAL_EXPOSURE_USD"]
  BY <1>1, <1>3 DEF NumericLimits
<1>10. /\ x.orders_last_hour + 1 <= limit["MAX_ORDERS_PER_HOUR"]
       /\ x.open_orders_count + 1 <= limit["MAX_OPEN_ORDERS"]
  BY <1>1, <1>3, <1>4, <1>5 DEF NumericLimits, Numbers, Limits
<1>11. {x.age, x.age + x.late} \subseteq 0..limit["MARKET_DATA_MAX_AGE_SECONDS"]
  BY <1>1, <1>3, <1>4, <1>5 DEF MarketData, GateMarketData, Numbers
<1> QED BY <1>7, <1>8, <1>9, <1>10, <1>11

\* Whatever order leaves, its outcome is within the limits of the environment.
THEOREM LimitsAreKept == Spec => []WithinLimits
  BY Grounded, LimitsOfCleared, PTL

LEMMA AssurancesOfPinned == TypeOK /\ Pinned /\ Cleared => AssurancesHold
<1> SUFFICES ASSUME TypeOK, Pinned, Cleared PROVE AssurancesHold
  OBVIOUS
<1>1. \A o \in wire : RiskApproves(FromEnv(container), o.seen, FALSE)
  BY DEF Cleared
<1>2. wire # {} => FromEnv(container).on["ALLOW_ORDER_TRANSMIT"]
  BY <1>1 DEF RiskApproves, MasterControls
<1>3. FromEnv(container).mode # "live" => \A o \in wire : o.seen.account_type # "LIVE"
  <2> SUFFICES ASSUME FromEnv(container).mode # "live", NEW o \in wire,
                      o.seen.account_type = "LIVE"
               PROVE  FALSE
    OBVIOUS
  <2>1. ExpectedAccountType(FromEnv(container).mode) = "LIVE"
    BY <1>1 DEF RiskApproves, Account, MasterControls
  <2> QED BY <2>1 DEF ExpectedAccountType
<1> QED BY <1>2, <1>3 DEF Pinned, AssurancesHold

\* What verify and the checkout said of a container holds of every order sent from it.
THEOREM AssurancesAreKept == Spec => []AssurancesHold
  BY Grounded, AssurancesOfPinned, PTL

\* A report without a failure is of a session, and there every read was answered.
LEMMA ReportObserved ==
  ASSUME NEW c, NEW report \in Reports(c), Passed(report)
  PROVE  /\ \A n \in Reads \cup {"SOCKET_CONNECT", "GATE_REFUSES_WHEN_EVERYTHING_ELSE_IS_GREEN"} :
              report[n] = "PASS"
         /\ report["CONTRACT_QUALIFIES"] = "PASS" \/ report["CONTRACT_MONTHS_AVAILABLE"] = "PASS"
<1> DEFINE unconnected == [n \in Probes |-> CASE n = "PRECONDITIONS" -> "PASS"
                                             [] n = "SOCKET_CONNECT" -> "FAIL" [] OTHER -> "SKIP"]
           made == {SessionReport(c, read, finding) :
                      read \in [Reads -> ReadStatuses], finding \in ContractFindings}
<1>1. Preconditions(c)
  BY ReportStands
<1>2. report = unconnected \/ report \in made
  BY <1>1 DEF Reports
<1>3. report # unconnected
  <2>1. "SOCKET_CONNECT" \in Probes /\ unconnected["SOCKET_CONNECT"] = "FAIL"
    BY DEF Probes
  <2> QED BY <2>1 DEF Passed
<1>4. PICK read \in [Reads -> ReadStatuses], finding \in ContractFindings :
        report = SessionReport(c, read, finding)
  BY <1>2, <1>3
<1>5. \A n \in Probes : report[n] # "FAIL"
  BY DEF Passed
<1>6. \A n \in Reads : report[n] = "PASS"
  <2> SUFFICES ASSUME NEW n \in Reads PROVE report[n] = "PASS"
    OBVIOUS
  <2>1. report[n] = read[n]
    BY <1>4 DEF SessionReport, Probes, Reads
  <2> QED BY <1>5, <2>1 DEF ReadStatuses, Probes
<1>7. report["SOCKET_CONNECT"] = "PASS"
  BY <1>4 DEF SessionReport, Probes, Reads
<1>8. report["GATE_REFUSES_WHEN_EVERYTHING_ELSE_IS_GREEN"] = "PASS"
  <2>1. report["GATE_REFUSES_WHEN_EVERYTHING_ELSE_IS_GREEN"] = GateProbe(c)
    BY <1>4 DEF SessionReport, Probes, Reads
  <2> QED BY <1>5, <2>1 DEF GateProbe, Probes
<1>9. report["CONTRACT_QUALIFIES"] = "PASS" \/ report["CONTRACT_MONTHS_AVAILABLE"] = "PASS"
  <2>1. /\ report["CONTRACT_QUALIFIES"] = finding.contract
        /\ report["CONTRACT_MONTHS_AVAILABLE"] = finding.months
    BY <1>4 DEF SessionReport, Probes, Reads
  <2>2. finding.contract # "FAIL" /\ finding.months # "FAIL"
    BY <1>5, <2>1 DEF Probes
  <2>3. finding.contract = "PASS" \/ finding.months = "PASS"
    BY <2>2 DEF ContractFindings
  <2> QED BY <2>1, <2>3
<1> QED BY <1>6, <1>7, <1>8, <1>9

\* A checkout that passed had every read answered, a contract or its months, and a gate
\* that refused.
THEOREM PassingIsObserving == Spec => []PassedMeansObserved
<1>1. Init => PassedMeansObserved
  BY DEF Init, PassedMeansObserved
<1>2. PassedMeansObserved /\ [Next]_vars => PassedMeansObserved'
  <2> SUFFICES ASSUME PassedMeansObserved, [Next]_vars PROVE PassedMeansObserved'
    OBVIOUS
  <2>1. CASE Checkout
    BY <2>1, ReportObserved DEF Checkout, PassedMeansObserved
  <2>2. CASE Recreate
    BY <2>2 DEF Recreate, PassedMeansObserved
  <2>3. CASE UNCHANGED passed
    BY <2>3 DEF PassedMeansObserved
  <2>4. Checkout \/ Recreate \/ UNCHANGED passed
    BY DEF Next, vars, EditFile, Start, Stop, EngageKillSwitch, Lose, Verify, BotOrder,
           OperatorOrder, Send
  <2> QED BY <2>1, <2>2, <2>3, <2>4
<1> QED BY <1>1, <1>2, PTL DEF Spec

\* The two lists of checks differ in nothing but what only one of them can see.
LEMMA OneListForBoth ==
  ASSUME NEW c \in Config, Validate(c), NEW x \in Observation,
         NumericLimits(c, x), ~ x.is_delayed, x.late = 0
  PROVE  RiskApproves(c, x, FALSE) <=> GateAllows(c, x)
<1>1. x.age + x.late = x.age
  BY DEF Observation
<1>2. MarketData(c, x) <=> GateMarketData(c, x)
  BY <1>1 DEF MarketData, GateMarketData
<1>3. Contract(x) <=> GateContract(x)
  BY DEF Contract, GateContract
<1>4. GateMode(c) <=> c.mode # "disabled"
  BY DEF GateMode, Validate
<1>5. Account(c, x) <=> x.account_available /\ GateAccount(c, x)
  BY DEF Account, GateAccount
<1> QED BY <1>2, <1>3, <1>4, <1>5 DEF RiskApproves, GateAllows, MasterControls, SystemState

THEOREM ListsAlwaysAgree == Spec => []ListsAgree
<1>1. TypeOK /\ Pinned => ListsAgree
  BY OneListForBoth, DeploymentAssumption DEF TypeOK, Pinned, Starts, ListsAgree
<1> QED BY <1>1, Grounded, PTL

-----------------------------------------------------------------------------
(* Editing towards safety.                                                  *)

\* What a configuration permits, every configuration permits that is in nothing
\* stricter: check by check, for all numbers and whatever is known.
LEMMA LooserPermits ==
  ASSUME NEW c \in Config, NEW d \in Config, NoLooser(c, d),
         NEW x \in Observation, NEW l,
         RiskApproves(c, x, l), GateAllows(c, x)
  PROVE  RiskApproves(d, x, l) /\ GateAllows(d, x)
<1>1. c.mode = d.mode
  BY DEF NoLooser, GateAllows, GateMode
<1>2. /\ ~ d.on["KILL_SWITCH"]
      /\ d.on["ALLOW_ORDER_TRANSMIT"] /\ d.on["STRATEGY_ENABLED"]
      /\ c.on["SOL_FUTURES_PERMISSION_READY"] => d.on["SOL_FUTURES_PERMISSION_READY"]
      /\ c.on["LIVE_TRADING_ENABLED"] => d.on["LIVE_TRADING_ENABLED"]
  BY DEF NoLooser, GateAllows, Switches
<1>3. \A v \in Numbers : c.number[v] \in Nat /\ d.number[v] \in Nat /\ c.number[v] <= d.number[v]
  BY DEF NoLooser, Config
<1>4. MasterControls(d, x, l)
  BY <1>1, <1>2 DEF RiskApproves, MasterControls
<1>5. Account(d, x) /\ GateAccount(d, x)
  BY <1>1 DEF RiskApproves, GateAllows, Account, GateAccount
<1>6. Permissions(d, x) /\ GateMode(d)
  BY <1>1, <1>2 DEF GateAllows, Permissions, UsesIBKR, GateMode
<1>7. x.age \in Int /\ x.late \in Nat
  BY DEF Observation
<1>8. MarketData(d, x) /\ GateMarketData(d, x)
  <2> DEFINE a == c.number["MARKET_DATA_MAX_AGE_SECONDS"]
             b == d.number["MARKET_DATA_MAX_AGE_SECONDS"]
  <2>1. a \in Nat /\ b \in Nat /\ a <= b
    BY <1>3 DEF Numbers
  <2>2. /\ a > 0 /\ x.quoted /\ x.age >= 0 /\ x.age <= a
        /\ ~ x.is_delayed /\ x.age + x.late >= 0 /\ x.age + x.late <= a
    BY DEF RiskApproves, GateAllows, MarketData, GateMarketData
  <2> HIDE DEF a, b
  <2>3. b > 0 /\ x.age <= b /\ x.age + x.late <= b
    BY <1>7, <2>1, <2>2
  <2> QED BY <2>2, <2>3 DEF MarketData, GateMarketData, b
<1>9. NumericLimits(d, x)
  <2>1. NumericLimits(c, x)
    BY DEF RiskApproves
  <2>2. \A v \in Limits : c.number[v] \in Nat /\ d.number[v] \in Nat /\ c.number[v] <= d.number[v]
    BY <1>3 DEF Numbers
  <2>3. x.quantity \in Nat /\ x.orders_last_hour \in Nat /\ x.open_orders_count \in Nat
    BY DEF Observation
  <2>4. \A v \in Limits : d.number[v] > 0
    BY <2>1, <2>2 DEF NumericLimits
  <2>5. Abs(ProjectedPosition(x)) \in Int /\ Exposure(x) \in Int
    <3>1. x.side * x.quantity \in Int /\ x.current_position \in Int /\ x.price \in Int
      BY DEF Observation
    <3>2. ProjectedPosition(x) \in Int
      BY <3>1 DEF ProjectedPosition
    <3>3. Abs(ProjectedPosition(x)) \in Int
      BY <3>2 DEF Abs
    <3>4. Abs(ProjectedPosition(x)) * x.price \in Int
      BY <3>1, <3>3
    <3> QED BY <3>3, <3>4 DEF Exposure
  <2>6. Abs(ProjectedPosition(x)) <= d.number["MAX_POSITION_CONTRACTS"]
    BY <2>1, <2>2, <2>5 DEF NumericLimits, Limits
  <2>7. Exposure(x) <= d.number["MAX_NOTIONAL_EXPOSURE_USD"]
    BY <2>1, <2>2, <2>5 DEF NumericLimits, Limits
  <2>8. /\ x.quantity > 0 /\ x.contract # "none" /\ x.quoted /\ x.price > 0
        /\ x.quantity <= d.number["MAX_ORDER_SIZE"]
        /\ x.orders_last_hour < d.number["MAX_ORDERS_PER_HOUR"]
        /\ x.open_orders_count < d.number["MAX_OPEN_ORDERS"]
    BY <2>1, <2>2, <2>3 DEF NumericLimits, Limits
  <2>9. DailyPnl > - d.number["MAX_DAILY_LOSS_USD"]
    BY <2>2, <2>4 DEF DailyPnl, Limits
  <2> QED BY <2>4, <2>6, <2>7, <2>8, <2>9 DEF NumericLimits
<1>10. RiskApproves(d, x, l)
  BY <1>4, <1>5, <1>6, <1>8, <1>9 DEF RiskApproves
<1>11. GateAllows(d, x)
  BY <1>2, <1>5, <1>6, <1>8 DEF GateAllows
<1> QED BY <1>10, <1>11

\* A file edited in nothing but the safe direction permits, once it is the container's,
\* no order the running bot would refuse: for every environment and all numbers.
THEOREM SaferByEveryEdit == Spec => []TighterIsSafer
<1>1. TypeOK => TighterIsSafer
  <2> SUFFICES ASSUME TypeOK, NEW c \in bot, Starts(file), NoLooser(FromEnv(file), c),
                      NEW x \in Observations, Permitted(FromEnv(file), x)
               PROVE  Permitted(c, x)
    BY DEF TighterIsSafer
  <2>1. c \in Config /\ FromEnv(file) \in Config
    BY ConfigOfEnvironment DEF TypeOK, Starts
  <2>2. x \in Observation
    BY DeploymentAssumption
  <2> QED BY <2>1, <2>2, LooserPermits DEF Permitted
<1> QED BY <1>1, Grounded, PTL

-----------------------------------------------------------------------------
(* Going live.                                                              *)

LEMMA LiveIsSpelledOut ==
  ASSUME NEW env \in Environment, Starts(env)
  PROVE  /\ FromEnv(env).mode = "live" <=> env.mode = "live"
         /\ env.switch["LIVE_TRADING_ENABLED"] = "true" <=> env.mode = "live"
<1>1. FromEnv(env).mode = ParseMode(env.mode)
  BY DEF FromEnv
<1>2. FromEnv(env).on["LIVE_TRADING_ENABLED"]
        <=> ParseBool(env.switch["LIVE_TRADING_ENABLED"], Default("LIVE_TRADING_ENABLED"))
  BY DEF FromEnv, Switches
<1>3. env.mode # "garbage" /\ env.switch["LIVE_TRADING_ENABLED"] \in SwitchTexts
  BY DEF Starts, Parses, Environment, Switches
<1>4. FromEnv(env).mode = "live" <=> env.mode = "live"
  BY <1>1, <1>3 DEF ParseMode
<1>5. FromEnv(env).on["LIVE_TRADING_ENABLED"] <=> env.switch["LIVE_TRADING_ENABLED"] = "true"
  BY <1>2, <1>3 DEF ParseBool, Default
<1> QED BY <1>4, <1>5 DEF Starts, Validate

\* No single variable makes a bot that was not live a live one.
THEOREM LiveNeedsTwoEdits == Spec => LiveTakesTwoEdits
<1> DEFINE P == GoesLive(before, before') => \E v, w \in Differ(before, before') : v # w
<1>1. ASSUME TypeOK, TypeOK', Pinned, Pinned', [Next]_vars PROVE [P]_before
  <2> SUFFICES ASSUME GoesLive(before, before')
               PROVE  \E v, w \in Differ(before, before') : v # w
    OBVIOUS
  <2>1. before.mode # before'.mode
    BY <1>1, LiveIsSpelledOut DEF TypeOK, Pinned, GoesLive
  <2>2. before.switch["LIVE_TRADING_ENABLED"] # before'.switch["LIVE_TRADING_ENABLED"]
    BY <1>1, LiveIsSpelledOut DEF TypeOK, Pinned, GoesLive
  <2>3. {"TRADING_MODE", "LIVE_TRADING_ENABLED"} \subseteq Differ(before, before')
    BY <2>1, <2>2 DEF Differ, Switches
  <2> QED BY <2>3
<1> QED BY <1>1, Grounded, PTL DEF Spec, LiveTakesTwoEdits

=============================================================================
