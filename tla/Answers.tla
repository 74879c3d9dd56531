------------------------------- MODULE Answers -------------------------------
(***************************************************************************)
(* What a caller of the broker adapter may rely on, with none of its       *)
(* machinery: a request is answered by exactly its own rows, or it fails.  *)
(* The exception has a name: a request that fails may spoil kinds (its own *)
(* if that has one request id for all) until the next session, and only an *)
(* answer of a spoilt kind may be mixed.  Kinds whose numbers others give  *)
(* out too may be spoilt by them at any time.  IBSession implements it.    *)
(***************************************************************************)
EXTENDS Naturals

CONSTANTS
  MaxCalls,     \* bound on the requests made
  Kinds,        \* the kinds of request
  Spoils,       \* Spoils[k]: the kinds a failed request of kind k makes doubtful
  Shared        \* the kinds whose numbers others give out too

VARIABLES
  kind,      \* kind[c] of request c, "none" before it is made
  outcome,   \* outcome[c]: how request c went
  spoilt     \* the kinds made doubtful in this session

vars == <<kind, outcome, spoilt>>

Calls == 1..MaxCalls

TypeOK ==
  /\ kind \in [Calls -> Kinds \cup {"none"}]
  /\ outcome \in [Calls -> {"unasked", "asked", "exact", "mixed", "failed"}]
  /\ spoilt \subseteq Kinds

Init ==
  /\ kind = [c \in Calls |-> "none"]
  /\ outcome = [c \in Calls |-> "unasked"]
  /\ spoilt = {}

\* One coroutine asks, so one request is open at a time.
Ask(c, k) ==
  /\ outcome[c] = "unasked"
  /\ \A d \in Calls : outcome[d] # "asked"
  /\ kind' = [kind EXCEPT ![c] = k]
  /\ outcome' = [outcome EXCEPT ![c] = "asked"]
  /\ UNCHANGED spoilt

\* The rows of the request, all of them and no others.
AnswerExactly(c) ==
  /\ outcome[c] = "asked"
  /\ outcome' = [outcome EXCEPT ![c] = "exact"]
  /\ UNCHANGED <<kind, spoilt>>

\* Too few rows, or rows of another request.
AnswerMixed(c) ==
  /\ outcome[c] = "asked"
  /\ kind[c] \in spoilt
  /\ outcome' = [outcome EXCEPT ![c] = "mixed"]
  /\ UNCHANGED <<kind, spoilt>>

\* Refused, timed out, or lost with the connection.
Fail(c) ==
  /\ outcome[c] = "asked"
  /\ outcome' = [outcome EXCEPT ![c] = "failed"]
  /\ spoilt' = spoilt \cup Spoils[kind[c]]
  /\ UNCHANGED kind

\* Others' answers under a shared number come, and are replaced by one's own.
Overhear ==
  /\ \E ks \in SUBSET Shared : spoilt' = (spoilt \ Shared) \cup ks
  /\ UNCHANGED <<kind, outcome>>

NewSession ==
  /\ \A c \in Calls : outcome[c] # "asked"
  /\ spoilt' = {}
  /\ UNCHANGED <<kind, outcome>>

Next ==
  \/ \E c \in Calls :
       \/ \E k \in Kinds : Ask(c, k)
       \/ AnswerExactly(c) \/ AnswerMixed(c) \/ Fail(c)
  \/ Overhear \/ NewSession

Spec == Init /\ [][Next]_vars

=============================================================================
