--------------------------- MODULE LiquidityPolicy ---------------------------
(***************************************************************************)
(* The liquidity policy of the quant engine (quantengine/liquidity/        *)
(* policy.py, api.py) and its stubbed bridge (bridge/quant_bridge.py): an  *)
(* evaluation answers whether a draw leaves the required buffer, a publish *)
(* hands a cash position to a bridge that has no transport.  The handlers  *)
(* run in a thread pool, so that publishes overlap between the two places  *)
(* that count them.                                                        *)
(*                                                                         *)
(* Cash and draws are counted in tenths of a cent, so that rounding to     *)
(* cents shows; a buffer and an allowed draw are in cents.  Products with  *)
(* basis points stay exact: they are counted in 1/10000 tenths of a cent.  *)
(***************************************************************************)
EXTENDS Integers

CONSTANTS
  Cash,      \* available cash of the requests, in tenths of a cent
  Draws,     \* requested draws, in tenths of a cent
  Bps,       \* basis points of the policies
  MaxCalls   \* bound: requests answered

ASSUME AmountsAreNaturals == Cash \subseteq Nat \ {0} /\ Draws \subseteq Nat
ASSUME BpsAreParts == Bps \subseteq 0 .. 10000
ASSUME CallsAreBounded == MaxCalls \in Nat

VARIABLES
  answer,     \* the last answer and the request it belongs to
  gauge,      \* liquidity_buffer_usd
  violations, \* policy_violations_total per rule
  published,  \* quant_publish_total per result
  circuit,    \* QUANT_CIRCUIT_OPEN
  dry,        \* QUANT_DRY_RUN
  halfway,    \* publishes back from the bridge that the endpoint has still to count:
              \* how many returned (TRUE) and how many raised (FALSE)
  calls       \* requests so far

policyVars == <<answer, gauge, violations, published, circuit, dry, halfway, calls>>

Rules   == {"holiday", "min_buffer", "max_draw_cap"}
Results == {"success", "skipped", "error", "ok"}
Part    == 10000
Cent    == 10 * Part
None    == [kind |-> "none"]

\* round(x, 2): the nearest cent; which one of two equally near is up to the
\* binary representation.
Rounded(x) ==
  {c \in {x \div Cent, x \div Cent + 1} : 2 * (x - c * Cent) <= Cent /\ 2 * (c * Cent - x) <= Cent}

\* compute_buffer
Buffer(cash, minBps) == Rounded(cash * minBps)

\* Mutant: the draw is not taken off the cash.
ReasonsCashOnly(cash, draw, maxBps, buffer, holiday) ==
     {r \in {"holiday"} : holiday}
     \cup {r \in {"min_buffer"} : cash < 10 * buffer}
     \cup {r \in {"max_draw_cap"} : draw * Part > cash * maxBps}

\* The rules a draw breaks.
Reasons(cash, draw, maxBps, buffer, holiday) ==
     {r \in {"holiday"} : holiday}
     \cup {r \in {"min_buffer"} : cash - draw < 10 * buffer}
     \cup {r \in {"max_draw_cap"} : draw * Part > cash * maxBps}

\* evaluate: the draw is allowed in full, rounded, or not at all.
Allowed(draw, reasons) == IF reasons = {} THEN Rounded(draw * Part) ELSE {0}

PolicyInit ==
  /\ answer = None
  /\ gauge = 0
  /\ violations = [r \in Rules |-> 0]
  /\ published = [r \in Results |-> 0]
  /\ circuit \in BOOLEAN /\ dry \in BOOLEAN
  /\ halfway = [ok \in BOOLEAN |-> 0]
  /\ calls = 0

Called == calls < MaxCalls /\ calls' = calls + 1

\* The endpoint counts every rule an answer names.
Count(reasons) ==
  violations' = [r \in Rules |-> violations[r] + IF r \in reasons THEN 1 ELSE 0]

\* POST /liquidity/evaluate
Evaluate(cash, draw, minBps, maxBps, holiday) ==
  /\ Called
  /\ \E buffer \in Buffer(cash, minBps) :
       LET reasons == Reasons(cash, draw, maxBps, buffer, holiday) IN
       /\ \E allowed \in Allowed(draw, reasons) :
            answer' = [kind |-> "evaluated", cash |-> cash, draw |-> draw, min |-> minBps,
                       max |-> maxBps, buffer |-> buffer, reasons |-> reasons, allowed |-> allowed]
       /\ gauge' = buffer
       /\ Count(reasons)
  /\ UNCHANGED <<published, circuit, dry, halfway>>

\* An asof_ts that is no date: 400 before anything is evaluated.
BadDate ==
  /\ Called
  /\ answer' = None
  /\ UNCHANGED <<gauge, violations, published, circuit, dry, halfway>>

\* publish_cash_position in some thread: the publish is skipped, simulated, or an
\* error for want of a transport; the bridge counts its result and is back.
Bridge ==
  /\ Called
  /\ LET result == IF circuit THEN "skipped" ELSE IF dry THEN "success" ELSE "error" IN
     published' = [published EXCEPT ![result] = @ + 1]
  /\ halfway' = [halfway EXCEPT ![circuit \/ dry] = @ + 1]
  /\ UNCHANGED <<answer, gauge, violations, circuit, dry>>

\* POST /bridge/publish goes on: the endpoint counts the same publish again under
\* its own label and answers.
PublishPosition(ok) ==
  /\ halfway[ok] > 0
  /\ halfway' = [halfway EXCEPT ![ok] = @ - 1]
  /\ published' = [published EXCEPT ![IF ok THEN "ok" ELSE "error"] = @ + 1]
  /\ answer' = [kind |-> "published", ok |-> ok, dry |-> dry]
  /\ UNCHANGED <<gauge, violations, circuit, dry, calls>>

PolicyNext ==
  \/ \E cash \in Cash, draw \in Draws, minBps \in Bps, maxBps \in Bps, holiday \in BOOLEAN :
       Evaluate(cash, draw, minBps, maxBps, holiday)
  \/ BadDate \/ Bridge
  \/ \E ok \in BOOLEAN : PublishPosition(ok)

PolicySpec == PolicyInit /\ [][PolicyNext]_policyVars

-----------------------------------------------------------------------------
(* Properties. *)

\* Every variable has its type.
PolicyTypeOK ==
  /\ gauge \in Nat /\ circuit \in BOOLEAN /\ dry \in BOOLEAN
  /\ violations \in [Rules -> Nat] /\ published \in [Results -> Nat]
  /\ halfway \in [BOOLEAN -> Nat] /\ calls \in 0 .. MaxCalls
  /\ \/ answer = None
     \/ answer.kind = "published"
     \/ answer.kind = "evaluated" /\ answer.cash \in Cash /\ answer.draw \in Draws
        /\ answer.buffer \in Nat /\ answer.allowed \in Nat /\ answer.reasons \subseteq Rules

\* What an answer allows leaves the buffer it names and stays within the cap,
\* to half a cent: both figures are rounded, each its own way
\* (policy.py:57-59, 103-119).
AllowedKeepsBuffer ==
  answer.kind = "evaluated" =>
    \/ answer.allowed = 0
    \/ /\ answer.cash - 10 * answer.allowed >= 10 * answer.buffer - 5
       /\ answer.allowed * Cent <= answer.cash * answer.max + Cent \div 2
=============================================================================
