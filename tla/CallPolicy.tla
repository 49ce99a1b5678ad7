------------------------------ MODULE CallPolicy ------------------------------
(***************************************************************************)
(* The calling policy of Ordely: when an order may be called again, what a  *)
(* finished call means, and how a result is written on the call.  These are *)
(* pure functions in the code (call-orchestration-policy.ts, voice.rules.ts *)
(* and the mapping at the top of handleResult), so they are operators here. *)
(*                                                                          *)
(* Time is counted in ticks.  A timestamp of the database is kept as its    *)
(* age, the number of ticks since it was written, and null is NoTime.       *)
(***************************************************************************)
EXTENDS Integers, FiniteSets

CONSTANTS
  RetryDelays,    \* RetryDelays[n]: ticks between the end of attempt n and attempt n + 1
  StaleTimeout,   \* a dispatched call older than this many ticks is given up on
  MinConfidence   \* the lowest confidence at which a decision of the customer counts

ASSUME PolicyAssumption ==
  /\ RetryDelays \in [1..2 -> Nat]
  /\ StaleTimeout \in Nat
  /\ MinConfidence \in Nat

MAX_ATTEMPTS == 3
NoTime == -1
NoAttempt == 0

CallStatus == {"pending", "confirmed", "failed", "no_answer"}

Disposition == {"none", "confirmed", "declined", "needs_human", "no_answer",
                "rejected", "error", "ambiguous", "policy_blocked"}

(* Mutated form: an unclear answer is not worth another call. *)
RetryableButUnclear == {"no_answer", "error"}

RetryableDisposition == {"no_answer", "error", "ambiguous"}

(***************************************************************************)
(* The calls of one order are a function from attempt numbers to rows; a    *)
(* number without a call holds NoRow.                                       *)
(***************************************************************************)
NoRow == [status |-> "none", disposition |-> "none", phase |-> "none",
          task |-> 0, dispatched |-> NoTime, completed |-> NoTime]

Exists(row) == row.status # "none"

Made(rows) == {n \in DOMAIN rows : Exists(rows[n])}

HasPending(rows) == \E n \in DOMAIN rows : rows[n].status = "pending"

IsLatest(rows, n) == n \in Made(rows) /\ \A m \in Made(rows) : m <= n

(* Mutated form: the delay of the first attempt is used for all of them. *)
RetryDueByFirstDelay(rows, n, lag) ==
  /\ IsLatest(rows, n)
  /\ n = Cardinality(Made(rows))
  /\ n < MAX_ATTEMPTS
  /\ rows[n].disposition \in RetryableDisposition
  /\ rows[n].completed # NoTime
  /\ rows[n].completed - lag >= RetryDelays[1]

(***************************************************************************)
(* Attempt n + 1 is due: n is the latest attempt and the number of calls,   *)
(* below the cap, ended for a reason that allows a retry, and its delay was *)
(* over `lag` ticks ago, when the caller read the clock.                    *)
(***************************************************************************)
RetryDue(rows, n, lag) ==
  /\ IsLatest(rows, n)
  /\ n = Cardinality(Made(rows))
  /\ n < MAX_ATTEMPTS
  /\ rows[n].disposition \in RetryableDisposition
  /\ rows[n].completed # NoTime
  /\ rows[n].completed - lag >= RetryDelays[n]

NextAttemptNumber(rows, lag) ==
  IF Cardinality(Made(rows)) >= MAX_ATTEMPTS THEN NoAttempt
  ELSE IF Made(rows) = {} THEN 1
  ELSE IF RetryDue(rows, Cardinality(Made(rows)), lag) THEN Cardinality(Made(rows)) + 1
  ELSE NoAttempt

(***************************************************************************)
(* A report is what a worker (or the adapter, for a worker that died) posts *)
(* at the end of a call.  Confidence is in tenths; NoConfidence is a field  *)
(* that is absent or not a number.                                          *)
(***************************************************************************)
NoConfidence == -1

Report == [disposition : {"completed", "no_answer", "rejected", "error"},
           intent : {"CONFIRMED", "CANCELLED", "UNCLEAR", "none"},
           confidence : NoConfidence..11]

WorkerFailure == [disposition |-> "error", intent |-> "none",
                  confidence |-> NoConfidence]

Confident(report) == report.confidence >= MinConfidence /\ report.confidence <= 10

DecideOutcome(report) ==
  IF report.disposition \in {"no_answer", "rejected", "error"} THEN "no_answer"
  ELSE IF Confident(report) /\ report.intent = "CONFIRMED" THEN "confirmed"
  ELSE IF Confident(report) /\ report.intent = "CANCELLED" THEN "cancelled"
  ELSE "unresolved"

Decisive(report) == DecideOutcome(report) \in {"confirmed", "cancelled"}

(* How a report on attempt n is stored, before the order is looked at. *)
ResultStatus(report, n) ==
  CASE DecideOutcome(report) = "confirmed" -> "confirmed"
    [] DecideOutcome(report) = "no_answer" /\ n < MAX_ATTEMPTS
         /\ report.disposition # "error" -> "no_answer"
    [] OTHER -> "failed"

(* Mutated form: the disposition of the worker is stored as it came. *)
ResultDispositionAsSent(report, n) ==
  IF DecideOutcome(report) = "confirmed" THEN "confirmed" ELSE report.disposition

(* Mutated form: an intent is believed whatever its confidence. *)
ResultDispositionTrusting(report, n) ==
  CASE report.intent = "CONFIRMED" -> "confirmed"
    [] report.intent = "CANCELLED" -> "declined"
    [] n >= MAX_ATTEMPTS -> "needs_human"
    [] DecideOutcome(report) = "no_answer" /\ n < MAX_ATTEMPTS -> report.disposition
    [] OTHER -> "ambiguous"

ResultDisposition(report, n) ==
  CASE DecideOutcome(report) = "confirmed" -> "confirmed"
    [] DecideOutcome(report) = "cancelled" -> "declined"
    [] ~Decisive(report) /\ n >= MAX_ATTEMPTS -> "needs_human"
    [] DecideOutcome(report) = "no_answer" /\ n < MAX_ATTEMPTS -> report.disposition
    [] OTHER -> "ambiguous"
=============================================================================
